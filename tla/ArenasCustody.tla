---------------------------- MODULE ArenasCustody ----------------------------
(***************************************************************************)
(* Whose arena is whose, for any number of threads, arenas and blocks: the *)
(* arena a call works in, the arena a thread keeps, and the mode it is in. *)
(***************************************************************************)
EXTENDS ArenasProofs

-------------------------------------------------------------------------------
(***************************************************************************)
(* The inductive invariant, on top of Inv.                                 *)
(***************************************************************************)
Listed == {listed[i] : i \in DOMAIN listed}

\* mm_self as it will be once the call is over.
Home(r) == IF r.saved = "own" THEN r.self ELSE r.saved

\* What a thread's own fields say of each other: where it can be in which call,
\* that mm_self is lent only for the duration of a call under the owner's lock,
\* and that an arena is filled by the thread that keeps it.
Proper(r) ==
  /\ r.op = none <=> r.pc \in {"idle", "walk", "init", "reset"}
  /\ r.op \in {"malloc", "install", none} <=> r.blk = none
  /\ r.pc = "push" => r.op = "free"
  /\ r.op = "size" => r.pc \in {"lock", "in"}
  /\ r.saved # "own" => r.pc \in {"lock", "in"} /\ r.op \in {"use", "size"}
  /\ r.key # none => Home(r) \in {r.key, Main}
  /\ r.pc \in {"empty", "fill"} => r.key = r.at
  /\ r.pc = "fill" => r.at # Main
  /\ r.op = "install" =>
       /\ r.self = Main /\ r.pc \in {"enter", "adopt", "empty", "lock", "in"}
       /\ r.pc \in {"empty", "lock", "in"} => r.at = Main

\* From the reset of the main arena until the caller's buffer is installed it does
\* not grow, so nobody is given an arena of his own meanwhile.
Threaded ==
  /\ mixed \in {0, 1, 2}
  /\ \A t \in Threads : Proper(thr[t])
  /\ \A t \in Threads : thr[t].op = "install" => ~arena[Main].growable
  /\ listlock # none /\ thr[listlock].i > 1 => ~arena[Main].growable

\* Every arena that is somewhere at hand, or has memory, is on the list.
Named ==
  /\ \A t \in Threads :
       {thr[t].self, thr[t].key, thr[t].at, thr[t].saved} \subseteq Listed \cup {none, "own"}
  /\ \A b \in Blocks : block[b].arena \in Listed \cup {none}
  /\ \A a \in Arenas : arena[a].live => a \in Listed

\* A critical section is inside its lock.
Holding == \A t \in Threads : thr[t].pc = "in" => lock[thr[t].at] = t

\* Epochs only lag behind; all of them do while the arenas are discarded.
Epochs ==
  /\ \A a \in Arenas : arena[a].epoch <= epoch
  /\ listlock # none => \A a \in Arenas : arena[a].epoch < epoch
  /\ listlock = none /\ arena[Main].claimed => arena[Main].epoch = epoch

\* A call that has an arena in hand has a current one, and a call about a block
\* the block's.
Current(t) ==
  /\ thr[t].pc \in {"lock", "in", "empty", "fill"} => arena[thr[t].at].epoch = epoch
  /\ thr[t].op \in {"free", "use", "size"} =>
       /\ thr[t].pc \in {"enter", "push", "lock", "in"}
       /\ thr[t].pc = "enter" => thr[t].self = block[thr[t].blk].arena
       /\ thr[t].pc \in {"lock", "in"} => thr[t].at = block[thr[t].blk].arena

\* Unless mm_init overlapped other calls, blocks are in current arenas, or in
\* arenas the reset under way has yet to come to.
Homed ==
  mixed < 2 =>
    /\ \A t \in Threads : Current(t)
    /\ \A b \in Blocks : block[b].st # "free" =>
         IF listlock = none THEN arena[block[b].arena].epoch = epoch
         ELSE \E j \in DOMAIN listed : j >= thr[listlock].i /\ listed[j] = block[b].arena

\* Unless mm_init took arenas from running threads, one that is kept is claimed
\* and nobody else's, and one that is about to be filled has no memory.
Kept ==
  mixed = 0 =>
    /\ \A t, u \in Threads : thr[t].key \in Extra /\ thr[u].key = thr[t].key => t = u
    /\ \A t \in Threads : thr[t].key \in Extra => arena[thr[t].key].claimed /\ listlock = none
    /\ \A t \in Threads : thr[t].pc = "fill" => ~arena[thr[t].at].live
    /\ \A a \in Arenas : ~arena[a].torn

\* An arena in another mode than the one asked for is one the walk under way has
\* yet to come to.
Modal ==
  \A a \in Arenas :
    arena[a].live /\ (a = Main => mainModed) /\ arena[a].mode # modeDefault =>
      \E t \in Threads : thr[t].pc = "walk" /\
        \E j \in DOMAIN listed : j >= thr[t].i /\ listed[j] = a

Custody == Threaded /\ Named /\ Holding /\ Epochs /\ Homed /\ Kept /\ Modal

-------------------------------------------------------------------------------
(***************************************************************************)
(* What each action does, field by field.                                  *)
(***************************************************************************)
Moves(t, self, key, pc, op, at, saved, blk) ==
  /\ thr'[t].self = self /\ thr'[t].key = key /\ thr'[t].pc = pc /\ thr'[t].op = op
  /\ thr'[t].at = at /\ thr'[t].saved = saved /\ thr'[t].blk = blk

\* The thread only goes on to pc; it is out of the allocator again.
Advances(t, pc) ==
  Moves(t, thr[t].self, thr[t].key, pc, thr[t].op, thr[t].at, thr[t].saved, thr[t].blk)
Comes(t, self) == Moves(t, self, thr[t].key, "idle", none, none, "own", none)

LEMMA GotoMoves ==
  ASSUME Types, NEW t \in Threads, NEW pc, Goto(t, pc)
  PROVE  Advances(t, pc)
  BY DEF Goto, Becomes, Types, ThreadType, Advances, Moves

LEMMA ReturnMoves ==
  ASSUME Types, NEW t \in Threads, Return(t)
  PROVE  Comes(t, thr[t].self)
  BY DEF Return, Becomes, Types, Idle, Comes, Moves

LEMMA EnterMoves ==
  ASSUME Types, NEW t \in Threads, Enter(t)
  PROVE  \/ /\ thr[t].self = none \/ arena[thr[t].self].epoch # epoch
            /\ Advances(t, "adopt")
         \/ /\ thr[t].self # none /\ arena[thr[t].self].epoch = epoch
            /\ Moves(t, thr[t].self, thr[t].key, "lock", thr[t].op, thr[t].self,
                     thr[t].saved, thr[t].blk)
<1>1. CASE thr[t].self = none \/ arena[thr[t].self].epoch # epoch
  BY <1>1, GotoMoves DEF Enter
<1>2. CASE ~(thr[t].self = none \/ arena[thr[t].self].epoch # epoch)
  <2>1. thr'[t] = [thr[t] EXCEPT !.pc = "lock", !.at = thr[t].self]
    BY <1>2 DEF Enter, Becomes, Types
  <2> QED
    BY <1>2, <2>1 DEF Types, ThreadType, Moves
<1> QED
  BY <1>1, <1>2

LEMMA ClaimMoves ==
  ASSUME Types, NEW t \in Threads, NEW a, Claim(t, a)
  PROVE  Moves(t, a, a, "empty", thr[t].op, a, thr[t].saved, thr[t].blk)
<1>1. thr'[t] = [thr[t] EXCEPT !.self = a, !.key = a, !.at = a, !.pc = "empty"]
  BY DEF Claim, Becomes, Types
<1> QED
  BY <1>1 DEF Types, ThreadType, Moves

LEMMA ShareMoves ==
  ASSUME Types, NEW t \in Threads, Share(t)
  PROVE  Moves(t, Main, thr[t].key, "lock", thr[t].op, Main, thr[t].saved, thr[t].blk)
<1>1. thr'[t] = [thr[t] EXCEPT !.self = Main, !.at = Main, !.pc = "lock"]
  BY DEF Share, Becomes, Types
<1> QED
  BY <1>1 DEF Types, ThreadType, Moves

\* Adoption either claims an arena or shares the main one.
LEMMA AdoptCases ==
  ASSUME Types, NEW t \in Threads, Adopt(t)
  PROVE  /\ thr[t].pc = "adopt" /\ listlock = none
         /\ UNCHANGED <<epoch, listlock, lock, block, modeDefault, mainModed, program, mixed>>
         /\ \/ Share(t) /\ arena[Main].claimed
            \/ Claim(t, Main) /\ UNCHANGED <<listed, orphans>>
            \/ /\ arena[Main].claimed /\ arena[Main].growable
               /\ \E a \in Arenas :
                    /\ Claim(t, a)
                    /\ \/ orphans # <<>> /\ a = Head(orphans) /\ UNCHANGED listed
                       \/ a \in Extra /\ a \notin Listed /\ listed' = Append(listed, a)
<1>1. AdoptOrphan(t) => Head(orphans) \in Arenas
  BY DEF AdoptOrphan, Types
<1> QED
  BY <1>1 DEF Adopt, At, AdoptMain, AdoptShared, AdoptOrphan, AdoptNew, modeVars, Listed, Arenas

LEMMA LeaveMoves ==
  ASSUME Types, NEW t \in Threads, NEW next \in ThreadType, Leave(t, next)
  PROVE  Moves(t, IF thr[t].saved = "own" THEN next.self ELSE thr[t].saved,
               next.key, next.pc, next.op, next.at, next.saved, next.blk)
<1>1. thr'[t] = [next EXCEPT !.self = IF thr[t].saved = "own" THEN @ ELSE thr[t].saved]
  BY DEF Leave, Becomes, Types
<1> QED
  BY <1>1 DEF ThreadType, Moves

\* The critical sections a call ends with.
LEMMA SectionMoves ==
  ASSUME Types, NEW t \in Threads, Leave(t, Idle(thr[t].self, thr[t].key))
  PROVE  Comes(t, Home(thr[t]))
<1> DEFINE next == Idle(thr[t].self, thr[t].key)
<1>1. next \in ThreadType
  BY IdleType DEF Types, ThreadType
<1>2. /\ next.self = thr[t].self /\ next.key = thr[t].key /\ next.pc = "idle"
      /\ next.op = none /\ next.at = none /\ next.saved = "own" /\ next.blk = none
  BY DEF Idle
<1> HIDE DEF next
<1>3. Leave(t, next)
  BY DEF next
<1> QED
  BY <1>1, <1>2, <1>3, LeaveMoves DEF Comes, Home, Moves

LEMMA SizeMoves ==
  ASSUME Types, NEW t \in Threads, Size(t)
  PROVE  Moves(t, Home(thr[t]), thr[t].key, "enter", "remalloc", none, "own", thr[t].blk)
<1> DEFINE next == [thr[t] EXCEPT !.pc = "enter", !.op = "remalloc", !.saved = "own", !.at = none]
<1>1. next \in ThreadType
  BY DEF Types, ThreadType, PCs, Ops, Names
<1>2. /\ next.self = thr[t].self /\ next.key = thr[t].key /\ next.pc = "enter"
      /\ next.op = "remalloc" /\ next.at = none /\ next.saved = "own" /\ next.blk = thr[t].blk
  BY DEF Types, ThreadType
<1>3. Leave(t, next)
  BY DEF Size
<1> HIDE DEF next
<1> QED
  BY <1>1, <1>2, <1>3, LeaveMoves DEF Home, Moves

LEMMA RemallocMoves ==
  ASSUME Types, NEW t \in Threads, Remalloc(t)
  PROVE  \/ Comes(t, Home(thr[t]))
         \/ Moves(t, Home(thr[t]), thr[t].key, WayBack(t, thr[t].blk), "free", none,
                  thr[t].saved, thr[t].blk)
<1>1. CASE Leave(t, Idle(thr[t].self, thr[t].key))
  BY <1>1, SectionMoves
<1>2. CASE Leave(t, [thr[t] EXCEPT !.op = "free", !.pc = WayBack(t, thr[t].blk), !.at = none])
  <2> DEFINE w == WayBack(t, thr[t].blk)
             next == [thr[t] EXCEPT !.op = "free", !.pc = w, !.at = none]
  <2>0. w \in PCs
    BY DEF WayBack, PCs
  <2> HIDE DEF w
  <2>1. next \in ThreadType
    BY <2>0 DEF Types, ThreadType, Ops, Names
  <2>2. /\ next.self = thr[t].self /\ next.key = thr[t].key /\ next.pc = w
        /\ next.op = "free" /\ next.at = none /\ next.saved = thr[t].saved
        /\ next.blk = thr[t].blk
    BY DEF Types, ThreadType
  <2>3. Leave(t, next)
    BY <1>2 DEF w
  <2> HIDE DEF next
  <2>4. Moves(t, Home(thr[t]), thr[t].key, w, "free", none, thr[t].saved, thr[t].blk)
    BY <2>1, <2>2, <2>3, LeaveMoves DEF Home, Moves
  <2> QED
    BY <2>4 DEF w
<1> QED
  BY <1>1, <1>2 DEF Remalloc

LEMMA PushMoves ==
  ASSUME Types, NEW t \in Threads, Push(t)
  PROVE  \/ Comes(t, thr[t].self)
         \/ Moves(t, thr[t].self, thr[t].key, "lock", thr[t].op, block[thr[t].blk].arena,
                  thr[t].saved, thr[t].blk) /\ UNCHANGED <<arena, block>>
<1>1. CASE Return(t)
  BY <1>1, ReturnMoves
<1>2. CASE /\ Becomes(t, [thr[t] EXCEPT !.pc = "lock", !.at = block[thr[t].blk].arena])
           /\ UNCHANGED heapVars
  <2>1. thr'[t] = [thr[t] EXCEPT !.pc = "lock", !.at = block[thr[t].blk].arena]
    BY <1>2 DEF Becomes, Types
  <2> QED
    BY <1>2, <2>1 DEF Types, ThreadType, Moves, heapVars
<1> QED
  BY <1>1, <1>2 DEF Push

LEMMA CallMoves ==
  ASSUME Types, NEW t \in Threads, NEW op, NEW b \in Blocks, NEW pc, Call(t, op, b, pc)
  PROVE  \/ pc = "lock" /\ Moves(t, block[b].arena, thr[t].key, pc, op, block[b].arena,
                                 thr[t].self, b)
         \/ pc # "lock" /\ Moves(t, thr[t].self, thr[t].key, pc, op, none, "own", b)
<1>1. CASE pc = "lock"
  <2>1. thr'[t] = [thr[t] EXCEPT !.pc = pc, !.op = op, !.blk = b, !.at = block[b].arena,
                                 !.self = block[b].arena, !.saved = thr[t].self]
    BY <1>1 DEF Call, Becomes, Types
  <2> QED
    BY <1>1, <2>1 DEF Types, ThreadType, Moves
<1>2. CASE pc # "lock"
  <2>1. thr'[t] = [thr[t] EXCEPT !.pc = pc, !.op = op, !.blk = b, !.at = none,
                                 !.self = thr[t].self, !.saved = "own"]
    BY <1>2 DEF Call, Becomes, Types
  <2> QED
    BY <1>2, <2>1 DEF Types, ThreadType, Moves
<1> QED
  BY <1>1, <1>2

\* A call on a block starts with a held block, outside a reset.
LEMMA CallCases ==
  ASSUME NEW t \in Threads, NEW b \in Blocks,
         FreeBegin(t, b) \/ UseBegin(t, b) \/ ReallocBegin(t, b)
  PROVE  \E op \in {"free", "use", "size"}, pc \in {"enter", "push", "lock"} :
           /\ Call(t, op, b, pc)
           /\ pc = "enter" => op # "size" /\ thr[t].self = block[b].arena
           /\ pc = "push" => op = "free"
           /\ pc = "lock" => op # "free"
  BY DEF FreeBegin, UseBegin, ReallocBegin, WayBack, EnterFor

LEMMA WalkMoves ==
  ASSUME Types, NEW t \in Threads, Walk(t)
  PROVE  \/ /\ thr[t].i <= Len(listed) /\ Advances(t, "walk") /\ thr'[t].i = thr[t].i + 1
            /\ arena' = [arena EXCEPT ![listed[thr[t].i]].mode = modeDefault]
         \/ ~(thr[t].i <= Len(listed)) /\ Comes(t, thr[t].self) /\ UNCHANGED arena
<1>1. CASE thr[t].i <= Len(listed)
  <2>1. thr'[t] = [thr[t] EXCEPT !.i = thr[t].i + 1]
    BY <1>1 DEF Walk, Becomes, Types
  <2>2. Advances(t, "walk") /\ thr'[t].i = thr[t].i + 1
    BY <2>1 DEF Walk, At, Types, ThreadType, Moves, Advances
  <2> QED
    BY <1>1, <2>2 DEF Walk
<1>2. CASE ~(thr[t].i <= Len(listed))
  BY <1>2, ReturnMoves DEF Walk
<1> QED
  BY <1>1, <1>2

LEMMA ResetArenaMoves ==
  ASSUME Types, NEW t \in Threads, ResetArena(t)
  PROVE  Advances(t, "reset") /\ thr'[t].i = thr[t].i + 1
<1>1. thr'[t] = [thr[t] EXCEPT !.i = thr[t].i + 1]
  BY DEF ResetArena, Becomes, Types
<1> QED
  BY <1>1 DEF ResetArena, At, Types, ThreadType, Moves, Advances

LEMMA InitLockMoves ==
  ASSUME Types, NEW t \in Threads, InitLock(t)
  PROVE  Advances(t, "reset") /\ thr'[t].i = 1
<1>1. thr'[t] = [thr[t] EXCEPT !.pc = "reset", !.i = 1]
  BY DEF InitLock, Becomes, Types
<1> QED
  BY <1>1 DEF Types, ThreadType, Moves, Advances

LEMMA SetModeMoves ==
  ASSUME Types, NEW t \in Threads, SetModeBegin(t)
  PROVE  Advances(t, "walk") /\ thr'[t].i = 1
<1>1. thr'[t] = [thr[t] EXCEPT !.pc = "walk", !.i = 1]
  BY DEF SetModeBegin, Becomes, Types
<1> QED
  BY <1>1 DEF Types, ThreadType, Moves, Advances

LEMMA ResetEndMoves ==
  ASSUME Types, NEW t \in Threads, ResetEnd(t)
  PROVE  Moves(t, Main, thr[t].key, "enter", "install", none, "own", none)
<1>1. thr'[t] = [Idle(Main, thr[t].key) EXCEPT !.pc = "enter", !.op = "install"]
  BY DEF ResetEnd, Becomes, Types
<1> QED
  BY <1>1 DEF Idle, Moves

LEMMA MallocBeginMoves ==
  ASSUME Types, NEW t \in Threads, MallocBegin(t)
  PROVE  Moves(t, thr[t].self, thr[t].key, "enter", "malloc", thr[t].at, thr[t].saved,
               thr[t].blk)
<1>1. thr'[t] = [thr[t] EXCEPT !.pc = "enter", !.op = "malloc"]
  BY DEF MallocBegin, Becomes, Types
<1> QED
  BY <1>1 DEF Types, ThreadType, Moves

\* on_thread_exit, the thread's end and mm_arena_init_growable leave the thread
\* idle.
LEMMA ExitMoves ==
  ASSUME Types, NEW t \in Threads
  PROVE  /\ OnThreadExit(t) => Moves(t, thr[t].self, none, "idle", thr[t].op, thr[t].at,
                                     thr[t].saved, thr[t].blk)
         /\ End(t) => Moves(t, none, thr[t].key, "idle", thr[t].op, thr[t].at,
                            thr[t].saved, thr[t].blk)
         /\ InitGrowable(t) => Moves(t, Main, thr[t].key, "idle", thr[t].op, thr[t].at,
                                     thr[t].saved, thr[t].blk)
<1>1. ASSUME OnThreadExit(t)
      PROVE  thr'[t] = [thr[t] EXCEPT !.key = none] /\ thr[t].pc = "idle"
  BY <1>1 DEF OnThreadExit, At, Becomes, Types
<1>2. ASSUME End(t)
      PROVE  thr'[t] = [thr[t] EXCEPT !.self = none] /\ thr[t].pc = "idle"
  BY <1>2 DEF End, At, Becomes, Types
<1>3. ASSUME InitGrowable(t)
      PROVE  thr'[t] = [thr[t] EXCEPT !.self = Main] /\ thr[t].pc = "idle"
  BY <1>3 DEF InitGrowable, At, Becomes, Types
<1> QED
  BY <1>1, <1>2, <1>3 DEF Types, ThreadType, Moves

\* Nothing of an arena but its queue.
Unmoved(c) ==
  /\ arena'[c].live = arena[c].live /\ arena'[c].growable = arena[c].growable
  /\ arena'[c].epoch = arena[c].epoch /\ arena'[c].torn = arena[c].torn
  /\ arena'[c].mode = arena[c].mode /\ arena'[c].claimed = arena[c].claimed

LEMMA QueueMoves ==
  ASSUME Types, NEW a \in Arenas, NEW Q, arena' = [arena EXCEPT ![a].queue = Q]
  PROVE  \A c \in Arenas : Unmoved(c)
<1>1. \A c \in Arenas : arena'[c] = IF c = a THEN [arena[a] EXCEPT !.queue = Q] ELSE arena[c]
  BY DEF Types
<1>2. arena[a] \in ArenaType
  BY DEF Types
<1> QED
  BY <1>1, <1>2 DEF ArenaType, Unmoved

\* Most steps leave the arenas alone but for a queue.
Quiet(t) ==
  \/ Enter(t) \/ Acquire(t) \/ IsEmpty(t) \/ Malloc(t) \/ Free(t) \/ Push(t) \/ Use(t)
  \/ Size(t) \/ Remalloc(t) \/ InitLock(t) \/ MallocBegin(t) \/ SetModeBegin(t)
  \/ InitBegin(t) \/ End(t)
  \/ \E b \in Blocks : FreeBegin(t, b) \/ UseBegin(t, b) \/ ReallocBegin(t, b)

LEMMA QuietArenas ==
  ASSUME Types, Placed, Lent, NEW t \in Threads, Quiet(t)
  PROVE  \A c \in Arenas : Unmoved(c)
<1>1. CASE UNCHANGED arena
  BY <1>1 DEF Unmoved
<1>2. CASE Malloc(t) \/ Free(t) \/ Remalloc(t) \/ (Use(t) /\ thr[t].saved = "own")
  <2>1. thr[t].at \in Arenas
    BY <1>2 DEF Malloc, Free, Remalloc, Use, At, Placed, InPlace
  <2>2. arena' = [arena EXCEPT ![thr[t].at].queue = {}]
    BY <1>2 DEF Malloc, Free, Remalloc, Use, EmptyQueue
  <2> QED
    BY <2>1, <2>2, QueueMoves
<1>3. CASE Push(t) /\ ~UNCHANGED arena
  <2> DEFINE o == block[thr[t].blk].arena
  <2>1. thr[t].blk \in Blocks
    BY <1>3 DEF Push, At, Placed, InPlace, Types, ThreadType
  <2>2. thr[t].blk # none
    BY <2>1, ArenasAssumption
  <2>3. o \in Arenas
    BY <2>1, <2>2 DEF Lent
  <2> HIDE DEF o
  <2>4. arena' = [arena EXCEPT ![o].queue = arena[o].queue \cup {thr[t].blk}]
    BY <1>3, <2>3 DEF Push, heapVars, o, Types
  <2> QED
    BY <2>3, <2>4, QueueMoves
<1>4. \/ UNCHANGED arena
      \/ Malloc(t) \/ Free(t) \/ Remalloc(t) \/ (Use(t) /\ thr[t].saved = "own")
      \/ Push(t)
  BY DEF Quiet, Enter, Acquire, IsEmpty, Use, Size, InitLock, MallocBegin, SetModeBegin,
         InitBegin, End, FreeBegin, UseBegin, ReallocBegin, Call, heapVars
<1> QED
  BY <1>1, <1>2, <1>3, <1>4

LEMMA ClaimArenas ==
  ASSUME Types, NEW t, NEW a \in Arenas, Claim(t, a)
  PROVE  /\ \A c \in Arenas : c # a => Unmoved(c)
         /\ arena'[a].live = arena[a].live /\ arena'[a].growable = arena[a].growable
         /\ arena'[a].torn = arena[a].torn /\ arena'[a].mode = arena[a].mode
         /\ arena'[a].claimed /\ arena'[a].epoch = epoch
<1> DEFINE Q == IF a = Main THEN {} ELSE arena[a].queue
<1>1. arena'[a] = [arena[a] EXCEPT !.claimed = TRUE, !.epoch = epoch, !.queue = Q]
  BY DEF Claim, Claimed, Types
<1>2. \A c \in Arenas : c # a => arena'[c] = arena[c]
  BY DEF Claim, Types
<1>3. arena[a] \in ArenaType
  BY DEF Types
<1> HIDE DEF Q
<1> QED
  BY <1>1, <1>2, <1>3 DEF ArenaType, Unmoved

LEMMA FillArenas ==
  ASSUME Types, NEW t \in Threads, thr[t].at \in Arenas, Fill(t)
  PROVE  /\ \A c \in Arenas : c # thr[t].at => Unmoved(c)
         /\ arena'[thr[t].at].mode = modeDefault
         /\ arena'[thr[t].at].torn = (arena[thr[t].at].torn \/ arena[thr[t].at].live)
         /\ arena'[thr[t].at].epoch = arena[thr[t].at].epoch
         /\ arena'[thr[t].at].claimed = arena[thr[t].at].claimed
<1> DEFINE a == thr[t].at
<1>1. PICK mapped \in BOOLEAN : arena' = [arena EXCEPT ![a] = Filled(a, mapped)]
  BY DEF Fill
<1>2. arena'[a] = [arena[a] EXCEPT !.live = mapped \/ arena[a].live, !.growable = mapped,
                     !.mode = modeDefault, !.torn = arena[a].torn \/ arena[a].live]
  BY <1>1 DEF Filled, Types, ArenaType
<1>3. \A c \in Arenas : c # a => arena'[c] = arena[c]
  BY <1>1 DEF Types
<1>4. arena[a] \in ArenaType
  BY DEF Types
<1> HIDE DEF a
<1>5. /\ \A c \in Arenas : c # a => Unmoved(c)
      /\ arena'[a].mode = modeDefault
      /\ arena'[a].torn = (arena[a].torn \/ arena[a].live)
      /\ arena'[a].epoch = arena[a].epoch /\ arena'[a].claimed = arena[a].claimed
  BY <1>2, <1>3, <1>4 DEF ArenaType, Unmoved
<1> QED
  BY <1>5 DEF a

LEMMA WalkArenas ==
  ASSUME Types, NEW a \in Arenas, arena' = [arena EXCEPT ![a].mode = modeDefault]
  PROVE  /\ \A c \in Arenas : c # a => Unmoved(c)
         /\ arena'[a].mode = modeDefault
         /\ arena'[a].live = arena[a].live /\ arena'[a].growable = arena[a].growable
         /\ arena'[a].torn = arena[a].torn /\ arena'[a].epoch = arena[a].epoch
         /\ arena'[a].claimed = arena[a].claimed
<1>1. arena'[a] = [arena[a] EXCEPT !.mode = modeDefault]
  BY DEF Types
<1>2. \A c \in Arenas : c # a => arena'[c] = arena[c]
  BY DEF Types
<1> QED
  BY <1>1, <1>2 DEF Types, ArenaType, Unmoved

\* on_thread_exit takes the claim off the arena the thread kept.
LEMMA ExitArenas ==
  ASSUME Types, NEW t \in Threads, OnThreadExit(t)
  PROVE  \A c \in Arenas :
           /\ c # thr[t].key => Unmoved(c)
           /\ arena'[c].live = arena[c].live /\ arena'[c].growable = arena[c].growable
           /\ arena'[c].torn = arena[c].torn /\ arena'[c].epoch = arena[c].epoch
           /\ arena'[c].mode = arena[c].mode
           /\ c = Main => Unmoved(c)
<1>0. thr[t].key \in Names
  BY DEF Types, ThreadType
<1>1. CASE UNCHANGED arena
  BY <1>1 DEF Unmoved
<1>2. CASE thr[t].key # Main /\ arena' = [arena EXCEPT ![thr[t].key].claimed = FALSE]
  <2>1. \A c \in Arenas : arena'[c] =
          IF c = thr[t].key THEN [arena[c] EXCEPT !.claimed = FALSE] ELSE arena[c]
    BY <1>2 DEF Types
  <2> SUFFICES ASSUME NEW c \in Arenas, c = thr[t].key
               PROVE  /\ arena'[c].live = arena[c].live /\ arena'[c].growable = arena[c].growable
                      /\ arena'[c].torn = arena[c].torn /\ arena'[c].epoch = arena[c].epoch
                      /\ arena'[c].mode = arena[c].mode
    BY <1>2, <2>1 DEF Unmoved
  <2>2. arena[c] \in ArenaType /\ arena'[c] = [arena[c] EXCEPT !.claimed = FALSE]
    BY <2>1 DEF Types
  <2> QED
    BY <2>2 DEF ArenaType
<1> QED
  BY <1>1, <1>2 DEF OnThreadExit

LEMMA EmptiedArenas ==
  ASSUME Types, NEW S, Emptied(S)
  PROVE  \A c \in Arenas :
           /\ c \notin S => Unmoved(c)
           /\ c \in S => ~arena'[c].live /\ ~arena'[c].growable /\ ~arena'[c].claimed
           /\ arena'[c].epoch = arena[c].epoch /\ arena'[c].torn = arena[c].torn
           /\ arena'[c].mode = arena[c].mode
<1>1. \A c \in Arenas : arena'[c] =
        IF c \in S THEN [arena[c] EXCEPT !.live = FALSE, !.growable = FALSE, !.queue = {},
                                         !.claimed = FALSE]
                   ELSE arena[c]
  BY DEF Emptied, Discard
<1> QED
  BY <1>1 DEF Types, ArenaType, Unmoved

LEMMA ResetEndArenas ==
  ASSUME Types, NEW t, ResetEnd(t)
  PROVE  \A c \in Arenas :
           /\ c # Main => Unmoved(c)
           /\ arena'[c].live = arena[c].live /\ arena'[c].growable = arena[c].growable
           /\ arena'[c].torn = arena[c].torn /\ arena'[c].mode = arena[c].mode
           /\ c = Main => arena'[c].epoch = epoch /\ arena'[c].claimed
<1>1. \A c \in Arenas : arena'[c] =
        IF c = Main THEN [arena[c] EXCEPT !.claimed = TRUE, !.epoch = epoch] ELSE arena[c]
  BY DEF ResetEnd, Types
<1> QED
  BY <1>1 DEF Types, ArenaType, Unmoved

LEMMA InstallArenas ==
  ASSUME Types, NEW t, Install(t), thr[t].at = Main
  PROVE  \A c \in Arenas :
           /\ c # Main => Unmoved(c)
           /\ arena'[c].growable = arena[c].growable /\ arena'[c].torn = arena[c].torn
           /\ arena'[c].epoch = arena[c].epoch /\ arena'[c].claimed = arena[c].claimed
<1>1. \A c \in Arenas : arena'[c] =
        IF c = Main THEN [arena[c] EXCEPT !.live = TRUE, !.mode = "managed", !.queue = {}]
                    ELSE arena[c]
  BY DEF Install, Types
<1> SUFFICES ASSUME NEW c \in Arenas, c = Main
             PROVE  /\ arena'[c].growable = arena[c].growable /\ arena'[c].torn = arena[c].torn
                    /\ arena'[c].epoch = arena[c].epoch /\ arena'[c].claimed = arena[c].claimed
  BY <1>1 DEF Unmoved
<1>2. /\ arena[c] \in ArenaType
      /\ arena'[c] = [arena[c] EXCEPT !.live = TRUE, !.mode = "managed", !.queue = {}]
  BY <1>1 DEF Types
<1> QED
  BY <1>2 DEF ArenaType

LEMMA InitGrowableArenas ==
  ASSUME Types, NEW t, InitGrowable(t)
  PROVE  \A c \in Arenas :
           /\ arena'[c].torn = arena[c].torn
           /\ c # Main => ~arena'[c].live /\ ~arena'[c].claimed /\
                          arena'[c].epoch = arena[c].epoch
           /\ c = Main => arena'[c].epoch = epoch + 1
<1>1. PICK mapped \in BOOLEAN : arena' = [a \in Arenas |->
         IF a = Main
         THEN [arena[a] EXCEPT !.live = mapped, !.growable = mapped, !.queue = {},
                               !.claimed = TRUE, !.epoch = epoch + 1, !.mode = "managed"]
         ELSE Discard(a)]
  BY DEF InitGrowable
<1>2. \A c \in Arenas : c # Main => arena'[c] =
        [arena[c] EXCEPT !.live = FALSE, !.growable = FALSE, !.queue = {}, !.claimed = FALSE]
  BY <1>1 DEF Discard
<1>3. arena'[Main] = [arena[Main] EXCEPT !.live = mapped, !.growable = mapped, !.queue = {},
                        !.claimed = TRUE, !.epoch = epoch + 1, !.mode = "managed"]
  BY <1>1 DEF Arenas
<1>4. ASSUME NEW c \in Arenas, c # Main
      PROVE  /\ arena'[c].torn = arena[c].torn /\ ~arena'[c].live /\ ~arena'[c].claimed
             /\ arena'[c].epoch = arena[c].epoch
  <2>1. arena[c] \in ArenaType
    BY DEF Types
  <2> QED
    BY <1>2, <1>4, <2>1 DEF ArenaType
<1>5. arena'[Main].torn = arena[Main].torn /\ arena'[Main].epoch = epoch + 1
  <2>1. arena[Main] \in ArenaType
    BY DEF Types, Arenas
  <2> QED
    BY <1>3, <2>1 DEF ArenaType
<1> QED
  BY <1>4, <1>5

-------------------------------------------------------------------------------
\* A block is given up, or stays where it is, or is a new one of the arena the
\* thread is working in.
GivenUp(b)  == block'[b].st = "free" /\ block'[b].arena = none
Stays(b)    == block'[b].arena = block[b].arena /\ (block'[b].st = "free" <=> block[b].st = "free")
Taken(t, b) == /\ block'[b].st = "held" /\ block'[b].arena = thr[t].at
               /\ Malloc(t) \/ Remalloc(t)
               /\ arena[thr[t].at].live

LEMMA DrainedMoves ==
  ASSUME Types, NEW a \in Arenas, NEW b \in Blocks
  PROVE  /\ Drained(a)[b] = block[b] \/ Drained(a)[b] = [st |-> "free", arena |-> none]
         /\ b \notin arena[a].queue => Drained(a)[b] = block[b]
  BY DEF Drained

LEMMA AllocatedMoves ==
  ASSUME Types, NEW a \in Arenas, NEW after \in Allocated(a, Drained(a)), NEW b \in Blocks
  PROVE  \/ after[b] = block[b] \/ after[b] = [st |-> "free", arena |-> none]
         \/ after[b] = [st |-> "held", arena |-> a] /\ arena[a].live
<1>1. Drained(a) \in [Blocks -> BlockType]
  BY DrainedType
<1>2. \/ after = Drained(a)
      \/ arena[a].live /\ \E c \in Blocks \cup program.blocks :
           after = [Drained(a) EXCEPT ![c] = [st |-> "held", arena |-> a]]
  BY DEF Allocated
<1>3. after[b] = Drained(a)[b] \/ (after[b] = [st |-> "held", arena |-> a] /\ arena[a].live)
  BY <1>1, <1>2
<1> QED
  BY <1>3, DrainedMoves

LEMMA BlockMoves ==
  ASSUME Inv, NEW t \in Threads, Step(t) \/ Begin(t)
  PROVE  \A b \in Blocks : GivenUp(b) \/ Stays(b) \/ Taken(t, b)
<1> SUFFICES ASSUME NEW b \in Blocks PROVE GivenUp(b) \/ Stays(b) \/ Taken(t, b)
  OBVIOUS
<1> USE DEF Inv
<1>1. CASE block'[b] = block[b]
  BY <1>1 DEF Stays
<1>2. CASE block'[b] = [st |-> "free", arena |-> none]
  BY <1>2 DEF GivenUp
<1>at. At(t, "in") => thr[t].at \in Arenas
  BY DEF At, Placed, InPlace
<1>l. thr[t].blk \in Blocks => /\ block[thr[t].blk].st = "lent"
                               /\ \A a \in Arenas : thr[t].blk \notin arena[a].queue
  BY ArenasAssumption DEF Lent
<1>3. CASE Malloc(t)
  <2>1. block'[b] = [st |-> "held", arena |-> thr[t].at] /\ arena[thr[t].at].live
          => Taken(t, b)
    BY <1>3 DEF Taken
  <2> QED
    BY <1>1, <1>2, <1>3, <1>at, <2>1, AllocatedMoves DEF Malloc
<1>4. CASE Free(t)
  <2>1. Drained(thr[t].at) \in [Blocks -> BlockType]
    BY <1>4, <1>at, DrainedType DEF Free
  <2>2. block'[b] = Drained(thr[t].at)[b] \/ block'[b] = [st |-> "free", arena |-> none]
    BY <1>4, <2>1 DEF Free, Freed
  <2> QED
    BY <1>1, <1>2, <1>4, <1>at, <2>2, DrainedMoves DEF Free
<1>5. ASSUME NEW blocks \in [Blocks -> BlockType], block' = Unlent(blocks, thr[t].blk),
             blocks[b] = block[b] \/ blocks[b] = [st |-> "free", arena |-> none],
             b = thr[t].blk => blocks[b] = block[b]
      PROVE  GivenUp(b) \/ Stays(b) \/ Taken(t, b)
  <2>1. CASE b = thr[t].blk
    <3>1. block'[b] = [block[b] EXCEPT !.st = "held"] /\ block[b] \in BlockType
      BY <1>5, <2>1 DEF Unlent
    <3> QED
      BY <1>l, <2>1, <3>1 DEF Stays, BlockType
  <2>2. CASE b # thr[t].blk
    BY <1>1, <1>2, <1>5, <2>2 DEF Unlent
  <2> QED
    BY <2>1, <2>2
<1>6. At(t, "in") => LET d == Drained(thr[t].at) IN
        /\ d \in [Blocks -> BlockType]
        /\ d[b] = block[b] \/ d[b] = [st |-> "free", arena |-> none]
        /\ b = thr[t].blk => d[b] = block[b]
  BY <1>at, <1>l, DrainedType, DrainedMoves
<1>7. CASE Use(t)
  <2>1. At(t, "in") /\ block' = Unlent(IF thr[t].saved = "own" THEN Drained(thr[t].at)
                                                               ELSE block, thr[t].blk)
    BY <1>7 DEF Use
  <2> QED
    BY <1>5, <1>6, <2>1 DEF Types
<1>8. CASE Remalloc(t)
  <2>1. block'[b] = [st |-> "held", arena |-> thr[t].at] /\ arena[thr[t].at].live
          => Taken(t, b)
    BY <1>8 DEF Taken
  <2>2. CASE block' = Unlent(Drained(thr[t].at), thr[t].blk)
    BY <1>5, <1>6, <1>8, <2>2 DEF Remalloc
  <2>3. CASE block' \in Allocated(thr[t].at, Drained(thr[t].at))
    BY <1>1, <1>2, <1>8, <1>at, <2>1, <2>3, AllocatedMoves DEF Remalloc
  <2> QED
    BY <1>8, <2>2, <2>3 DEF Remalloc
<1>9. ASSUME NEW c \in Blocks, NEW s \in {"lent", "queued"}, block[c].st # "free",
             block' = [block EXCEPT ![c].st = s]
      PROVE  GivenUp(b) \/ Stays(b) \/ Taken(t, b)
  <2>1. block'[b] = IF b = c THEN [block[b] EXCEPT !.st = s] ELSE block[b]
    BY <1>9 DEF Types
  <2> QED
    BY <1>9, <2>1 DEF Types, BlockType, Stays
<1>10. CASE Push(t)
  <2>1. thr[t].blk \in Blocks
    BY <1>10 DEF Push, At, Placed, InPlace, Types, ThreadType
  <2>2. block' = [block EXCEPT ![thr[t].blk].st = "queued"] \/ block' = block
    BY <1>10 DEF Push, heapVars
  <2> QED
    BY <1>1, <1>9, <1>l, <2>1, <2>2
<1>11. CASE ResetArena(t) \/ InitGrowable(t)
  <2>1. block'[b] = block[b] \/ block'[b] = [st |-> "free", arena |-> none]
    BY <1>11 DEF ResetArena, InitGrowable, Emptied
  <2> QED
    BY <1>1, <1>2, <2>1
<1>12. CASE Install(t)
  <2>1. block' = Drained(thr[t].at) /\ thr[t].at \in Arenas
    BY <1>12, <1>at DEF Install
  <2> QED
    BY <1>1, <1>2, <2>1, DrainedMoves
<1>13. CASE \/ Enter(t) \/ Acquire(t) \/ Adopt(t) \/ IsEmpty(t) \/ Fill(t) \/ Size(t) \/ Walk(t)
            \/ InitLock(t) \/ ResetEnd(t) \/ MallocBegin(t) \/ SetModeBegin(t) \/ InitBegin(t)
            \/ OnThreadExit(t) \/ End(t)
  BY <1>1, <1>13 DEF Enter, Acquire, Adopt, IsEmpty, Fill, Size, Walk, InitLock, ResetEnd,
     MallocBegin, SetModeBegin, InitBegin, OnThreadExit, End, heapVars
<1>14. ASSUME NEW c \in Blocks, FreeBegin(t, c) \/ UseBegin(t, c) \/ ReallocBegin(t, c)
       PROVE  GivenUp(b) \/ Stays(b) \/ Taken(t, b)
  BY <1>9, <1>14 DEF FreeBegin, UseBegin, ReallocBegin, Call
<1> QED
  BY <1>3, <1>4, <1>7, <1>8, <1>10, <1>11, <1>12, <1>13, <1>14 DEF Step, Begin

-------------------------------------------------------------------------------
(***************************************************************************)
(* The threads' own fields.                                                *)
(***************************************************************************)
LEMMA ComesProper ==
  ASSUME Types, NEW t \in Threads, Proper(thr[t]),
         Comes(t, Home(thr[t]))
  PROVE  Proper(thr'[t])
  BY MarkersAssumption DEF Proper, Comes, Moves, Home

LEMMA ProperStep ==
  ASSUME Inv, Threaded, NEW t \in Threads, Step(t) \/ Begin(t)
  PROVE  Proper(thr'[t])
<1>p. Types /\ Placed /\ Proper(thr[t])
  BY DEF Inv, Threaded
<1>t. thr[t] \in ThreadType
  BY <1>p DEF Types
<1>n. none # Main /\ none \notin Arenas
  BY ArenasAssumption DEF Arenas
<1>o. none \notin {"malloc", "free", "use", "size", "remalloc", "install"}
  BY MarkersAssumption
<1>1. CASE Enter(t)
  <2>1. thr[t].pc = "enter"
    BY <1>1 DEF Enter, At
  <2> QED
    BY <1>1, <1>p, <2>1, EnterMoves DEF Proper, Home, Advances, Moves
<1>2. CASE Acquire(t)
  <2>1. thr[t].pc = "lock" /\ Advances(t, "in")
    BY <1>2, <1>p, GotoMoves DEF Acquire, At
  <2> QED
    BY <1>p, <2>1 DEF Proper, Home, Advances, Moves
<1>3. CASE Adopt(t)
  <2>1. thr[t].pc = "adopt"
    BY <1>3, <1>p, AdoptCases
  <2>2. ASSUME NEW a \in Arenas, Claim(t, a), thr[t].op = "install" => a = Main
        PROVE  Proper(thr'[t])
    BY <1>n, <1>p, <2>1, <2>2, ClaimMoves DEF Proper, Home, Moves
  <2>3. ASSUME Share(t)
        PROVE  Proper(thr'[t])
    BY <1>n, <1>p, <2>1, <2>3, ShareMoves DEF Proper, Home, Moves
  <2>4. arena[Main].growable => thr[t].op # "install"
    BY DEF Threaded
  <2>5. Main \in Arenas
    BY DEF Arenas
  <2> QED
    BY <1>3, <1>p, <2>2, <2>3, <2>4, <2>5, AdoptCases
<1>4. CASE IsEmpty(t)
  <2>1. thr[t].pc = "empty"
    BY <1>4 DEF IsEmpty, At
  <2>2. Advances(t, "lock") \/ (thr[t].at # Main /\ Advances(t, "fill"))
    BY <1>4, <1>p, GotoMoves DEF IsEmpty
  <2> QED
    BY <1>p, <2>1, <2>2 DEF Proper, Home, Advances, Moves
<1>5. CASE Fill(t)
  <2>1. thr[t].pc = "fill" /\ Advances(t, "lock")
    BY <1>5, <1>p, GotoMoves DEF Fill, At
  <2> QED
    BY <1>p, <2>1 DEF Proper, Home, Advances, Moves
<1>6. CASE Malloc(t) \/ Free(t) \/ Use(t) \/ Install(t)
  <2>1. Leave(t, Idle(thr[t].self, thr[t].key))
    BY <1>6 DEF Malloc, Free, Use, Install
  <2> QED
    BY <1>p, <2>1, SectionMoves, ComesProper
<1>7. CASE Push(t)
  <2>1. thr[t].pc = "push" /\ thr[t].op = "free" /\ thr[t].saved = "own"
    BY <1>7, <1>p DEF Push, At, Proper
  <2>2. CASE Comes(t, thr[t].self)
    BY <1>p, <2>1, <2>2, ComesProper DEF Home
  <2>3. CASE Moves(t, thr[t].self, thr[t].key, "lock", thr[t].op, block[thr[t].blk].arena,
                   thr[t].saved, thr[t].blk)
    BY <1>p, <2>1, <2>3 DEF Proper, Home, Moves
  <2> QED
    BY <1>7, <1>p, <2>2, <2>3, PushMoves
<1>8. CASE Size(t)
  <2>1. thr[t].op = "size" /\ thr[t].pc = "in"
    BY <1>8 DEF Size, At
  <2>2. none # "size" /\ thr[t].blk # none
    BY <1>p, <2>1 DEF Proper
  <2> QED
    BY <1>8, <1>o, <1>p, <1>n, <2>1, <2>2, SizeMoves DEF Proper, Home, Moves
<1>9. CASE Remalloc(t)
  <2>1. thr[t].op = "remalloc" /\ thr[t].saved = "own" /\ thr[t].pc = "in"
    BY <1>9, <1>p DEF Remalloc, At, Proper
  <2>2. WayBack(t, thr[t].blk) \in {"enter", "push"}
    BY DEF WayBack
  <2>3. CASE Comes(t, Home(thr[t]))
    BY <1>p, <2>3, ComesProper
  <2>4. CASE Moves(t, Home(thr[t]), thr[t].key, WayBack(t, thr[t].blk), "free", none,
                   thr[t].saved, thr[t].blk)
    BY <1>o, <1>p, <2>1, <2>2, <2>4 DEF Proper, Home, Moves
  <2> QED
    BY <1>9, <1>p, <2>3, <2>4, RemallocMoves
<1>10. CASE Walk(t)
  <2>1. thr[t].pc = "walk" /\ thr[t].saved = "own"
    BY <1>10, <1>p DEF Walk, At, Proper
  <2>2. CASE Comes(t, thr[t].self)
    BY <1>p, <2>1, <2>2, ComesProper DEF Home
  <2>3. CASE Advances(t, "walk")
    BY <1>p, <2>1, <2>3 DEF Proper, Home, Advances, Moves
  <2> QED
    BY <1>10, <1>p, <2>2, <2>3, WalkMoves
<1>11. CASE InitLock(t) \/ ResetArena(t)
  <2>1. thr[t].pc \in {"init", "reset"} /\ Advances(t, "reset")
    BY <1>11, <1>p, InitLockMoves, ResetArenaMoves DEF InitLock, ResetArena, At
  <2> QED
    BY <1>p, <2>1 DEF Proper, Home, Advances, Moves
<1>12. CASE ResetEnd(t)
  <2>1. thr[t].pc = "reset"
    BY <1>12 DEF ResetEnd, At
  <2> QED
    BY <1>12, <1>p, <2>1, ResetEndMoves DEF Proper, Home, Moves
<1>13. CASE InitBegin(t) \/ SetModeBegin(t)
  <2>1. thr[t].pc = "idle" /\ (Advances(t, "init") \/ Advances(t, "walk"))
    BY <1>13, <1>p, GotoMoves, SetModeMoves DEF InitBegin, SetModeBegin, At
  <2> QED
    BY <1>p, <2>1 DEF Proper, Home, Advances, Moves
<1>14. CASE MallocBegin(t)
  <2>1. thr[t].pc = "idle"
    BY <1>14 DEF MallocBegin, At
  <2> QED
    BY <1>14, <1>o, <1>p, <2>1, MallocBeginMoves DEF Proper, Home, Moves
<1>15. CASE OnThreadExit(t) \/ End(t) \/ InitGrowable(t)
  <2>1. thr[t].pc = "idle" /\ thr[t].saved = "own" /\ (End(t) => thr[t].key = none)
    BY <1>15, <1>p DEF OnThreadExit, End, InitGrowable, At, Proper
  <2> QED
    BY <1>15, <1>p, <2>1, ExitMoves DEF Proper, Home, Moves
<1>16. ASSUME NEW b \in Blocks, FreeBegin(t, b) \/ UseBegin(t, b) \/ ReallocBegin(t, b)
       PROVE  Proper(thr'[t])
  <2>1. PICK op \in {"free", "use", "size"}, pc \in {"enter", "push", "lock"} :
           /\ Call(t, op, b, pc)
           /\ pc = "enter" => op # "size" /\ thr[t].self = block[b].arena
           /\ pc = "push" => op = "free"
           /\ pc = "lock" => op # "free"
    BY <1>16, CallCases
  <2>2. thr[t].pc = "idle" /\ thr[t].self # "own" /\ thr[t].saved = "own" /\ b # none
    BY <1>p, <1>t, <2>1, MarkersAssumption, ArenasAssumption
    DEF Call, At, Proper, ThreadType, Names
  <2> QED
    BY <1>o, <1>p, <2>1, <2>2, CallMoves DEF Proper, Home, Moves
<1> QED
  BY <1>1, <1>2, <1>3, <1>4, <1>5, <1>6, <1>7, <1>8, <1>9, <1>10, <1>11, <1>12, <1>13, <1>14,
     <1>15, <1>16 DEF Step, Begin

\* How a thread comes to where it is, what it does to the locks on the way, and
\* where the arenas it names come from.
Arrivals(t) ==
  /\ thr'[t].pc = "in" => Acquire(t)
  /\ thr'[t].op = "install" => thr[t].op = "install" \/ ResetEnd(t)
  /\ thr'[t].pc = "empty" => Adopt(t)
  /\ thr'[t].pc = "fill" => IsEmpty(t)
  /\ thr'[t].pc = "walk" => Walk(t) \/ SetModeBegin(t)
  /\ thr'[t].key = thr[t].key \/ Adopt(t) \/ OnThreadExit(t)
  /\ \/ Adopt(t)
     \/ {thr'[t].self, thr'[t].key, thr'[t].at, thr'[t].saved} \subseteq
          {thr[t].self, thr[t].key, thr[t].at, thr[t].saved, Main, none, "own"} \cup
          {block[b].arena : b \in Blocks}

\* The lock is taken, or given back by the thread that is in the section.
Unlocks(t) ==
  \/ Acquire(t)
  \/ UNCHANGED lock
  \/ thr[t].pc = "in" /\ lock' = [lock EXCEPT ![thr[t].at] = none]

LEMMA UnlocksStep == ASSUME NEW t \in Threads, Step(t) \/ Begin(t) PROVE Unlocks(t)
<1>1. CASE Malloc(t) \/ Free(t) \/ Use(t) \/ Size(t) \/ Remalloc(t) \/ Install(t)
  BY <1>1 DEF Malloc, Free, Use, Size, Remalloc, Install, Leave, At, Unlocks
<1>2. CASE \/ Enter(t) \/ Acquire(t) \/ Adopt(t) \/ IsEmpty(t) \/ Fill(t) \/ Push(t) \/ Walk(t)
           \/ InitLock(t) \/ ResetArena(t) \/ ResetEnd(t)
  BY <1>2 DEF Enter, Adopt, IsEmpty, Fill, Push, Walk, InitLock, ResetArena, ResetEnd, Unlocks
<1>3. CASE Begin(t)
  BY <1>3 DEF Begin, MallocBegin, SetModeBegin, InitBegin, InitGrowable, OnThreadExit, End,
     FreeBegin, UseBegin, ReallocBegin, Call, Unlocks
<1> QED
  BY <1>1, <1>2, <1>3 DEF Step

LEMMA ArrivalsStep ==
  ASSUME Inv, Threaded, NEW t \in Threads, Step(t) \/ Begin(t)
  PROVE  Arrivals(t)
<1>p. Types /\ Placed /\ Proper(thr[t])
  BY DEF Inv, Threaded
<1>o. none # "install"
  BY MarkersAssumption
<1>w. \A self \in {thr[t].self, Home(thr[t])} : Comes(t, self) => Arrivals(t)
  BY <1>o DEF Arrivals, Comes, Moves, Home
<1>1. CASE Enter(t)
  <2>1. thr[t].pc = "enter"
    BY <1>1 DEF Enter, At
  <2> QED
    BY <1>1, <1>p, <2>1, EnterMoves DEF Arrivals, Advances, Moves
<1>2. CASE Acquire(t)
  BY <1>2, <1>p, GotoMoves DEF Acquire, Arrivals, Advances, Moves
<1>3. CASE Adopt(t)
  <2>1. thr'[t].pc \in {"empty", "lock"} /\ thr'[t].op = thr[t].op
    BY <1>3, <1>p, AdoptCases, ClaimMoves, ShareMoves DEF Moves, Arenas
  <2> QED
    BY <1>3, <2>1 DEF Arrivals
<1>4. CASE IsEmpty(t)
  <2>1. Advances(t, "lock") \/ Advances(t, "fill")
    BY <1>4, <1>p, GotoMoves DEF IsEmpty
  <2> QED
    BY <1>4, <2>1 DEF Arrivals, Advances, Moves
<1>5. CASE Fill(t)
  BY <1>5, <1>p, GotoMoves DEF Fill, Arrivals, Advances, Moves
<1>6. CASE Malloc(t) \/ Free(t) \/ Use(t) \/ Install(t)
  <2>1. Leave(t, Idle(thr[t].self, thr[t].key))
    BY <1>6 DEF Malloc, Free, Use, Install
  <2> QED
    BY <1>p, <1>w, <2>1, SectionMoves
<1>7. CASE Push(t)
  <2>1. thr[t].blk \in Blocks
    BY <1>7, <1>p DEF Push, At, Placed, InPlace, Types, ThreadType
  <2>2. CASE Moves(t, thr[t].self, thr[t].key, "lock", thr[t].op, block[thr[t].blk].arena,
                   thr[t].saved, thr[t].blk)
    BY <2>1, <2>2 DEF Arrivals, Moves
  <2> QED
    BY <1>7, <1>p, <1>w, <2>2, PushMoves
<1>8. CASE Size(t)
  BY <1>8, <1>p, SizeMoves DEF Arrivals, Home, Moves
<1>9. CASE Remalloc(t)
  <2>1. WayBack(t, thr[t].blk) \in {"enter", "push"}
    BY DEF WayBack
  <2>2. CASE Moves(t, Home(thr[t]), thr[t].key, WayBack(t, thr[t].blk), "free", none,
                   thr[t].saved, thr[t].blk)
    BY <2>1, <2>2 DEF Arrivals, Home, Moves
  <2> QED
    BY <1>9, <1>p, <1>w, <2>2, RemallocMoves
<1>10. CASE Walk(t)
  <2>1. CASE Advances(t, "walk")
    BY <1>10, <2>1 DEF Arrivals, Advances, Moves
  <2> QED
    BY <1>10, <1>p, <1>w, <2>1, WalkMoves
<1>11. CASE InitLock(t) \/ ResetArena(t)
  <2>1. Advances(t, "reset")
    BY <1>11, <1>p, InitLockMoves, ResetArenaMoves
  <2> QED
    BY <2>1 DEF Arrivals, Advances, Moves
<1>12. CASE ResetEnd(t)
  BY <1>12, <1>p, ResetEndMoves DEF Arrivals, Moves
<1>13. CASE InitBegin(t) \/ SetModeBegin(t)
  <2>1. Advances(t, "init") \/ (SetModeBegin(t) /\ Advances(t, "walk"))
    BY <1>13, <1>p, GotoMoves, SetModeMoves DEF InitBegin
  <2> QED
    BY <2>1 DEF Arrivals, Advances, Moves
<1>14. CASE MallocBegin(t)
  BY <1>14, <1>p, MallocBeginMoves DEF Arrivals, Moves
<1>15. CASE OnThreadExit(t) \/ End(t) \/ InitGrowable(t)
  BY <1>15, <1>p, ExitMoves DEF Arrivals, Moves
<1>16. ASSUME NEW b \in Blocks, FreeBegin(t, b) \/ UseBegin(t, b) \/ ReallocBegin(t, b)
       PROVE  Arrivals(t)
  <2>1. PICK op \in {"free", "use", "size"}, pc \in {"enter", "push", "lock"} :
           Call(t, op, b, pc)
    BY <1>16, CallCases
  <2> QED
    BY <1>p, <2>1, CallMoves DEF Arrivals, Moves
<1> QED
  BY <1>1, <1>2, <1>3, <1>4, <1>5, <1>6, <1>7, <1>8, <1>9, <1>10, <1>11, <1>12, <1>13, <1>14,
     <1>15, <1>16 DEF Step, Begin

LEMMA HoldingStep == ASSUME Inv, Threaded, Holding, Next PROVE Holding'
<1> PICK t \in Threads : Step(t) \/ Begin(t)
  BY DEF Next
<1>1. \A u \in Threads : u # t => thr'[u] = thr[u]
  BY OthersStay DEF Inv
<1>2. Arrivals(t) /\ Unlocks(t)
  BY ArrivalsStep, UnlocksStep
<1>3. \A u \in Threads : thr[u].pc \in {"lock", "in"} => thr[u].at \in Arenas
  BY DEF Inv, Placed, InPlace
<1>4. lock \in [Arenas -> Threads \cup {none}] /\ none \notin Threads
  BY ArenasAssumption DEF Inv, Types
<1>5. CASE Acquire(t)
  <2>1. lock' = [lock EXCEPT ![thr[t].at] = t] /\ lock[thr[t].at] = none /\ thr[t].pc = "lock"
    BY <1>5 DEF Acquire, At
  <2>2. thr'[t].at = thr[t].at
    BY <1>5, GotoMoves DEF Acquire, Inv, Advances, Moves
  <2> QED
    BY <1>1, <1>3, <1>4, <2>1, <2>2 DEF Holding
<1>6. CASE ~Acquire(t)
  <2>1. thr'[t].pc # "in"
    BY <1>2, <1>6 DEF Arrivals
  <2> QED
    BY <1>1, <1>2, <1>3, <1>4, <1>6, <2>1 DEF Holding, Unlocks
<1> QED
  BY <1>5, <1>6

-------------------------------------------------------------------------------
(***************************************************************************)
(* What a step does to the arenas and to the list.                         *)
(***************************************************************************)
ArenaMoves(t, c) ==
  /\ c = Main /\ arena'[c].growable => arena[c].growable \/ InitGrowable(t)
  /\ arena'[c].live => arena[c].live \/ c = Main \/ (Fill(t) /\ c = thr[t].at)
  /\ \/ arena'[c].epoch = arena[c].epoch
     \/ Adopt(t) /\ arena'[c].epoch = epoch
     \/ c = Main /\ (ResetEnd(t) \/ InitGrowable(t)) /\ arena'[c].epoch = epoch'
  /\ c = Main /\ arena'[c].claimed => arena[c].claimed \/ arena'[c].epoch = epoch'
  /\ arena'[c].torn => arena[c].torn \/ (Fill(t) /\ c = thr[t].at /\ arena[c].live)
  /\ arena[c].claimed =>
       arena'[c].claimed \/ (OnThreadExit(t) /\ c = thr[t].key) \/ ResetArena(t) \/ InitGrowable(t)

LEMMA UnmovedMoves ==
  ASSUME NEW t, NEW c, Unmoved(c)
  PROVE  ArenaMoves(t, c)
  BY DEF Unmoved, ArenaMoves

LEMMA ArenasMove ==
  ASSUME Inv, Threaded, NEW t \in Threads, Step(t) \/ Begin(t)
  PROVE  \A c \in Arenas : ArenaMoves(t, c)
<1>p. Types /\ Placed /\ Lent /\ Proper(thr[t])
  BY DEF Inv, Threaded
<1>m. Main \in Arenas
  BY DEF Arenas
<1>1. CASE Quiet(t)
  BY <1>1, <1>p, QuietArenas, UnmovedMoves
<1>2. CASE Adopt(t)
  <2>1. UNCHANGED epoch
    BY <1>2 DEF Adopt
  <2>2. ASSUME NEW a \in Arenas, Claim(t, a), NEW c \in Arenas
        PROVE  ArenaMoves(t, c)
    <3>1. CASE c # a
      BY <1>p, <2>2, <3>1, ClaimArenas, UnmovedMoves
    <3>2. CASE c = a
      BY <1>2, <1>p, <2>1, <2>2, <3>2, ClaimArenas DEF ArenaMoves
    <3> QED
      BY <3>1, <3>2
  <2>3. Share(t) => \A c \in Arenas : Unmoved(c)
    BY DEF Share, Unmoved
  <2> QED
    BY <1>2, <1>m, <1>p, <2>2, <2>3, AdoptCases, UnmovedMoves
<1>3. CASE Fill(t)
  <2>1. thr[t].at \in Arenas /\ thr[t].at # Main
    BY <1>3, <1>p DEF Fill, At, Placed, InPlace, Proper
  <2>2. \A c \in Arenas : c # thr[t].at => Unmoved(c)
    BY <1>3, <1>p, <2>1, FillArenas
  <2>3. ArenaMoves(t, thr[t].at)
    BY <1>3, <1>p, <2>1, FillArenas DEF ArenaMoves
  <2> QED
    BY <2>2, <2>3, UnmovedMoves
<1>4. CASE Walk(t)
  <2>1. CASE UNCHANGED arena
    BY <2>1, UnmovedMoves DEF Unmoved
  <2>2. CASE /\ thr[t].i <= Len(listed)
             /\ arena' = [arena EXCEPT ![listed[thr[t].i]].mode = modeDefault]
    <3> DEFINE a == listed[thr[t].i]
    <3>1. a \in Arenas
      BY <1>4, <1>p, <2>2 DEF Walk, At, Types, ThreadType, Placed, InPlace
    <3> HIDE DEF a
    <3>2. arena' = [arena EXCEPT ![a].mode = modeDefault]
      BY <2>2 DEF a
    <3>3. ArenaMoves(t, a)
      BY <1>p, <3>1, <3>2, WalkArenas DEF ArenaMoves
    <3> QED
      BY <1>p, <3>1, <3>2, <3>3, WalkArenas, UnmovedMoves
  <2> QED
    BY <1>4, <1>p, <2>1, <2>2, WalkMoves
<1>5. CASE OnThreadExit(t)
  <2>1. ASSUME NEW c \in Arenas
        PROVE  ArenaMoves(t, c)
    BY <1>5, <1>p, ExitArenas, UnmovedMoves DEF ArenaMoves
  <2> QED
    BY <2>1
<1>6. CASE ResetArena(t)
  <2>1. Emptied({listed[thr[t].i]})
    BY <1>6 DEF ResetArena
  <2>2. ASSUME NEW c \in Arenas
        PROVE  ArenaMoves(t, c)
    BY <1>6, <1>p, <2>1, EmptiedArenas, UnmovedMoves DEF ArenaMoves
  <2> QED
    BY <2>2
<1>7. CASE ResetEnd(t)
  <2>1. UNCHANGED epoch
    BY <1>7 DEF ResetEnd
  <2>2. ASSUME NEW c \in Arenas
        PROVE  ArenaMoves(t, c)
    BY <1>7, <1>p, <2>1, ResetEndArenas, UnmovedMoves DEF ArenaMoves
  <2> QED
    BY <2>2
<1>8. CASE Install(t)
  <2>1. thr[t].at = Main
    BY <1>8, <1>p DEF Install, At, Proper
  <2>2. ASSUME NEW c \in Arenas
        PROVE  ArenaMoves(t, c)
    BY <1>8, <1>p, <2>1, InstallArenas, UnmovedMoves DEF ArenaMoves
  <2> QED
    BY <2>2
<1>9. CASE InitGrowable(t)
  <2>1. epoch' = epoch + 1
    BY <1>9 DEF InitGrowable
  <2>2. ASSUME NEW c \in Arenas
        PROVE  ArenaMoves(t, c)
    BY <1>9, <1>p, <2>1, InitGrowableArenas DEF ArenaMoves
  <2> QED
    BY <2>2
<1> QED
  BY <1>1, <1>2, <1>3, <1>4, <1>5, <1>6, <1>7, <1>8, <1>9 DEF Step, Begin, Quiet

ListMoves(t) ==
  /\ \A i \in DOMAIN listed : i \in DOMAIN listed' /\ listed'[i] = listed[i]
  /\ listed' = listed \/ Adopt(t)
  /\ listlock' = listlock \/ (InitLock(t) /\ listlock' = t) \/ (ResetEnd(t) /\ listlock' = none)
  /\ epoch' = epoch \/ ((InitLock(t) \/ InitGrowable(t)) /\ epoch' = epoch + 1)
  /\ mixed' = mixed \/ ((InitLock(t) \/ InitGrowable(t)) /\ mixed' = Mixing(t))

LEMMA ListMove ==
  ASSUME Inv, NEW t \in Threads, Step(t) \/ Begin(t)
  PROVE  ListMoves(t) /\ Listed \subseteq Listed'
<1>1. ListMoves(t)
  <2>1. CASE Malloc(t) \/ Free(t) \/ Use(t) \/ Size(t) \/ Remalloc(t) \/ Install(t)
    BY <2>1 DEF Malloc, Free, Use, Size, Remalloc, Install, Leave, poolVars, ListMoves
  <2>2. CASE \/ Enter(t) \/ Acquire(t) \/ IsEmpty(t) \/ Fill(t) \/ Push(t) \/ Walk(t)
             \/ InitLock(t) \/ ResetArena(t) \/ ResetEnd(t)
    BY <2>2 DEF Enter, Acquire, IsEmpty, Fill, Push, Walk, InitLock, ResetArena, ResetEnd,
       poolVars, ListMoves
  <2>3. CASE Begin(t)
    BY <2>3 DEF Begin, MallocBegin, SetModeBegin, InitBegin, InitGrowable, OnThreadExit, End,
       FreeBegin, UseBegin, ReallocBegin, Call, poolVars, ListMoves
  <2>4. CASE Adopt(t)
    <3>1. listed' = listed \/ \E a \in Arenas : listed' = Append(listed, a)
      BY <2>4, AdoptCases DEF Inv, Share
    <3>2. listed \in Seq(Arenas)
      BY DEF Inv, Types
    <3>3. \A i \in DOMAIN listed : i \in DOMAIN listed' /\ listed'[i] = listed[i]
      BY <3>1, <3>2
    <3> QED
      BY <2>4, <3>3 DEF Adopt, ListMoves
  <2> QED
    BY <2>1, <2>2, <2>3, <2>4 DEF Step
<1> QED
  BY <1>1 DEF ListMoves, Listed

LEMMA MixingType ==
  ASSUME NEW t, mixed \in {0, 1, 2}
  PROVE  /\ Mixing(t) \in {0, 1, 2} /\ Mixing(t) >= mixed
         /\ Mixing(t) < 2 => \A u \in Threads : u = t \/ thr[u].pc = "idle"
         /\ Mixing(t) = 0 => \A u \in Threads : thr[u].key \notin Extra
  BY DEF Mixing, At

\* A thread at index i of a reset: InitLock starts at one and ResetArena goes on.
LEMMA ResetIndex ==
  ASSUME Inv, NEW t \in Threads, Step(t) \/ Begin(t), listlock # none, listlock' # none
  PROVE  /\ listlock' = listlock
         /\ \/ thr'[listlock].i = thr[listlock].i
            \/ ResetArena(t) /\ t = listlock /\ thr'[t].i = thr[t].i + 1
<1>1. ListMoves(t) /\ thr[listlock].pc = "reset" /\ listlock \in Threads
  BY ListMove DEF Inv, Locks, Types
<1>2. listlock' = listlock
  BY <1>1 DEF ListMoves, InitLock
<1>3. t # listlock => thr'[listlock] = thr[listlock]
  BY <1>1, OthersStay DEF Inv
<1>4. ASSUME t = listlock
      PROVE  ResetArena(t)
  <2>1. thr[t].pc = "reset"
    BY <1>1, <1>4
  <2>2. ~ResetEnd(t)
    BY DEF ResetEnd
  <2> QED
    BY <2>1, <2>2 DEF Step, Begin, At, Enter, Acquire, Adopt, IsEmpty, Fill, Malloc, Free, Push,
       Use, Size, Remalloc, Walk, InitLock, Install, MallocBegin, SetModeBegin, InitBegin,
       InitGrowable, OnThreadExit, End, FreeBegin, UseBegin, ReallocBegin, Call
<1> QED
  BY <1>2, <1>3, <1>4, ResetArenaMoves DEF Inv

LEMMA ThreadedStep == ASSUME Inv, Inv', Threaded, Next PROVE Threaded'
<1> PICK t \in Threads : Step(t) \/ Begin(t)
  BY DEF Next
<1>1. \A u \in Threads : u # t => thr'[u] = thr[u]
  BY OthersStay DEF Inv
<1>2. ListMoves(t) /\ Arrivals(t)
  BY ListMove, ArrivalsStep
<1>3. mixed' \in {0, 1, 2}
  BY <1>2, MixingType DEF Threaded, ListMoves
<1>4. \A u \in Threads : Proper(thr'[u])
  BY <1>1, ProperStep DEF Threaded
<1>5. arena'[Main].growable => arena[Main].growable \/ InitGrowable(t)
  BY ArenasMove DEF ArenaMoves, Arenas
<1>6. ResetEnd(t) => ~arena[Main].growable
  <2> SUFFICES ASSUME ResetEnd(t) PROVE ~arena[Main].growable
    OBVIOUS
  <2>1. thr[t].pc = "reset" /\ thr[t].i > Len(listed)
    BY DEF ResetEnd, At
  <2>2. listlock = t /\ t # none
    BY <2>1, ArenasAssumption DEF Inv, Resets
  <2>3. Len(listed) > 0 /\ thr[t].i \in Nat /\ Len(listed) \in Nat
    BY DEF Inv, Types, ThreadType
  <2> QED
    BY <2>1, <2>2, <2>3 DEF Threaded
<1>7. InitGrowable(t) => \A u \in Threads : thr'[u].op # "install"
  <2> SUFFICES ASSUME InitGrowable(t), NEW u \in Threads PROVE thr'[u].op # "install"
    OBVIOUS
  <2>1. thr[u].pc = "idle" /\ thr[t].pc = "idle"
    BY DEF InitGrowable, At
  <2>2. thr[u].op = none /\ thr[t].op = none
    BY <2>1 DEF Threaded, Proper
  <2>3. thr'[t].op = thr[t].op
    BY ExitMoves DEF Inv, Moves
  <2> QED
    BY <1>1, <2>2, <2>3, MarkersAssumption
<1>8. \A u \in Threads : thr'[u].op = "install" => ~arena'[Main].growable
  BY <1>1, <1>2, <1>5, <1>6, <1>7 DEF Threaded, Arrivals
<1>9. ASSUME listlock' # none, thr'[listlock'].i > 1
      PROVE  ~arena'[Main].growable
  <2>0. ~InitGrowable(t)
    <3>1. listlock' \in Threads /\ thr'[listlock'].pc = "reset"
      BY <1>9 DEF Inv, Locks, Types
    <3>2. InitGrowable(t) => listlock' = listlock /\ \A u \in Threads : thr[u].pc = "idle"
      BY DEF InitGrowable, At
    <3>3. InitGrowable(t) => thr'[t].pc = "idle"
      BY ExitMoves DEF Inv, Moves
    <3> QED
      BY <1>1, <3>1, <3>2, <3>3
  <2>1. CASE listlock = none
    <3>1. InitLock(t) /\ listlock' = t
      BY <1>2, <1>9, <2>1 DEF ListMoves
    <3> QED
      BY <1>9, <3>1, InitLockMoves DEF Inv
  <2>2. CASE listlock # none
    <3>1. \/ thr'[listlock].i = thr[listlock].i /\ listlock' = listlock
          \/ ResetArena(t) /\ t = listlock
      BY <1>9, <2>2, ResetIndex
    <3>2. CASE thr'[listlock].i = thr[listlock].i /\ listlock' = listlock
      BY <1>5, <1>9, <2>0, <2>2, <3>2 DEF Threaded
    <3>3. CASE ResetArena(t) /\ t = listlock
      <4>1. thr[t].i \in Nat /\ thr[t].i > 0
        BY <3>3 DEF ResetArena, At, Inv, Placed, InPlace, Types, ThreadType
      <4>2. CASE thr[t].i = 1
        <5>1. Emptied({Main}) /\ Main \in Arenas
          BY <3>3, <4>2 DEF ResetArena, Inv, ListExact, Arenas
        <5> QED
          BY <5>1, EmptiedArenas DEF Inv
      <4>3. CASE thr[t].i > 1
        BY <1>5, <2>0, <2>2, <3>3, <4>3 DEF Threaded
      <4> QED
        BY <4>1, <4>2, <4>3
    <3> QED
      BY <3>1, <3>2, <3>3
  <2> QED
    BY <2>1, <2>2
<1> QED
  BY <1>3, <1>4, <1>8, <1>9 DEF Threaded

LEMMA NamedStep == ASSUME Inv, Inv', Threaded, Named, Next PROVE Named'
<1> PICK t \in Threads : Step(t) \/ Begin(t)
  BY DEF Next
<1>1. \A u \in Threads : u # t => thr'[u] = thr[u]
  BY OthersStay DEF Inv
<1>2. Listed \subseteq Listed' /\ Arrivals(t) /\ Main \in Listed
  <2>1. 1 \in DOMAIN listed /\ listed[1] = Main
    BY DEF Inv, Types, ListExact
  <2> QED
    BY <2>1, ListMove, ArrivalsStep DEF Listed
<1>3. {thr'[t].self, thr'[t].key, thr'[t].at, thr'[t].saved} \subseteq Listed' \cup {none, "own"}
  <2>1. CASE Adopt(t)
    <3>1. thr[t].key \in Listed' \cup {none, "own"} /\ thr[t].saved \in Listed' \cup {none, "own"}
      BY <1>2 DEF Named
    <3>2. ASSUME NEW a \in Listed', Claim(t, a)
          PROVE  {thr'[t].self, thr'[t].key, thr'[t].at, thr'[t].saved} \subseteq
                   Listed' \cup {none, "own"}
      BY <3>1, <3>2, ClaimMoves DEF Inv, Moves
    <3>3. ASSUME Share(t)
          PROVE  {thr'[t].self, thr'[t].key, thr'[t].at, thr'[t].saved} \subseteq
                   Listed' \cup {none, "own"}
      BY <1>2, <3>1, <3>3, ShareMoves DEF Inv, Moves
    <3>4. orphans # <<>> => Head(orphans) \in Listed
      <4> SUFFICES ASSUME orphans # <<>> PROVE Head(orphans) \in Listed
        OBVIOUS
      <4>1. 1 \in DOMAIN orphans /\ Head(orphans) = orphans[1]
        BY DEF Inv, Types
      <4> QED
        BY <4>1 DEF Inv, ListExact, Listed
    <3>5. \A a \in Arenas : listed' = Append(listed, a) => a \in Listed'
      BY DEF Inv, Types, Listed
    <3> QED
      BY <1>2, <2>1, <3>2, <3>3, <3>4, <3>5, AdoptCases DEF Inv
  <2>2. CASE ~Adopt(t)
    <3>1. {thr[t].self, thr[t].key, thr[t].at, thr[t].saved, Main, none, "own"} \cup
            {block[b].arena : b \in Blocks} \subseteq Listed \cup {none, "own"}
      BY <1>2 DEF Named
    <3> QED
      BY <1>2, <2>2, <3>1 DEF Arrivals
  <2> QED
    BY <2>1, <2>2
<1>4. \A u \in Threads :
        {thr'[u].self, thr'[u].key, thr'[u].at, thr'[u].saved} \subseteq Listed' \cup {none, "own"}
  BY <1>1, <1>2, <1>3 DEF Named
<1>5. \A u \in Threads : thr[u].pc \in {"in", "fill"} => thr[u].at \in Listed
  <2>1. \A u \in Threads : thr[u].pc \in {"in", "fill"} => thr[u].at \in Arenas
    BY DEF Inv, Placed, InPlace
  <2> QED
    BY <2>1, ArenasAssumption, MarkersAssumption DEF Named
<1>6. \A b \in Blocks : block'[b].arena \in Listed' \cup {none}
  <2> SUFFICES ASSUME NEW b \in Blocks PROVE block'[b].arena \in Listed' \cup {none}
    OBVIOUS
  <2>1. GivenUp(b) \/ Stays(b) \/ Taken(t, b)
    BY BlockMoves
  <2>2. Taken(t, b) => thr[t].pc = "in"
    BY DEF Taken, Malloc, Remalloc, At
  <2> QED
    BY <1>2, <1>5, <2>1, <2>2 DEF GivenUp, Stays, Taken, Named
<1>7. \A a \in Arenas : arena'[a].live => a \in Listed'
  <2>1. Fill(t) => thr[t].pc = "fill"
    BY DEF Fill, At
  <2> QED
    BY <1>2, <1>5, <2>1, ArenasMove DEF ArenaMoves, Named
<1> QED
  BY <1>4, <1>6, <1>7 DEF Named

-------------------------------------------------------------------------------
(***************************************************************************)
(* Epochs, and the blocks' arenas.                                         *)
(***************************************************************************)

\* While a reset is under way nobody adopts, installs or starts another.
LEMMA Undisturbed ==
  ASSUME Inv, NEW t \in Threads, Step(t) \/ Begin(t), listlock # none
  PROVE  ~Adopt(t) /\ ~InitLock(t) /\ ~InitGrowable(t)
<1>1. listlock \in Threads /\ thr[listlock].pc = "reset"
  BY DEF Inv, Locks, Types
<1> QED
  BY <1>1 DEF Adopt, InitLock, InitGrowable, At

\* The thread that ends a reset is the one that holds the list lock.
LEMMA ResetHolds ==
  ASSUME Inv, NEW t \in Threads, ResetArena(t) \/ ResetEnd(t)
  PROVE  listlock = t /\ listlock # none
  BY ArenasAssumption DEF Inv, Resets, ResetArena, ResetEnd, At

LEMMA EpochsStep == ASSUME Inv, Threaded, Epochs, Next PROVE Epochs'
<1> PICK t \in Threads : Step(t) \/ Begin(t)
  BY DEF Next
<1>1. ListMoves(t) /\ \A c \in Arenas : ArenaMoves(t, c)
  BY ListMove, ArenasMove
<1>2. epoch \in Nat /\ (\A c \in Arenas : arena[c].epoch \in Nat) /\ Main \in Arenas
  BY DEF Inv, Types, ArenaType, Arenas
<1>3. epoch' \in Nat /\ epoch' >= epoch
  BY <1>1, <1>2 DEF ListMoves
<1>4. \A c \in Arenas : arena'[c].epoch <= epoch'
  BY <1>1, <1>2, <1>3 DEF ArenaMoves, Epochs
<1>5. ASSUME listlock' # none, NEW c \in Arenas
      PROVE  arena'[c].epoch < epoch'
  <2>1. CASE listlock = none
    <3>1. InitLock(t)
      BY <1>1, <1>5, <2>1 DEF ListMoves
    <3>2. epoch' = epoch + 1 /\ arena' = arena
      BY <3>1 DEF InitLock, heapVars
    <3> QED
      BY <1>2, <3>2 DEF Epochs
  <2>2. CASE listlock # none
    <3>1. ~Adopt(t) /\ ~InitLock(t) /\ ~InitGrowable(t) /\ ~ResetEnd(t)
      BY <1>5, <2>2, Undisturbed DEF ResetEnd
    <3> QED
      BY <1>1, <2>2, <3>1 DEF ListMoves, ArenaMoves, Epochs
  <2> QED
    BY <2>1, <2>2
<1>6. ASSUME listlock' = none, arena'[Main].claimed
      PROVE  arena'[Main].epoch = epoch'
  <2>1. CASE listlock = none
    <3>1. ~InitLock(t)
      BY <1>6, ArenasAssumption DEF InitLock
    <3>2. CASE InitGrowable(t)
      BY <1>2, <3>2, InitGrowableArenas DEF Inv, InitGrowable
    <3>3. CASE ~InitGrowable(t)
      BY <1>1, <1>2, <1>6, <2>1, <3>1, <3>3 DEF ListMoves, ArenaMoves, Epochs
    <3> QED
      BY <3>2, <3>3
  <2>2. CASE listlock # none
    <3>1. ResetEnd(t)
      BY <1>1, <1>6, <2>2, ArenasAssumption DEF ListMoves
    <3> QED
      BY <1>2, <3>1, ResetEndArenas DEF Inv, ResetEnd
  <2> QED
    BY <2>1, <2>2
<1> QED
  BY <1>4, <1>5, <1>6 DEF Epochs

\* A block that is in a call's hands keeps its arena.
LEMMA LentStays ==
  ASSUME Inv, Inv', NEW t \in Threads, Step(t) \/ Begin(t), NEW b \in Blocks,
         block'[b].st = "lent"
  PROVE  block'[b].arena = block[b].arena /\ block[b].st # "free"
  BY BlockMoves DEF GivenUp, Stays, Taken

LEMMA OthersCurrent ==
  ASSUME Inv, Inv', Threaded, Homed, NEW t \in Threads, Step(t) \/ Begin(t), mixed < 2, mixed' < 2,
         NEW u \in Threads, u # t
  PROVE  Current(u)'
<1>1. thr'[u] = thr[u]
  BY OthersStay DEF Inv
<1>2. ListMoves(t) /\ \A c \in Arenas : ArenaMoves(t, c)
  BY ListMove, ArenasMove
<1>3. Current(u)
  BY DEF Homed
<1>4. Proper(thr[u])
  BY DEF Threaded
<1>5. ASSUME thr[u].pc \in {"lock", "in", "empty", "fill"}
      PROVE  arena'[thr[u].at].epoch = epoch'
  <2>1. ~InitLock(t) /\ ~InitGrowable(t)
    <3>1. mixed \in {0, 1, 2}
      BY DEF Threaded
    <3>2. InitLock(t) => Mixing(t) < 2
      BY DEF InitLock
    <3>3. InitGrowable(t) => thr[u].pc = "idle"
      BY DEF InitGrowable, At
    <3> QED
      BY <1>5, <3>1, <3>2, <3>3, MixingType
  <2>2. epoch' = epoch /\ thr[u].at \in Arenas
    BY <1>2, <1>5, <2>1 DEF ListMoves, Inv, Placed, InPlace
  <2> QED
    BY <1>2, <1>3, <1>5, <2>1, <2>2 DEF ArenaMoves, Current
<1>6. ASSUME thr[u].op \in {"free", "use", "size"}
      PROVE  block'[thr[u].blk].arena = block[thr[u].blk].arena
  <2>1. thr[u].blk # none /\ thr[u].blk \in Blocks
    BY <1>4, <1>6, MarkersAssumption DEF Proper, Inv, Types, ThreadType
  <2>2. block'[thr[u].blk].st = "lent"
    BY <1>1, <2>1 DEF Inv, Lent
  <2> QED
    BY <2>1, <2>2, LentStays
<1> QED
  BY <1>1, <1>3, <1>5, <1>6 DEF Current

LEMMA OwnCurrent ==
  ASSUME Inv, Inv', Threaded, Epochs, Homed, NEW t \in Threads, Step(t) \/ Begin(t), mixed < 2
  PROVE  Current(t)'
<1>p. Types /\ Placed /\ Lent /\ Proper(thr[t]) /\ Current(t)
  BY DEF Inv, Threaded, Homed
<1>t. thr[t] \in ThreadType
  BY <1>p DEF Types
<1>o. none \notin {"malloc", "free", "use", "size", "remalloc", "install"}
  BY MarkersAssumption
<1>l. ASSUME NEW b \in Blocks, block[b].st = "lent" \/ block[b].st = "held",
             \A u \in Threads : thr[u].pc # "reset"
      PROVE  block[b].arena \in Arenas /\ arena[block[b].arena].epoch = epoch
  <2>1. listlock = none
    BY <1>l DEF Inv, Locks, Types
  <2> QED
    BY <1>l, <2>1 DEF Homed, Inv, Lent
<1>b. ASSUME thr[t].op \in {"free", "use", "size"}
      PROVE  /\ thr[t].blk \in Blocks /\ thr[t].blk # none
             /\ block[thr[t].blk].arena \in Arenas
             /\ arena[block[thr[t].blk].arena].epoch = epoch
  <2>1. thr[t].blk \in Blocks /\ thr[t].blk # none
    BY <1>b, <1>o, <1>p, <1>t DEF Proper, ThreadType
  <2>2. block[thr[t].blk].st = "lent" /\ \A u \in Threads : thr[u].pc # "reset"
    BY <2>1 DEF Inv, Lent
  <2> QED
    BY <1>l, <2>1, <2>2
<1>k. thr'[t].blk \in Blocks /\ thr'[t].blk # none =>
        block'[thr'[t].blk].arena = block[thr'[t].blk].arena
  <2>1. thr'[t].blk \in Blocks /\ thr'[t].blk # none => block'[thr'[t].blk].st = "lent"
    BY DEF Inv, Lent
  <2> QED
    BY <2>1, LentStays
<1>w. ASSUME thr'[t].pc \notin {"lock", "in", "empty", "fill"},
             thr'[t].op \notin {"free", "use", "size"}
      PROVE  Current(t)'
  BY <1>w DEF Current
<1>c. ASSUME NEW self, Comes(t, self)
      PROVE  Current(t)'
  BY <1>c, <1>o, <1>w DEF Comes, Moves
<1>1. CASE Enter(t)
  <2>1. thr[t].pc = "enter" /\ UNCHANGED <<arena, block, epoch>>
    BY <1>1 DEF Enter, At, heapVars, poolVars
  <2>2. CASE /\ thr[t].self = none \/ arena[thr[t].self].epoch # epoch
             /\ Advances(t, "adopt")
    <3>1. thr[t].op \notin {"free", "use", "size"}
      BY <1>b, <1>p, <2>1, <2>2, ArenasAssumption DEF Current
    <3> QED
      BY <1>w, <2>2, <3>1 DEF Advances, Moves
  <2>3. CASE /\ thr[t].self # none /\ arena[thr[t].self].epoch = epoch
             /\ Moves(t, thr[t].self, thr[t].key, "lock", thr[t].op, thr[t].self,
                      thr[t].saved, thr[t].blk)
    BY <1>p, <2>1, <2>3 DEF Current, Moves
  <2> QED
    BY <1>1, <1>p, <2>2, <2>3, EnterMoves
<1>2. CASE Acquire(t)
  <2>1. thr[t].pc = "lock" /\ UNCHANGED <<arena, block, epoch>> /\ Advances(t, "in")
    BY <1>2, <1>p, GotoMoves DEF Acquire, At, heapVars, poolVars
  <2> QED
    BY <1>p, <2>1 DEF Current, Advances, Moves
<1>3. CASE Adopt(t)
  <2>1. /\ thr[t].pc = "adopt" /\ thr[t].op \notin {"free", "use", "size"}
        /\ listlock = none /\ UNCHANGED epoch
    BY <1>3, <1>p, AdoptCases DEF Current
  <2>2. ASSUME NEW a \in Arenas, Claim(t, a)
        PROVE  Current(t)'
    BY <1>p, <2>1, <2>2, ClaimMoves, ClaimArenas DEF Current, Moves
  <2>3. ASSUME Share(t), arena[Main].claimed
        PROVE  Current(t)'
    <3>1. arena'[Main].epoch = epoch'
      BY <2>1, <2>3 DEF Share, Epochs
    <3> QED
      BY <1>p, <2>1, <2>3, <3>1, ShareMoves DEF Current, Moves
  <2>4. Main \in Arenas
    BY DEF Arenas
  <2> QED
    BY <1>3, <1>p, <2>2, <2>3, <2>4, AdoptCases
<1>4. CASE IsEmpty(t) \/ Fill(t)
  <2>1. /\ thr[t].pc \in {"empty", "fill"} /\ UNCHANGED epoch
        /\ Advances(t, "lock") \/ Advances(t, "fill")
    BY <1>4, <1>p, GotoMoves DEF IsEmpty, Fill, At, poolVars
  <2>2. thr[t].op \notin {"free", "use", "size"} /\ thr[t].at \in Arenas
    BY <1>p, <2>1 DEF Current, Placed, InPlace
  <2>3. arena'[thr[t].at].epoch = arena[thr[t].at].epoch
    BY <1>4, <1>p, <2>2, FillArenas DEF IsEmpty, heapVars
  <2> QED
    BY <1>p, <2>1, <2>2, <2>3 DEF Current, Advances, Moves
<1>5. CASE Malloc(t) \/ Free(t) \/ Use(t) \/ Install(t)
  <2>1. Leave(t, Idle(thr[t].self, thr[t].key))
    BY <1>5 DEF Malloc, Free, Use, Install
  <2> QED
    BY <1>c, <1>p, <2>1, SectionMoves
<1>6. CASE Push(t)
  <2>1. thr[t].op = "free" /\ UNCHANGED epoch
    BY <1>6, <1>p DEF Push, At, Proper, poolVars
  <2>2. CASE Moves(t, thr[t].self, thr[t].key, "lock", thr[t].op, block[thr[t].blk].arena,
                   thr[t].saved, thr[t].blk) /\ UNCHANGED <<arena, block>>
    BY <1>b, <2>1, <2>2 DEF Current, Moves
  <2> QED
    BY <1>6, <1>c, <1>p, <2>2, PushMoves
<1>7. CASE Size(t)
  BY <1>7, <1>p, <1>w, SizeMoves DEF Moves
<1>8. CASE Remalloc(t)
  <2>1. thr[t].op = "remalloc" /\ thr[t].saved = "own" /\ thr[t].blk # none /\ thr[t].blk \in Blocks
    BY <1>8, <1>o, <1>p, <1>t DEF Remalloc, Proper, ThreadType
  <2>2. CASE Moves(t, Home(thr[t]), thr[t].key, WayBack(t, thr[t].blk), "free", none,
                   thr[t].saved, thr[t].blk)
    BY <1>k, <2>1, <2>2 DEF Current, Home, Moves, WayBack
  <2> QED
    BY <1>8, <1>c, <1>p, <2>2, RemallocMoves
<1>9. CASE Walk(t)
  <2>1. Advances(t, "walk") => Current(t)'
    BY <1>9, <1>o, <1>p, <1>w DEF Walk, At, Proper, Advances, Moves
  <2> QED
    BY <1>9, <1>c, <1>p, <2>1, WalkMoves
<1>10. CASE InitLock(t) \/ ResetArena(t) \/ InitBegin(t) \/ SetModeBegin(t)
  <2>1. /\ thr[t].pc \in {"idle", "init", "reset"}
        /\ Advances(t, "reset") \/ Advances(t, "init") \/ Advances(t, "walk")
    BY <1>10, <1>p, InitLockMoves, ResetArenaMoves, SetModeMoves, GotoMoves
    DEF InitLock, ResetArena, InitBegin, SetModeBegin, At
  <2> QED
    BY <1>o, <1>p, <1>w, <2>1 DEF Proper, Advances, Moves
<1>11. CASE ResetEnd(t) \/ MallocBegin(t)
  BY <1>11, <1>p, <1>w, ResetEndMoves, MallocBeginMoves DEF Moves
<1>12. CASE OnThreadExit(t) \/ End(t) \/ InitGrowable(t)
  <2>1. thr[t].op = none
    BY <1>12, <1>p DEF OnThreadExit, End, InitGrowable, At, Proper
  <2> QED
    BY <1>12, <1>o, <1>p, <1>w, <2>1, ExitMoves DEF Moves
<1>13. ASSUME NEW b \in Blocks, FreeBegin(t, b) \/ UseBegin(t, b) \/ ReallocBegin(t, b)
       PROVE  Current(t)'
  <2>1. PICK op \in {"free", "use", "size"}, pc \in {"enter", "push", "lock"} :
           /\ Call(t, op, b, pc)
           /\ pc = "enter" => op # "size" /\ thr[t].self = block[b].arena
    BY <1>13, CallCases
  <2>2. /\ block[b].st = "held" /\ UNCHANGED <<arena, epoch>>
        /\ \A u \in Threads : thr[u].pc # "reset"
    BY <2>1 DEF Call, Resetting, poolVars
  <2>3. block[b].arena \in Arenas /\ arena[block[b].arena].epoch = epoch
    BY <1>l, <2>2
  <2>4. thr'[t].blk = b /\ b # none
    BY <1>p, <2>1, CallMoves, ArenasAssumption DEF Moves
  <2> QED
    BY <1>k, <1>p, <2>1, <2>2, <2>3, <2>4, CallMoves DEF Current, Moves
<1> QED
  BY <1>1, <1>2, <1>3, <1>4, <1>5, <1>6, <1>7, <1>8, <1>9, <1>10, <1>11, <1>12, <1>13
  DEF Step, Begin

LEMMA HomedStep == ASSUME Inv, Inv', Threaded, Named, Epochs, Homed, Next PROVE Homed'
<1> SUFFICES ASSUME mixed' < 2
             PROVE  /\ \A u \in Threads : Current(u)'
                    /\ \A b \in Blocks : block'[b].st # "free" =>
                         IF listlock' = none THEN arena'[block'[b].arena].epoch = epoch'
                         ELSE \E j \in DOMAIN listed' :
                                j >= thr'[listlock'].i /\ listed'[j] = block'[b].arena
  BY DEF Homed
<1> PICK t \in Threads : Step(t) \/ Begin(t)
  BY DEF Next
<1>1. ListMoves(t) /\ \A c \in Arenas : ArenaMoves(t, c)
  BY ListMove, ArenasMove
<1>2. mixed < 2
  <2>1. mixed \in {0, 1, 2} /\ Mixing(t) \in {0, 1, 2} /\ Mixing(t) >= mixed
    BY MixingType DEF Threaded
  <2> QED
    BY <1>1, <2>1 DEF ListMoves
<1>3. \A u \in Threads : Current(u)'
  BY <1>2, OthersCurrent, OwnCurrent
<1> SUFFICES ASSUME NEW b \in Blocks, block'[b].st # "free"
             PROVE  IF listlock' = none THEN arena'[block'[b].arena].epoch = epoch'
                    ELSE \E j \in DOMAIN listed' :
                           j >= thr'[listlock'].i /\ listed'[j] = block'[b].arena
  BY <1>3
<1>4. Stays(b) \/ Taken(t, b)
  BY BlockMoves DEF GivenUp
<1>e. epoch \in Nat /\ \A c \in Arenas : arena[c].epoch \in Nat
  BY DEF Inv, Types, ArenaType
<1>5. CASE Taken(t, b)
  <2>1. /\ thr[t].pc = "in" /\ UNCHANGED <<listlock, epoch>> /\ block'[b].arena = thr[t].at
        /\ Quiet(t)
    BY <1>5 DEF Taken, Malloc, Remalloc, At, Leave, poolVars, Quiet
  <2>2. thr[t].at \in Arenas /\ arena[thr[t].at].epoch = epoch
    BY <1>2, <2>1 DEF Inv, Placed, InPlace, Homed, Current
  <2>3. listlock = none
    BY <1>e, <2>2 DEF Epochs
  <2>4. arena'[thr[t].at].epoch = arena[thr[t].at].epoch
    BY <2>1, <2>2, QuietArenas DEF Inv, Unmoved
  <2> QED
    BY <2>1, <2>2, <2>3, <2>4
<1>6. CASE Stays(b)
  <2> DEFINE a == block[b].arena
  <2>1. block[b].st # "free" /\ block'[b].arena = a /\ a \in Arenas
    BY <1>6 DEF Stays, Inv, Lent
  <2>2. IF listlock = none THEN arena[a].epoch = epoch
        ELSE \E j \in DOMAIN listed : j >= thr[listlock].i /\ listed[j] = a
    BY <1>2, <2>1 DEF Homed
  <2>3. a \in Listed
    BY <2>1, ArenasAssumption DEF Named
  <2>l. \A j \in DOMAIN listed : j \in DOMAIN listed' /\ listed'[j] = listed[j]
    BY <1>1 DEF ListMoves
  <2> HIDE DEF a
  <2>4. CASE listlock = none /\ listlock' = none
    <3>1. ~InitLock(t) /\ ~ResetEnd(t)
      BY <2>4, ResetHolds, ArenasAssumption DEF InitLock
    <3>2. ~InitGrowable(t)
      <4>1. InitGrowable(t) => block' = [c \in Blocks |-> [st |-> "free", arena |-> none]]
        BY DEF InitGrowable
      <4> QED
        BY <4>1
    <3> QED
      BY <1>1, <2>1, <2>2, <2>4, <3>1, <3>2 DEF ListMoves, ArenaMoves
  <2>5. CASE listlock = none /\ listlock' # none
    <3>1. InitLock(t) /\ listlock' = t
      BY <1>1, <2>5 DEF ListMoves
    <3>2. thr'[t].i = 1
      BY <3>1, InitLockMoves DEF Inv
    <3>3. PICK j \in DOMAIN listed : listed[j] = a
      BY <2>3 DEF Listed
    <3>4. j >= 1
      BY DEF Inv, Types
    <3> QED
      BY <2>1, <2>5, <2>l, <3>1, <3>2, <3>3, <3>4
  <2>6. CASE listlock # none /\ listlock' # none
    <3>1. PICK j \in DOMAIN listed : j >= thr[listlock].i /\ listed[j] = a
      BY <2>2, <2>6
    <3>2. listlock' = listlock
      BY <2>6, ResetIndex
    <3>3. CASE thr'[listlock].i = thr[listlock].i
      BY <2>1, <2>6, <2>l, <3>1, <3>2, <3>3
    <3>4. CASE ResetArena(t) /\ t = listlock /\ thr'[t].i = thr[t].i + 1
      <4>1. Emptied({listed[thr[t].i]})
        BY <3>4 DEF ResetArena
      <4>2. a # listed[thr[t].i]
        BY <4>1 DEF Emptied, a
      <4>3. j # thr[t].i /\ j \in Nat /\ thr[t].i \in Nat
        BY <3>1, <4>2 DEF Inv, Types, ThreadType
      <4>4. j >= thr[t].i + 1
        BY <3>1, <3>4, <4>3
      <4> QED
        BY <2>1, <2>6, <2>l, <3>1, <3>2, <3>4, <4>4
    <3> QED
      BY <2>6, <3>3, <3>4, ResetIndex
  <2>7. CASE listlock # none /\ listlock' = none
    <3>1. ResetEnd(t)
      BY <1>1, <2>7, ArenasAssumption DEF ListMoves
    <3>2. listlock = t /\ thr[t].i > Len(listed)
      BY <3>1, ResetHolds DEF ResetEnd
    <3>3. PICK j \in DOMAIN listed : j >= thr[listlock].i
      BY <2>2, <2>7
    <3>4. j <= Len(listed) /\ j \in Nat /\ Len(listed) \in Nat /\ thr[t].i \in Nat
      BY DEF Inv, Types, ThreadType
    <3> QED
      BY <3>2, <3>3, <3>4
  <2> QED
    BY <2>4, <2>5, <2>6, <2>7
<1> QED
  BY <1>4, <1>5, <1>6

-------------------------------------------------------------------------------
(***************************************************************************)
(* The arenas the threads keep, and their modes.                           *)
(***************************************************************************)

\* An arena that is claimed on adoption was nobody's.
LEMMA FreshClaim ==
  ASSUME Inv, NEW t \in Threads, Adopt(t), NEW a \in Extra, Claim(t, a)
  PROVE  ~arena[a].claimed
<1>1. \/ orphans # <<>> /\ a = Head(orphans)
      \/ a \notin Listed
  <2>1. a \in Arenas /\ a # Main
    BY ArenasAssumption DEF Arenas
  <2>2. \A c : Claim(t, c) => c = a
    <3>1. \A c : Claim(t, c) => thr'[t].self = c
      BY ClaimMoves DEF Inv, Moves
    <3> QED
      BY <3>1
  <2>3. ~Share(t)
    <3>1. Share(t) => thr'[t].self = Main
      BY ShareMoves DEF Inv, Moves
    <3>2. thr'[t].self = a
      BY ClaimMoves DEF Inv, Moves
    <3> QED
      BY <2>1, <3>1, <3>2
  <2> QED
    BY <2>1, <2>2, <2>3, AdoptCases DEF Inv
<1>2. CASE a \notin Listed
  BY <1>2 DEF Inv, ListExact, Listed, Arenas
<1>3. CASE orphans # <<>> /\ a = Head(orphans)
  <2>1. 1 \in DOMAIN orphans /\ orphans[1] = a
    BY <1>3 DEF Inv, Types
  <2>2. PICK i \in DOMAIN listed : listed[i] = a
    BY <2>1 DEF Inv, ListExact
  <2>3. i # 1 /\ i \in 1 .. Len(listed) /\ Len(listed) \in Nat
    BY <2>2, ArenasAssumption DEF Inv, ListExact, Types
  <2>4. i \in 2 .. Len(listed)
    BY <2>3
  <2>5. listlock = none
    BY DEF Adopt
  <2> QED
    BY <2>1, <2>2, <2>4, <2>5 DEF Inv, PoolExact
<1> QED
  BY <1>1, <1>2, <1>3

LEMMA KeptStep == ASSUME Inv, Inv', Threaded, Kept, Next PROVE Kept'
<1> SUFFICES ASSUME mixed' = 0
             PROVE  /\ \A u, v \in Threads : thr'[u].key \in Extra /\ thr'[v].key = thr'[u].key => u = v
                    /\ \A u \in Threads : thr'[u].key \in Extra =>
                         arena'[thr'[u].key].claimed /\ listlock' = none
                    /\ \A u \in Threads : thr'[u].pc = "fill" => ~arena'[thr'[u].at].live
                    /\ \A a \in Arenas : ~arena'[a].torn
  BY DEF Kept
<1> PICK t \in Threads : Step(t) \/ Begin(t)
  BY DEF Next
<1>1. ListMoves(t) /\ (\A c \in Arenas : ArenaMoves(t, c)) /\ Arrivals(t)
  BY ListMove, ArenasMove, ArrivalsStep
<1>2. \A u \in Threads : u # t => thr'[u] = thr[u]
  BY OthersStay DEF Inv
<1>3. mixed = 0
  <2>1. mixed \in {0, 1, 2} /\ Mixing(t) \in {0, 1, 2} /\ Mixing(t) >= mixed
    BY MixingType DEF Threaded
  <2> QED
    BY <1>1, <2>1 DEF ListMoves
<1>k. /\ \A u, v \in Threads : thr[u].key \in Extra /\ thr[v].key = thr[u].key => u = v
      /\ \A u \in Threads : thr[u].key \in Extra => arena[thr[u].key].claimed /\ listlock = none
      /\ \A u \in Threads : thr[u].pc = "fill" => ~arena[thr[u].at].live
      /\ \A a \in Arenas : ~arena[a].torn
  BY <1>3 DEF Kept
<1>f. Fill(t) => thr[t].pc = "fill"
  BY DEF Fill, At
<1>g. \A u \in Threads : thr[u].pc = "fill" => /\ thr[u].key = thr[u].at
                                             /\ thr[u].at \in Extra
  BY DEF Threaded, Proper, Inv, Placed, InPlace, Arenas
<1>e. Extra \subseteq Arenas /\ none \notin Extra
  BY ArenasAssumption DEF Arenas
<1>4. \A a \in Arenas : ~arena'[a].torn
  BY <1>1, <1>f, <1>k DEF ArenaMoves
<1>5. ASSUME NEW u \in Threads, thr'[u].pc = "fill"
      PROVE  ~arena'[thr'[u].at].live
  <2>1. CASE u = t
    <3>1. IsEmpty(t)
      BY <1>1, <1>5, <2>1 DEF Arrivals
    <3>2. /\ UNCHANGED arena
          /\ Goto(t, IF thr[t].at # Main /\ ~arena[thr[t].at].live THEN "fill" ELSE "lock")
      BY <3>1 DEF IsEmpty, heapVars
    <3>3. ~arena[thr[t].at].live /\ Goto(t, "fill")
      BY <1>5, <2>1, <3>2, GotoMoves DEF Inv, Advances, Moves
    <3>4. thr'[t].at = thr[t].at
      BY <3>3, GotoMoves DEF Inv, Advances, Moves
    <3> QED
      BY <2>1, <3>2, <3>3, <3>4
  <2>2. CASE u # t
    <3>1. thr'[u] = thr[u] /\ thr[u].pc = "fill" /\ thr[u].key = thr[u].at /\ thr[u].at \in Extra
      BY <1>2, <1>5, <1>g, <2>2
    <3>2. Fill(t) => thr[t].at # thr[u].at
      BY <1>f, <1>g, <1>k, <2>2, <3>1
    <3>3. thr[u].at \in Arenas /\ thr[u].at # Main
      BY <3>1, <1>e, ArenasAssumption
    <3> QED
      BY <1>1, <1>k, <3>1, <3>2, <3>3 DEF ArenaMoves
  <2> QED
    BY <2>1, <2>2
<1>6. ASSUME NEW u \in Threads, NEW a \in Extra, thr[u].key = a, thr'[u].key = a
      PROVE  arena'[a].claimed /\ listlock' = none
  <2>1. arena[a].claimed /\ listlock = none
    BY <1>6, <1>k
  <2>2. ~InitLock(t) /\ ~InitGrowable(t)
    <3>1. InitLock(t) \/ InitGrowable(t) => Mixing(t) = 0
      BY DEF InitLock, InitGrowable
    <3>2. mixed \in {0, 1, 2}
      BY <1>3
    <3> QED
      BY <1>6, <3>1, <3>2, MixingType
  <2>3. ~ResetArena(t)
    BY <2>1, ResetHolds
  <2>4. ~(OnThreadExit(t) /\ a = thr[t].key)
    <3>1. OnThreadExit(t) => thr'[t].key = none
      BY ExitMoves DEF Inv, Moves
    <3> QED
      BY <1>6, <1>e, <1>k, <3>1
  <2> QED
    BY <1>1, <1>e, <2>1, <2>2, <2>3, <2>4 DEF ListMoves, ArenaMoves
<1>7. CASE thr'[t].key = thr[t].key \/ thr'[t].key \notin Extra
  <2>1. \A u \in Threads : thr'[u].key \in Extra => thr'[u].key = thr[u].key
    BY <1>2, <1>7
  <2> QED
    BY <1>4, <1>5, <1>6, <1>k, <2>1
<1>8. CASE thr'[t].key # thr[t].key /\ thr'[t].key \in Extra
  <2> DEFINE a == thr'[t].key
  <2>1. Adopt(t)
    <3>1. OnThreadExit(t) => thr'[t].key = none
      BY ExitMoves DEF Inv, Moves
    <3> QED
      BY <1>1, <1>8, <1>e, <3>1 DEF Arrivals
  <2>2. Claim(t, a)
    <3>1. ~Share(t)
      BY <1>8, ShareMoves DEF Inv, Moves
    <3>2. PICK c : Claim(t, c)
      BY <2>1, <3>1, AdoptCases DEF Inv
    <3>3. thr'[t].key = c
      BY <3>2, ClaimMoves DEF Inv, Moves
    <3> QED
      BY <3>2, <3>3
  <2>3. a \in Extra /\ a \in Arenas
    BY <1>8, <1>e
  <2> HIDE DEF a
  <2>4. ~arena[a].claimed /\ arena'[a].claimed /\ listlock' = none
    BY <2>1, <2>2, <2>3, FreshClaim, ClaimArenas DEF Inv, Adopt
  <2>5. \A u \in Threads : thr[u].key # a
    BY <1>k, <2>3, <2>4
  <2>6. thr'[t].key = a
    BY DEF a
  <2>7. \A u \in Threads : u # t => thr'[u].key = thr[u].key
    BY <1>2
  <2>8. \A u, v \in Threads : thr'[u].key \in Extra /\ thr'[v].key = thr'[u].key => u = v
    BY <1>k, <2>5, <2>6, <2>7
  <2>9. \A u \in Threads : thr'[u].key \in Extra => arena'[thr'[u].key].claimed /\ listlock' = none
    BY <1>6, <2>4, <2>6, <2>7
  <2> QED
    BY <1>4, <1>5, <2>8, <2>9
<1> QED
  BY <1>4, <1>5, <1>7, <1>8

\* Only mm_set_mode leaves an arena in another mode than the one asked for.
Off(c) == arena[c].live /\ (c = Main => mainModed) /\ arena[c].mode # modeDefault

LEMMA OffKept ==
  ASSUME Inv, Threaded, NEW t \in Threads, Step(t) \/ Begin(t), ~SetModeBegin(t),
         NEW c \in Arenas, Off(c)'
  PROVE  /\ Off(c)
         /\ Walk(t) => c # listed[thr[t].i] \/ thr[t].i > Len(listed)
<1>p. Types /\ Placed /\ Lent /\ Proper(thr[t])
  BY DEF Inv, Threaded
<1>m. \/ UNCHANGED <<modeDefault, mainModed>>
      \/ (Install(t) \/ InitGrowable(t)) /\ UNCHANGED modeDefault /\ ~mainModed'
  <2>1. CASE Malloc(t) \/ Free(t) \/ Use(t) \/ Size(t) \/ Remalloc(t) \/ Install(t)
    BY <2>1 DEF Malloc, Free, Use, Size, Remalloc, Install, modeVars
  <2>2. CASE \/ Enter(t) \/ Acquire(t) \/ Adopt(t) \/ IsEmpty(t) \/ Fill(t) \/ Push(t) \/ Walk(t)
             \/ InitLock(t) \/ ResetArena(t) \/ ResetEnd(t)
    BY <2>2 DEF Enter, Acquire, Adopt, IsEmpty, Fill, Push, Walk, InitLock, ResetArena, ResetEnd,
       modeVars
  <2>3. CASE Begin(t)
    BY <2>3 DEF Begin, MallocBegin, InitBegin, InitGrowable, OnThreadExit, End,
       FreeBegin, UseBegin, ReallocBegin, Call, modeVars
  <2> QED
    BY <2>1, <2>2, <2>3 DEF Step
<1>n. Install(t) \/ InitGrowable(t) => c # Main
  <2>1. Install(t) => ~mainModed'
    BY DEF Install
  <2>2. InitGrowable(t) => ~mainModed'
    BY DEF InitGrowable
  <2> QED
    BY <2>1, <2>2 DEF Off
<1>k. ASSUME arena'[c].live => arena[c].live, arena'[c].mode = arena[c].mode
      PROVE  Off(c)
  BY <1>k, <1>m, <1>n DEF Off
<1>1. CASE Quiet(t)
  <2>2. Unmoved(c)
    BY <1>1, <1>p, QuietArenas
  <2>3. ~Walk(t)
    BY <1>1 DEF Quiet, Walk, At, Enter, Acquire, IsEmpty, Malloc, Free, Push, Use, Size, Remalloc,
       InitLock, MallocBegin, InitBegin, End, FreeBegin, UseBegin, ReallocBegin, Call
  <2> QED
    BY <1>k, <2>2, <2>3 DEF Unmoved
<1>2. CASE Adopt(t)
  <2>1. ~Walk(t)
    BY <1>2 DEF Adopt, Walk, At
  <2>2. ASSUME NEW a \in Arenas, Claim(t, a)
        PROVE  Off(c)
    BY <1>k, <1>p, <2>2, ClaimArenas DEF Unmoved
  <2>3. Share(t) => Off(c)
    BY <1>k DEF Share
  <2>4. Main \in Arenas
    BY DEF Arenas
  <2> QED
    BY <1>2, <1>p, <2>1, <2>2, <2>3, <2>4, AdoptCases
<1>3. CASE Fill(t)
  <2>1. thr[t].at \in Arenas /\ ~Walk(t)
    BY <1>3, <1>p DEF Fill, Walk, At, Placed, InPlace
  <2>2. c # thr[t].at
    BY <1>3, <1>m, <1>p, <2>1, FillArenas DEF Off, Fill, modeVars
  <2> QED
    BY <1>3, <1>k, <1>p, <2>1, <2>2, FillArenas DEF Unmoved
<1>4. CASE Walk(t)
  <2>1. CASE /\ thr[t].i <= Len(listed)
             /\ arena' = [arena EXCEPT ![listed[thr[t].i]].mode = modeDefault]
    <3> DEFINE a == listed[thr[t].i]
    <3>1. a \in Arenas
      BY <1>4, <1>p, <2>1 DEF Walk, At, Types, ThreadType, Placed, InPlace
    <3> HIDE DEF a
    <3>2. arena' = [arena EXCEPT ![a].mode = modeDefault]
      BY <2>1 DEF a
    <3>3. c # a
      BY <1>4, <1>p, <3>1, <3>2, WalkArenas DEF Off, Walk, modeVars
    <3>4. Off(c)
      BY <1>k, <1>p, <3>1, <3>2, <3>3, WalkArenas DEF Unmoved
    <3> QED
      BY <3>3, <3>4 DEF a
  <2>2. CASE ~(thr[t].i <= Len(listed)) /\ UNCHANGED arena
    <3>1. thr[t].i > Len(listed)
      BY <1>p, <2>2 DEF Types, ThreadType
    <3> QED
      BY <1>k, <2>2, <3>1
  <2> QED
    BY <1>4, <1>p, <2>1, <2>2, WalkMoves
<1>5. CASE OnThreadExit(t)
  BY <1>5, <1>k, <1>p, ExitArenas DEF OnThreadExit, Walk, At
<1>6. CASE ResetArena(t)
  <2>1. Emptied({listed[thr[t].i]}) /\ ~Walk(t)
    BY <1>6 DEF ResetArena, Walk, At
  <2>2. /\ arena'[c].live => arena[c].live
        /\ arena'[c].mode = arena[c].mode
    BY <1>p, <2>1, EmptiedArenas DEF Unmoved
  <2> QED
    BY <1>k, <2>1, <2>2
<1>7. CASE ResetEnd(t)
  BY <1>7, <1>k, <1>p, ResetEndArenas DEF ResetEnd, Walk, At
<1>8. CASE Install(t)
  <2>1. thr[t].at = Main /\ ~Walk(t)
    BY <1>8, <1>p DEF Install, Walk, At, Proper
  <2> QED
    BY <1>8, <1>k, <1>n, <1>p, <2>1, InstallArenas DEF Unmoved
<1>9. CASE InitGrowable(t)
  BY <1>9, <1>n, <1>p, InitGrowableArenas DEF Off
<1> QED
  BY <1>1, <1>2, <1>3, <1>4, <1>5, <1>6, <1>7, <1>8, <1>9 DEF Step, Begin, Quiet

LEMMA ModalStep == ASSUME Inv, Inv', Threaded, Named, Modal, Next PROVE Modal'
<1> SUFFICES ASSUME NEW c \in Arenas, Off(c)'
             PROVE  \E u \in Threads : thr'[u].pc = "walk" /\
                      \E j \in DOMAIN listed' : j >= thr'[u].i /\ listed'[j] = c
  BY DEF Modal, Off
<1> PICK t \in Threads : Step(t) \/ Begin(t)
  BY DEF Next
<1>1. \A j \in DOMAIN listed : j \in DOMAIN listed' /\ listed'[j] = listed[j]
  BY ListMove DEF ListMoves
<1>2. \A u \in Threads : u # t => thr'[u] = thr[u]
  BY OthersStay DEF Inv
<1>3. CASE SetModeBegin(t)
  <2>1. thr'[t].pc = "walk" /\ thr'[t].i = 1 /\ arena' = arena
    BY <1>3, SetModeMoves DEF Inv, Advances, Moves, SetModeBegin, heapVars
  <2>2. c \in Listed
    BY <2>1 DEF Off, Named
  <2>3. PICK j \in DOMAIN listed : listed[j] = c
    BY <2>2 DEF Listed
  <2>4. j >= 1
    BY DEF Inv, Types
  <2> QED
    BY <1>1, <2>1, <2>3, <2>4
<1>4. CASE ~SetModeBegin(t)
  <2>1. Off(c) /\ (Walk(t) => c # listed[thr[t].i] \/ thr[t].i > Len(listed))
    BY <1>4, OffKept
  <2>2. PICK u \in Threads : thr[u].pc = "walk" /\
               \E j \in DOMAIN listed : j >= thr[u].i /\ listed[j] = c
    BY <2>1 DEF Modal, Off
  <2>3. PICK j \in DOMAIN listed : j >= thr[u].i /\ listed[j] = c
    BY <2>2
  <2>4. CASE u # t
    BY <1>1, <1>2, <2>2, <2>3, <2>4
  <2>5. CASE u = t
    <3>1. Walk(t)
      BY <2>2, <2>5 DEF Step, Begin, At, Enter, Acquire, Adopt, IsEmpty, Fill, Malloc, Free, Push,
         Use, Size, Remalloc, InitLock, ResetArena, ResetEnd, Install, MallocBegin, SetModeBegin,
         InitBegin, InitGrowable, OnThreadExit, End, FreeBegin, UseBegin, ReallocBegin, Call
    <3>2. j \in Nat /\ j <= Len(listed) /\ Len(listed) \in Nat /\ thr[t].i \in Nat
      BY DEF Inv, Types, ThreadType
    <3>3. thr[t].i <= Len(listed) /\ j # thr[t].i
      BY <2>1, <2>3, <2>5, <3>1, <3>2
    <3>4. thr'[t].pc = "walk" /\ thr'[t].i = thr[t].i + 1
      BY <3>1, <3>3, WalkMoves DEF Inv, Advances, Moves
    <3>5. j >= thr[t].i + 1
      BY <2>3, <2>5, <3>2, <3>3
    <3> QED
      BY <1>1, <2>3, <3>4, <3>5
  <2> QED
    BY <2>4, <2>5
<1> QED
  BY <1>3, <1>4

-------------------------------------------------------------------------------
(***************************************************************************)
(* The theorems.                                                           *)
(***************************************************************************)
LEMMA InitCustody == Init => Custody
<1> SUFFICES ASSUME Init PROVE Custody
  OBVIOUS
<1>1. PICK up \in BOOLEAN : arena = [a \in Arenas |->
         IF a = Main THEN [NewArena EXCEPT !.claimed = up, !.live = up, !.growable = up]
                     ELSE NewArena]
  BY DEF Init
<1>2. \A a \in Arenas : a # Main => arena[a] = NewArena
  BY <1>1
<1>3. Main \in Arenas /\ arena[Main] = [NewArena EXCEPT !.claimed = up, !.live = up, !.growable = up]
  BY <1>1 DEF Arenas
<1>4. \A a \in Arenas : /\ arena[a].epoch = 0 /\ arena[a].mode = "managed" /\ ~arena[a].torn
                        /\ a # Main => ~arena[a].live
  <2>1. arena[Main].epoch = 0 /\ arena[Main].mode = "managed" /\ ~arena[Main].torn
    BY <1>3 DEF NewArena
  <2>2. NewArena.epoch = 0 /\ NewArena.mode = "managed" /\ ~NewArena.torn /\ ~NewArena.live
    BY DEF NewArena
  <2> QED
    BY <1>2, <2>1, <2>2
<1>5. \A t \in Threads :
        /\ thr[t].self = none /\ thr[t].key = none /\ thr[t].pc = "idle" /\ thr[t].op = none
        /\ thr[t].at = none /\ thr[t].saved = "own" /\ thr[t].blk = none
  BY DEF Init, Idle
<1>6. /\ listlock = none /\ epoch = 0 /\ mixed = 0 /\ modeDefault = "managed"
      /\ \A b \in Blocks : block[b].st = "free" /\ block[b].arena = none
  BY DEF Init
<1>7. Listed = {Main}
  BY DEF Init, Listed
<1>8. Threaded
  BY <1>5, <1>6, MarkersAssumption DEF Threaded, Proper, Home
<1>9. Named /\ Holding
  BY <1>4, <1>5, <1>6, <1>7 DEF Named, Holding
<1>10. Epochs
  <2>1. Main \in Arenas
    BY <1>3
  <2> QED
    BY <1>4, <1>6, <2>1 DEF Epochs
<1>11. Homed
  BY <1>5, <1>6, MarkersAssumption DEF Homed, Current
<1>12. Kept
  BY <1>4, <1>5, ArenasAssumption DEF Kept, Arenas
<1>13. Modal
  BY <1>4, <1>6 DEF Modal
<1> QED
  BY <1>8, <1>9, <1>10, <1>11, <1>12, <1>13 DEF Custody

LEMMA NextCustody == Inv /\ Inv' /\ Custody /\ [Next]_vars => Custody'
<1> SUFFICES ASSUME Inv, Inv', Custody, [Next]_vars PROVE Custody'
  OBVIOUS
<1>1. CASE Next
  <2>1. Threaded'
    BY <1>1, ThreadedStep DEF Custody
  <2>2. Named'
    BY <1>1, NamedStep DEF Custody
  <2>3. Holding'
    BY <1>1, HoldingStep DEF Custody
  <2>4. Epochs'
    BY <1>1, EpochsStep DEF Custody
  <2>5. Homed'
    BY <1>1, HomedStep DEF Custody
  <2>6. Kept'
    BY <1>1, KeptStep DEF Custody
  <2>7. Modal'
    BY <1>1, ModalStep DEF Custody
  <2> QED
    BY <2>1, <2>2, <2>3, <2>4, <2>5, <2>6, <2>7 DEF Custody
<1>2. CASE UNCHANGED vars
  <2>1. UNCHANGED <<listed, epoch, listlock, lock, arena, thr, block, modeDefault, mainModed, mixed>>
    BY <1>2 DEF vars
  <2>2. Listed' = Listed
    BY <2>1 DEF Listed
  <2>3. Threaded' /\ Named' /\ Holding'
    BY <2>1, <2>2 DEF Custody, Threaded, Named, Holding
  <2>4. Epochs' /\ Homed' /\ Kept' /\ Modal'
    BY <2>1 DEF Custody, Epochs, Homed, Current, Kept, Modal
  <2> QED
    BY <2>3, <2>4 DEF Custody
<1> QED
  BY <1>1, <1>2

\* Which thread may be where, whose arena it has in hand and in which epoch stays
\* as the code means it through adoption, foreign calls, exit, mm_set_mode and
\* mm_init (mm_lock.c, mm_enter_for and mm_leave_for).
THEOREM AlwaysCustody == Spec => []Custody
  BY InitCustody, NextCustody, AlwaysInv, PTL DEF Spec

LEMMA CustodyConfined == Inv /\ Custody => Confined
<1> SUFFICES ASSUME Inv, Custody, mixed < 2 PROVE
      /\ \A t \in Threads : At(t, "in") /\ thr[t].blk # none /\ thr[t].op # "remalloc" =>
           thr[t].at = block[thr[t].blk].arena /\ lock[thr[t].at] = t
      /\ \A a \in Arenas : \A b \in arena[a].queue :
           block[b] = [st |-> "queued", arena |-> a]
  BY DEF Confined
<1>1. ASSUME NEW t \in Threads, At(t, "in"), thr[t].blk # none, thr[t].op # "remalloc"
      PROVE  thr[t].at = block[thr[t].blk].arena /\ lock[thr[t].at] = t
  <2>1. thr[t].op \in {"free", "use", "size"}
    BY <1>1 DEF Custody, Threaded, Proper, Inv, Types, ThreadType, Ops
  <2> QED
    BY <1>1, <2>1 DEF At, Custody, Homed, Current, Holding
<1>2. ASSUME NEW a \in Arenas, NEW b \in arena[a].queue
      PROVE  block[b] = [st |-> "queued", arena |-> a]
  <2>1. b \in Blocks /\ block[b].st = "queued" /\ block[b].arena = a
    BY DEF Inv, Types, ArenaType, Lent
  <2>2. block[b] \in BlockType
    BY <2>1 DEF Inv, Types
  <2> QED
    BY <2>1, <2>2 DEF BlockType
<1> QED
  BY <1>1, <1>2

LEMMA CustodyPrivate == Custody => PrivateArena
<1> SUFFICES ASSUME Custody, mixed = 0 PROVE
      /\ \A t, u \in Threads : thr[t].key \in Extra /\ thr[u].key = thr[t].key => t = u
      /\ \A t \in Threads : At(t, "idle") /\ thr[t].key # none =>
           thr[t].self \in {thr[t].key, Main}
      /\ \A a \in Arenas : ~arena[a].torn
  BY DEF PrivateArena
<1>1. \A t \in Threads : At(t, "idle") /\ thr[t].key # none => thr[t].self \in {thr[t].key, Main}
  BY DEF Custody, Threaded, Proper, Home, At
<1> QED
  BY <1>1 DEF Custody, Kept

LEMMA CustodyModes == Custody => ModesAgree
  BY DEF Custody, Modal, ModesAgree, Switching, At

\* However frees, reads and resizes of other threads' blocks interleave with
\* adoption and exit, the critical section a call on a block ends in is in the
\* arena of the block's span and inside that arena's lock, and a queue holds only
\* its own arena's blocks (mm_free, mm_enter_for, mm_remote_push): for any number
\* of threads, unless mm_init overlapped other calls.
THEOREM AlwaysConfined == Spec => []Confined
  BY AlwaysInv, AlwaysCustody, CustodyConfined, PTL

\* Unless mm_init took arenas from running threads, an arena other than the main
\* one is kept by one thread, a thread comes out of every call with the arena it
\* came with or the main one, and mm_arena_adopt never seals an arena anew that
\* has blocks in it.
THEOREM AlwaysPrivate == Spec => []PrivateArena
  BY AlwaysCustody, CustodyPrivate, PTL

\* Whatever is adopted, filled, discarded or installed while mm_set_mode walks the
\* list, once it is through every arena with memory is in the mode asked for
\* (mm_set_mode, mm_arena_adopt, mm_init).
THEOREM AlwaysModesAgree == Spec => []ModesAgree
  BY AlwaysCustody, CustodyModes, PTL
===============================================================================
