----------------------------- MODULE ArenasProofs -----------------------------
(***************************************************************************)
(* Arenas' locks and its pool, for any number of threads, arenas and       *)
(* blocks, any queue length, any programs and any number of rounds of      *)
(* initialisation.                                                         *)
(***************************************************************************)
EXTENDS Arenas, TLAPS

-------------------------------------------------------------------------------
(***************************************************************************)
(* The inductive invariant.                                                *)
(***************************************************************************)
Names == Arenas \cup {none}
PCs == {"idle", "enter", "lock", "in", "adopt", "empty", "fill", "push", "walk",
        "init", "reset"}
Ops == {"malloc", "free", "use", "size", "remalloc", "install", none}
ThreadType == [self : Names, key : Names, pc : PCs, op : Ops, at : Names,
               saved : Names \cup {"own"}, blk : Blocks \cup {none}, i : Nat]
ArenaType == [claimed : BOOLEAN, epoch : Nat, live : BOOLEAN, growable : BOOLEAN,
              mode : Modes, queue : SUBSET Blocks, torn : BOOLEAN]
BlockType == [st : {"free", "held", "lent", "queued"}, arena : Names]

Types ==
  /\ listed \in Seq(Arenas) /\ listed # <<>>
  /\ orphans \in Seq(Arenas)
  /\ epoch \in Nat
  /\ listlock \in Threads \cup {none}
  /\ lock \in [Arenas -> Threads \cup {none}]
  /\ arena \in [Arenas -> ArenaType]
  /\ thr \in [Threads -> ThreadType]
  /\ block \in [Blocks -> BlockType]
  /\ modeDefault \in Modes

\* A lock is held by a thread that is in the critical section it guards.
Locks ==
  /\ \A a \in Arenas : lock[a] # none => thr[lock[a]].pc = "in" /\ thr[lock[a]].at = a
  /\ listlock # none => thr[listlock].pc = "reset"

\* Only the thread that holds the list lock discards arenas.
Resets == \A t \in Threads : thr[t].pc = "reset" => listlock = t

\* A thread that is about to lock an arena has one in hand, one that walks the
\* list is on it, one that hands a block back has the block, and one outside the
\* allocator has left none behind.
InPlace(r) ==
  /\ r.pc \in {"lock", "in", "empty", "fill"} => r.at \in Arenas
  /\ r.pc \in {"walk", "reset"} => r.i > 0
  /\ r.pc = "push" => r.blk # none
  /\ r.pc = "idle" => r.blk = none
  /\ r.op \in {"size", "remalloc"} /\ r.pc \notin {"idle", "walk", "init", "reset"} =>
       r.blk # none
Placed == \A t \in Threads : InPlace(thr[t])

\* A block is lent to at most one call, and while it is it has an arena and is on
\* no queue; none is lent while the arenas are being discarded.
Lent ==
  /\ \A b \in Blocks : block[b].st # "free" => block[b].arena \in Arenas
  /\ \A t \in Threads : thr[t].blk # none => block[thr[t].blk].st = "lent"
  /\ \A t, u \in Threads : thr[t].blk = thr[u].blk /\ thr[t].blk # none => t = u
  /\ \A a \in Arenas : \A b \in arena[a].queue :
       block[b].st = "queued" /\ block[b].arena = a
  /\ \A t, u \in Threads : thr[t].pc \in {"init", "reset"} => thr[u].blk = none

\* The list has every arena that was ever made, once, the main one first.
ListExact ==
  /\ listed[1] = Main
  /\ \A i, j \in DOMAIN listed : listed[i] = listed[j] => i = j
  /\ \A a \in Arenas : arena[a].claimed => \E i \in DOMAIN listed : listed[i] = a
  /\ \A j \in DOMAIN orphans : \E i \in DOMAIN listed : listed[i] = orphans[j]

\* The arenas a reset has been through belong to nobody.
Discarded ==
  listlock # none => \A i \in DOMAIN listed : i < thr[listlock].i => ~arena[listed[i]].claimed

Inv == Types /\ Locks /\ Resets /\ Placed /\ Lent /\ ListExact /\ Discarded /\ PoolExact

-------------------------------------------------------------------------------
LEMMA IdleType ==
  ASSUME NEW self \in Names, NEW key \in Names
  PROVE  Idle(self, key) \in ThreadType
  BY DEF Idle, ThreadType, Names, PCs, Ops

LEMMA TypesInit == Init => Types
<1> SUFFICES ASSUME Init PROVE Types
  OBVIOUS
<1>1. Main \in Arenas
  BY DEF Arenas
<1>2. thr \in [Threads -> ThreadType]
  BY IdleType DEF Init, Names
<1>3. arena \in [Arenas -> ArenaType]
  <2>1. PICK up \in BOOLEAN : arena = [a \in Arenas |->
         IF a = Main THEN [NewArena EXCEPT !.claimed = up, !.live = up, !.growable = up]
                     ELSE NewArena]
    BY DEF Init
  <2>2. [NewArena EXCEPT !.claimed = up, !.live = up, !.growable = up] \in ArenaType
    BY DEF NewArena, ArenaType, Modes
  <2>3. NewArena \in ArenaType
    BY DEF NewArena, ArenaType, Modes
  <2> QED
    BY <2>1, <2>2, <2>3
<1>4. block \in [Blocks -> BlockType]
  BY DEF Init, BlockType, Names
<1> QED
  BY <1>1, <1>2, <1>3, <1>4 DEF Init, Types, Modes

\* What the helpers of the calls return.
LEMMA DrainedType ==
  ASSUME Types, NEW a \in Arenas
  PROVE  /\ Drained(a) \in [Blocks -> BlockType]
         /\ \A b \in Blocks : Drained(a)[b] =
              IF b \in arena[a].queue THEN [st |-> "free", arena |-> none] ELSE block[b]
  BY DEF Types, Drained, BlockType, Names

LEMMA AllocatedType ==
  ASSUME NEW a \in Arenas, NEW blocks \in [Blocks -> BlockType],
         NEW after \in Allocated(a, blocks)
  PROVE  /\ after \in [Blocks -> BlockType]
         /\ after = blocks \/ \E b \in Blocks :
              /\ blocks[b].st = "free"
              /\ after = [blocks EXCEPT ![b] = [st |-> "held", arena |-> a]]
<1>1. CASE after = blocks
  BY <1>1
<1>2. CASE after # blocks
  <2>1. PICK b \in program.blocks :
          blocks[b].st = "free" /\ after = [blocks EXCEPT ![b] = [st |-> "held", arena |-> a]]
    BY <1>2 DEF Allocated
  <2>2. b \in Blocks
    BY <1>2, <2>1
  <2>3. [st |-> "held", arena |-> a] \in BlockType
    BY DEF BlockType, Names
  <2> QED
    BY <2>1, <2>2, <2>3
<1> QED
  BY <1>1, <1>2

LEMMA FreedType ==
  ASSUME NEW blocks \in [Blocks -> BlockType], NEW b
  PROVE  Freed(blocks, b) \in [Blocks -> BlockType]
  BY DEF Freed, BlockType, Names

LEMMA UnlentType ==
  ASSUME NEW blocks \in [Blocks -> BlockType], NEW b
  PROVE  Unlent(blocks, b) \in [Blocks -> BlockType]
  BY DEF Unlent, BlockType

LEMMA QueueType ==
  ASSUME Types, NEW a \in Arenas, NEW Q \in SUBSET Blocks,
         arena' = [arena EXCEPT ![a].queue = Q]
  PROVE  /\ arena' \in [Arenas -> ArenaType]
         /\ \A c \in Arenas : arena'[c].claimed = arena[c].claimed
         /\ \A c \in Arenas : arena'[c].queue = IF c = a THEN Q ELSE arena[c].queue
<1>1. [arena[a] EXCEPT !.queue = Q] \in ArenaType
  BY DEF Types, ArenaType
<1>2. /\ [arena[a] EXCEPT !.queue = Q].claimed = arena[a].claimed
      /\ [arena[a] EXCEPT !.queue = Q].queue = Q
  BY DEF Types, ArenaType
<1>3. \A c \in Arenas : arena'[c] = IF c = a THEN [arena[a] EXCEPT !.queue = Q] ELSE arena[c]
  BY DEF Types
<1>4. DOMAIN arena' = Arenas
  BY DEF Types
<1> QED
  BY <1>1, <1>2, <1>3, <1>4 DEF Types

LEMMA EmptyQueueType ==
  ASSUME Types, NEW a \in Arenas, EmptyQueue(a)
  PROVE  /\ arena' \in [Arenas -> ArenaType]
         /\ \A c \in Arenas : arena'[c].claimed = arena[c].claimed
         /\ \A c \in Arenas : arena'[c].queue = IF c = a THEN {} ELSE arena[c].queue
  BY QueueType, {} \in SUBSET Blocks DEF EmptyQueue

\* The parts that several actions share.
LEMMA BecomesType ==
  ASSUME Types, NEW t \in Threads, NEW new \in ThreadType, Becomes(t, new)
  PROVE  /\ thr' \in [Threads -> ThreadType]
         /\ thr'[t] = new
         /\ \A u \in Threads : u # t => thr'[u] = thr[u]
  BY DEF Becomes, Types

LEMMA GotoType ==
  ASSUME Types, NEW t \in Threads, NEW pc \in PCs, Goto(t, pc)
  PROVE  thr' \in [Threads -> ThreadType]
<1>1. [thr[t] EXCEPT !.pc = pc] \in ThreadType
  BY DEF Types, ThreadType
<1> QED
  BY <1>1, BecomesType DEF Goto

LEMMA ReturnType ==
  ASSUME Types, NEW t \in Threads, Return(t)
  PROVE  thr' \in [Threads -> ThreadType]
<1>1. Idle(thr[t].self, thr[t].key) \in ThreadType
  BY IdleType DEF Types, ThreadType
<1> QED
  BY <1>1, BecomesType DEF Return

LEMMA ClaimType ==
  ASSUME Types, NEW t \in Threads, NEW a \in Arenas, Claim(t, a)
  PROVE  arena' \in [Arenas -> ArenaType] /\ thr' \in [Threads -> ThreadType]
<1>1. Claimed(a) \in ArenaType
  BY DEF Claimed, Types, ArenaType
<1>2. arena' \in [Arenas -> ArenaType]
  BY <1>1 DEF Claim, Types
<1>3. [thr[t] EXCEPT !.self = a, !.key = a, !.at = a, !.pc = "empty"] \in ThreadType
  BY DEF Types, ThreadType, PCs, Names
<1> QED
  BY <1>2, <1>3, BecomesType DEF Claim

LEMMA LeaveType ==
  ASSUME Types, NEW t \in Threads, NEW next \in ThreadType, Leave(t, next)
  PROVE  /\ thr' \in [Threads -> ThreadType]
         /\ lock' \in [Arenas -> Threads \cup {none}]
         /\ UNCHANGED <<listlock, listed, orphans, epoch>>
<1>1. [next EXCEPT !.self = IF thr[t].saved = "own" THEN @ ELSE thr[t].saved] \in ThreadType
  BY DEF Types, ThreadType, Names
<1>2. thr' \in [Threads -> ThreadType]
  BY <1>1, BecomesType DEF Leave
<1>3. lock' \in [Arenas -> Threads \cup {none}]
  BY DEF Leave, Types
<1> QED
  BY <1>2, <1>3 DEF Leave, poolVars

LEMMA CallType ==
  ASSUME Types, NEW t \in Threads, NEW op \in Ops, NEW b \in Blocks, NEW pc \in PCs,
         Call(t, op, b, pc)
  PROVE  Types'
<1>1. block[b].arena \in Names
  BY DEF Types, BlockType
<1>2. thr[t] \in ThreadType
  BY DEF Types
<1>3. thr' \in [Threads -> ThreadType]
  <2>1. CASE pc = "lock"
    <3>1. [thr[t] EXCEPT !.pc = pc, !.op = op, !.blk = b, !.at = block[b].arena,
                         !.self = block[b].arena, !.saved = thr[t].self] \in ThreadType
      BY <1>1, <1>2 DEF ThreadType
    <3> QED
      BY <2>1, <3>1, BecomesType DEF Call
  <2>2. CASE pc # "lock"
    <3>1. [thr[t] EXCEPT !.pc = pc, !.op = op, !.blk = b, !.at = none,
                         !.self = thr[t].self, !.saved = "own"] \in ThreadType
      BY <1>2 DEF ThreadType, Names
    <3> QED
      BY <2>2, <3>1, BecomesType DEF Call
  <2> QED
    BY <2>1, <2>2
<1>4. block' \in [Blocks -> BlockType]
  BY DEF Call, Types, BlockType
<1> QED
  BY <1>3, <1>4 DEF Call, Types, poolVars, modeVars

LEMMA EmptiedType ==
  ASSUME Types, NEW S \in SUBSET Arenas, Emptied(S)
  PROVE  arena' \in [Arenas -> ArenaType] /\ block' \in [Blocks -> BlockType]
<1>1. \A a \in Arenas : Discard(a) \in ArenaType
  BY DEF Discard, Types, ArenaType
<1>2. arena' \in [Arenas -> ArenaType]
  BY <1>1 DEF Emptied, Types
<1>3. block' \in [Blocks -> BlockType]
  BY DEF Emptied, Types, BlockType, Names
<1> QED
  BY <1>2, <1>3

\* Each action keeps the types; a critical section needs to know that it is in an
\* arena (Placed).
LEMMA TypesStep == ASSUME Types, Placed, Next PROVE Types'
<1> PICK t \in Threads : Step(t) \/ Begin(t)
  BY DEF Next
<1> USE DEF Types
<1>m. Main \in Arenas /\ Main \in Names /\ none \in Names
  BY DEF Arenas, Names
<1>t. thr[t] \in ThreadType
  OBVIOUS
<1>i. Idle(thr[t].self, thr[t].key) \in ThreadType
  BY <1>t, IdleType DEF ThreadType
<1>p. {"idle", "enter", "lock", "in", "adopt", "empty", "fill", "push", "walk", "init",
       "reset"} \subseteq PCs
  BY DEF PCs
<1>at. At(t, "in") => thr[t].at \in Arenas
  BY DEF At, Placed, InPlace
<1>1. CASE Enter(t)
  <2>1. thr[t].self # none => [thr[t] EXCEPT !.pc = "lock", !.at = thr[t].self] \in ThreadType
    BY <1>t DEF ThreadType, PCs
  <2>2. thr' \in [Threads -> ThreadType]
    BY <1>1, <1>p, <2>1, GotoType, BecomesType DEF Enter
  <2> QED
    BY <1>1, <2>2 DEF Enter, heapVars, poolVars, modeVars
<1>2. CASE Acquire(t)
  BY <1>2, <1>p, GotoType DEF Acquire, heapVars, poolVars, modeVars
<1>3. CASE Adopt(t)
  <2>1. CASE AdoptMain(t)
    BY <1>3, <2>1, <1>m, ClaimType DEF Adopt, AdoptMain, modeVars
  <2>2. CASE AdoptShared(t) \/ Share(t)
    <3>1. Share(t)
      BY <2>2 DEF AdoptShared
    <3>2. [thr[t] EXCEPT !.self = Main, !.at = Main, !.pc = "lock"] \in ThreadType
      BY <1>t, <1>m DEF ThreadType, PCs
    <3>3. thr' \in [Threads -> ThreadType]
      BY <3>1, <3>2, BecomesType DEF Share
    <3> QED
      BY <1>3, <3>1, <3>3 DEF Adopt, Share, modeVars
  <2>3. CASE AdoptOrphan(t)
    <3>1. Head(orphans) \in Arenas /\ Tail(orphans) \in Seq(Arenas)
      BY <2>3 DEF AdoptOrphan
    <3>2. arena' \in [Arenas -> ArenaType] /\ thr' \in [Threads -> ThreadType]
      BY <2>3, <3>1, ClaimType DEF AdoptOrphan
    <3> QED
      BY <1>3, <2>3, <3>1, <3>2 DEF Adopt, AdoptOrphan, modeVars
  <2>4. CASE AdoptNew(t) /\ ~Share(t)
    <3>1. PICK a \in Extra : Claim(t, a) /\ listed' = Append(listed, a) /\ orphans' = orphans
      BY <2>4 DEF AdoptNew
    <3>2. a \in Arenas
      BY DEF Arenas
    <3>3. arena' \in [Arenas -> ArenaType] /\ thr' \in [Threads -> ThreadType]
      BY <3>1, <3>2, ClaimType
    <3>4. listed' \in Seq(Arenas) /\ listed' # <<>>
      BY <3>1, <3>2
    <3> QED
      BY <1>3, <3>1, <3>3, <3>4 DEF Adopt, modeVars
  <2> QED
    BY <1>3, <2>1, <2>2, <2>3, <2>4 DEF Adopt
<1>4. CASE IsEmpty(t)
  BY <1>4, <1>p, GotoType DEF IsEmpty, heapVars, poolVars, modeVars
<1>5. CASE Fill(t)
  <2>1. PICK mapped \in BOOLEAN :
          arena' = [arena EXCEPT ![thr[t].at] = Filled(thr[t].at, mapped)]
    BY <1>5 DEF Fill
  <2>2. \A a \in Arenas : Filled(a, mapped) \in ArenaType
    BY DEF Filled, ArenaType
  <2>3. arena' \in [Arenas -> ArenaType]
    BY <2>1, <2>2
  <2> QED
    BY <1>5, <2>3, <1>p, GotoType DEF Fill, poolVars, modeVars
<1>6. CASE Malloc(t)
  <2>0. thr[t].at \in Arenas
    BY <1>6, <1>at DEF Malloc
  <2>1. block' \in [Blocks -> BlockType]
    BY <1>6, <2>0, DrainedType, AllocatedType DEF Malloc
  <2>2. arena' \in [Arenas -> ArenaType]
    BY <1>6, <2>0, EmptyQueueType DEF Malloc
  <2> QED
    BY <1>6, <1>i, <2>1, <2>2, LeaveType DEF Malloc, modeVars
<1>7. CASE Free(t)
  <2>0. thr[t].at \in Arenas
    BY <1>7, <1>at DEF Free
  <2>1. block' \in [Blocks -> BlockType]
    BY <1>7, <2>0, DrainedType, FreedType DEF Free
  <2>2. arena' \in [Arenas -> ArenaType]
    BY <1>7, <2>0, EmptyQueueType DEF Free
  <2> QED
    BY <1>7, <1>i, <2>1, <2>2, LeaveType DEF Free, modeVars
<1>8. CASE Push(t)
  <2>0. thr[t].blk \in Blocks /\ block[thr[t].blk].arena \in Names
    BY <1>8, <1>t DEF Push, Placed, InPlace, At, ThreadType, BlockType
  <2>1. CASE Return(t) /\ arena' = [arena EXCEPT ![block[thr[t].blk].arena].queue = @ \cup {thr[t].blk}]
                      /\ block' = [block EXCEPT ![thr[t].blk].st = "queued"]
    <3>1. block' \in [Blocks -> BlockType]
      BY <2>0, <2>1 DEF BlockType
    <3>2. \A a \in Arenas : [arena[a] EXCEPT !.queue = @ \cup {thr[t].blk}] \in ArenaType
      BY <2>0 DEF ArenaType
    <3>3. arena' \in [Arenas -> ArenaType]
      BY <2>1, <3>2
    <3> QED
      BY <1>8, <2>1, <3>1, <3>3, ReturnType DEF Push, poolVars, modeVars
  <2>2. CASE /\ Becomes(t, [thr[t] EXCEPT !.pc = "lock", !.at = block[thr[t].blk].arena])
             /\ UNCHANGED heapVars
    <3>1. [thr[t] EXCEPT !.pc = "lock", !.at = block[thr[t].blk].arena] \in ThreadType
      BY <1>t, <2>0 DEF ThreadType, PCs
    <3>2. thr' \in [Threads -> ThreadType]
      BY <2>2, <3>1, BecomesType
    <3> QED
      BY <1>8, <2>2, <3>2 DEF Push, heapVars, poolVars, modeVars
  <2> QED
    BY <1>8, <2>1, <2>2 DEF Push
<1>9. CASE Use(t)
  <2>0. thr[t].at \in Arenas
    BY <1>9, <1>at DEF Use
  <2>1. block' \in [Blocks -> BlockType]
    BY <1>9, <2>0, DrainedType, UnlentType DEF Use
  <2>2. arena' \in [Arenas -> ArenaType]
    BY <1>9, <2>0, EmptyQueueType DEF Use
  <2> QED
    BY <1>9, <1>i, <2>1, <2>2, LeaveType DEF Use, modeVars
<1>10. CASE Size(t)
  <2>1. [thr[t] EXCEPT !.pc = "enter", !.op = "remalloc", !.saved = "own", !.at = none]
          \in ThreadType
    BY <1>t DEF ThreadType, PCs, Ops, Names
  <2> QED
    BY <1>10, <2>1, LeaveType DEF Size, heapVars, modeVars
<1>11. CASE Remalloc(t)
  <2>0. thr[t].at \in Arenas
    BY <1>11, <1>at DEF Remalloc
  <2>1. block' \in [Blocks -> BlockType]
    <3>1. Drained(thr[t].at) \in [Blocks -> BlockType]
      BY <2>0, DrainedType
    <3>2. Unlent(Drained(thr[t].at), thr[t].blk) \in [Blocks -> BlockType]
      BY <3>1, UnlentType
    <3>3. CASE block' \in Allocated(thr[t].at, Drained(thr[t].at))
      BY <2>0, <3>1, <3>3, AllocatedType
    <3> QED
      BY <1>11, <3>2, <3>3 DEF Remalloc
  <2>2. arena' \in [Arenas -> ArenaType]
    BY <1>11, <2>0, EmptyQueueType DEF Remalloc
  <2>3. [thr[t] EXCEPT !.op = "free", !.pc = WayBack(t, thr[t].blk), !.at = none]
          \in ThreadType
    <3>1. WayBack(t, thr[t].blk) \in PCs
      BY DEF WayBack, PCs
    <3> QED
      BY <1>t, <3>1 DEF ThreadType, Ops, Names
  <2>4. \E next \in ThreadType : Leave(t, next)
    BY <1>11, <1>i, <2>3 DEF Remalloc
  <2> QED
    BY <1>11, <2>1, <2>2, <2>4, LeaveType DEF Remalloc, modeVars
<1>12. CASE Walk(t)
  <2>1. [thr[t] EXCEPT !.i = @ + 1] \in ThreadType
    <3>1. thr[t].i + 1 \in Nat
      BY <1>t DEF ThreadType
    <3> QED
      BY <1>t, <3>1 DEF ThreadType
  <2>2. thr' \in [Threads -> ThreadType]
    BY <1>12, <2>1, BecomesType, ReturnType DEF Walk
  <2>3. \A a \in Arenas : [arena[a] EXCEPT !.mode = modeDefault] \in ArenaType
    BY DEF ArenaType
  <2>4. arena' \in [Arenas -> ArenaType]
    BY <1>12, <2>3 DEF Walk
  <2> QED
    BY <1>12, <2>2, <2>4 DEF Walk, poolVars, modeVars
<1>13. CASE InitLock(t)
  <2>1. [thr[t] EXCEPT !.pc = "reset", !.i = 1] \in ThreadType
    BY <1>t DEF ThreadType, PCs
  <2> QED
    BY <1>13, <2>1, BecomesType DEF InitLock, heapVars, modeVars
<1>14. CASE ResetArena(t)
  <2>1. [thr[t] EXCEPT !.i = @ + 1] \in ThreadType
    <3>1. thr[t].i + 1 \in Nat
      BY <1>t DEF ThreadType
    <3> QED
      BY <1>t, <3>1 DEF ThreadType
  <2>2. thr[t].i \in 1 .. Len(listed)
    BY <1>14, <1>t DEF ResetArena, At, Placed, InPlace, ThreadType
  <2>3. arena' \in [Arenas -> ArenaType] /\ block' \in [Blocks -> BlockType]
    BY <1>14, <2>2, EmptiedType DEF ResetArena
  <2> QED
    BY <1>14, <2>1, <2>3, BecomesType DEF ResetArena, poolVars, modeVars
<1>15. CASE ResetEnd(t)
  <2>1. Idle(Main, thr[t].key) \in ThreadType
    BY <1>m, <1>t, IdleType DEF ThreadType
  <2>2. [Idle(Main, thr[t].key) EXCEPT !.pc = "enter", !.op = "install"] \in ThreadType
    BY <2>1 DEF ThreadType, PCs, Ops
  <2>3. [arena[Main] EXCEPT !.claimed = TRUE, !.epoch = epoch] \in ArenaType
    BY <1>m DEF ArenaType
  <2>4. arena' \in [Arenas -> ArenaType]
    BY <1>15, <1>m, <2>3 DEF ResetEnd
  <2>5. orphans' \in Seq(Arenas)
    BY <1>15 DEF ResetEnd
  <2> QED
    BY <1>15, <2>2, <2>4, <2>5, BecomesType DEF ResetEnd, modeVars
<1>16. CASE Install(t)
  <2>0. thr[t].at \in Arenas
    BY <1>16, <1>at DEF Install
  <2>1. \A a \in Arenas :
          [arena[a] EXCEPT !.live = TRUE, !.mode = "managed", !.queue = {}] \in ArenaType
    BY DEF ArenaType, Modes
  <2>2. arena' \in [Arenas -> ArenaType]
    BY <1>16, <2>1 DEF Install
  <2> QED
    BY <1>16, <1>i, <2>0, <2>2, DrainedType, LeaveType DEF Install
<1>17. CASE OnThreadExit(t)
  <2>1. [thr[t] EXCEPT !.key = none] \in ThreadType
    BY <1>t DEF ThreadType, Names
  <2>2. \A a \in Arenas : [arena[a] EXCEPT !.claimed = FALSE] \in ArenaType
    BY DEF ArenaType
  <2>3. arena' \in [Arenas -> ArenaType]
    BY <1>17, <2>2 DEF OnThreadExit
  <2>4. orphans' \in Seq(Arenas)
    <3>1. thr[t].key \in Arenas
      BY <1>17, <1>t DEF OnThreadExit, ThreadType, Names
    <3>2. <<thr[t].key>> \o orphans \in Seq(Arenas)
      BY <3>1
    <3> QED
      BY <1>17, <3>2 DEF OnThreadExit
  <2> QED
    BY <1>17, <2>1, <2>3, <2>4, BecomesType DEF OnThreadExit, modeVars
<1>18. CASE End(t)
  <2>1. [thr[t] EXCEPT !.self = none] \in ThreadType
    BY <1>t DEF ThreadType, Names
  <2> QED
    BY <1>18, <2>1, BecomesType DEF End, heapVars, poolVars, modeVars
<1>19. CASE MallocBegin(t)
  <2>1. [thr[t] EXCEPT !.pc = "enter", !.op = "malloc"] \in ThreadType
    BY <1>t DEF ThreadType, PCs, Ops
  <2> QED
    BY <1>19, <2>1, BecomesType DEF MallocBegin, heapVars, poolVars, modeVars
<1>20. ASSUME NEW b \in Blocks, FreeBegin(t, b) \/ UseBegin(t, b) \/ ReallocBegin(t, b)
       PROVE  Types'
  <2>1. {"free", "use", "size"} \subseteq Ops /\ WayBack(t, b) \in PCs
        /\ EnterFor(t, b) \in PCs /\ "lock" \in PCs
    BY DEF Ops, WayBack, EnterFor, PCs
  <2>2. \E op \in Ops, pc \in PCs : Call(t, op, b, pc)
    BY <1>20, <2>1 DEF FreeBegin, UseBegin, ReallocBegin
  <2> QED
    BY <2>2, CallType
<1>21. CASE SetModeBegin(t)
  <2>1. [thr[t] EXCEPT !.pc = "walk", !.i = 1] \in ThreadType
    BY <1>t DEF ThreadType, PCs
  <2> QED
    BY <1>21, <2>1, BecomesType DEF SetModeBegin, heapVars, poolVars
<1>22. CASE InitBegin(t)
  BY <1>22, <1>p, GotoType DEF InitBegin, heapVars, poolVars, modeVars
<1>23. CASE InitGrowable(t)
  <2>1. [thr[t] EXCEPT !.self = Main] \in ThreadType
    BY <1>t, <1>m DEF ThreadType
  <2>2. thr' \in [Threads -> ThreadType]
    BY <1>23, <2>1, BecomesType DEF InitGrowable
  <2>3. epoch' \in Nat /\ orphans' \in Seq(Arenas)
    <3>1. epoch + 1 \in Nat /\ Tail(listed) \in Seq(Arenas)
      OBVIOUS
    <3>2. epoch' = epoch + 1 /\ orphans' = Tail(listed)
      BY <1>23 DEF InitGrowable
    <3> QED
      BY <3>1, <3>2
  <2>4. arena' \in [Arenas -> ArenaType]
    <3>1. PICK mapped \in BOOLEAN :
            arena' = [a \in Arenas |->
              IF a = Main
              THEN [arena[a] EXCEPT !.live = mapped, !.growable = mapped, !.queue = {},
                       !.claimed = TRUE, !.epoch = epoch + 1, !.mode = "managed"]
              ELSE Discard(a)]
      BY <1>23 DEF InitGrowable
    <3>2. \A a \in Arenas : Discard(a) \in ArenaType
      BY DEF Discard, ArenaType
    <3>3. epoch + 1 \in Nat
      OBVIOUS
    <3>4. \A a \in Arenas :
            [arena[a] EXCEPT !.live = mapped, !.growable = mapped, !.queue = {},
               !.claimed = TRUE, !.epoch = epoch + 1, !.mode = "managed"] \in ArenaType
      BY <3>3 DEF ArenaType, Modes
    <3> QED
      BY <3>1, <3>2, <3>4
  <2>5. block' \in [Blocks -> BlockType]
    BY <1>23 DEF InitGrowable, BlockType, Names
  <2> QED
    BY <1>23, <2>2, <2>3, <2>4, <2>5 DEF InitGrowable
<1> QED
  BY <1>1, <1>2, <1>3, <1>4, <1>5, <1>6, <1>7, <1>8, <1>9, <1>10, <1>11, <1>12, <1>13,
     <1>14, <1>15, <1>16, <1>17, <1>18, <1>19, <1>20, <1>21, <1>22, <1>23
  DEF Step, Begin

-------------------------------------------------------------------------------
(***************************************************************************)
(* The locks.                                                              *)
(***************************************************************************)

\* A step is one thread's.
LEMMA OthersStay ==
  ASSUME Types, NEW t \in Threads, Step(t) \/ Begin(t)
  PROVE  \A u \in Threads : u # t => thr'[u] = thr[u]
<1> SUFFICES \E new : Becomes(t, new)
  BY DEF Types, Becomes
<1>1. CASE Enter(t) \/ Acquire(t) \/ IsEmpty(t) \/ Fill(t) \/ Push(t) \/ Walk(t)
  BY <1>1 DEF Enter, Acquire, IsEmpty, Fill, Push, Walk, Goto, Return
<1>2. CASE Adopt(t)
  BY <1>2 DEF Adopt, AdoptMain, AdoptShared, AdoptOrphan, AdoptNew, Claim, Share
<1>3. CASE Malloc(t) \/ Free(t) \/ Use(t) \/ Size(t) \/ Remalloc(t) \/ Install(t)
  BY <1>3 DEF Malloc, Free, Use, Size, Remalloc, Install, Leave
<1>4. CASE InitLock(t) \/ ResetArena(t) \/ ResetEnd(t)
  BY <1>4 DEF InitLock, ResetArena, ResetEnd
<1>5. CASE MallocBegin(t) \/ SetModeBegin(t) \/ InitBegin(t) \/ InitGrowable(t)
           \/ OnThreadExit(t) \/ End(t)
  BY <1>5 DEF MallocBegin, SetModeBegin, InitBegin, InitGrowable, OnThreadExit, End, Goto
<1>6. ASSUME NEW b \in Blocks, FreeBegin(t, b) \/ UseBegin(t, b) \/ ReallocBegin(t, b)
      PROVE  \E new : Becomes(t, new)
  BY <1>6 DEF FreeBegin, UseBegin, ReallocBegin, Call
<1> QED
  BY <1>1, <1>2, <1>3, <1>4, <1>5, <1>6 DEF Step, Begin

\* A thread outside the critical sections holds nothing.
LEMMA QuietLocks ==
  ASSUME Types, Locks, NEW t \in Threads, Step(t) \/ Begin(t),
         thr[t].pc \notin {"in", "reset"}, UNCHANGED <<lock, listlock>>
  PROVE  Locks'
  BY OthersStay, ArenasAssumption DEF Types, Locks

\* A critical section ends with its lock given back.
LEMMA LeaveLocks ==
  ASSUME Types, Locks, NEW t \in Threads, Step(t), At(t, "in"), NEW next, Leave(t, next)
  PROVE  Locks'
  BY OthersStay, ArenasAssumption DEF Types, Locks, At, Leave

LEMMA LocksStep == ASSUME Types, Locks, Next PROVE Locks'
<1> PICK t \in Threads : Step(t) \/ Begin(t)
  BY DEF Next
<1>0. \A u \in Threads : u # t => thr'[u] = thr[u]
  BY OthersStay
<1>1. CASE Enter(t) \/ IsEmpty(t) \/ Fill(t) \/ Push(t) \/ Walk(t)
  BY <1>1, QuietLocks DEF Enter, IsEmpty, Fill, Push, Walk, At
<1>2. CASE Adopt(t)
  BY <1>2, QuietLocks DEF Adopt, At
<1>3. CASE Acquire(t)
  <2>1. thr'[t].pc = "in" /\ thr'[t].at = thr[t].at
    BY <1>3 DEF Acquire, Goto, Becomes, Types, ThreadType
  <2>2. \A a \in Arenas : lock[a] # t /\ listlock # t
    BY <1>3, ArenasAssumption DEF Acquire, At, Locks
  <2> QED
    BY <1>0, <1>3, <2>1, <2>2, ArenasAssumption DEF Acquire, Locks, Types
<1>4. CASE Malloc(t) \/ Free(t) \/ Use(t) \/ Size(t) \/ Remalloc(t) \/ Install(t)
  <2>1. Step(t) /\ At(t, "in") /\ \E next : Leave(t, next)
    BY <1>4 DEF Malloc, Free, Use, Size, Remalloc, Install, Step
  <2> QED
    BY <2>1, LeaveLocks
<1>5. CASE InitLock(t)
  <2>1. thr'[t].pc = "reset"
    BY <1>5 DEF InitLock, Becomes, Types, ThreadType
  <2>2. \A a \in Arenas : lock[a] # t
    BY <1>5, ArenasAssumption DEF InitLock, At, Locks
  <2> QED
    BY <1>0, <1>5, <2>1, <2>2 DEF InitLock, Locks, Types
<1>6. CASE ResetArena(t)
  <2>1. thr'[t].pc = "reset"
    BY <1>6 DEF ResetArena, At, Becomes, Types, ThreadType
  <2>2. \A a \in Arenas : lock[a] # t
    BY <1>6, ArenasAssumption DEF ResetArena, At, Locks
  <2> QED
    BY <1>0, <1>6, <2>1, <2>2 DEF ResetArena, Locks, Types
<1>7. CASE ResetEnd(t)
  <2>1. \A a \in Arenas : lock[a] # t
    BY <1>7, ArenasAssumption DEF ResetEnd, At, Locks
  <2> QED
    BY <1>0, <1>7, <2>1 DEF ResetEnd, Locks, Types
<1>8. CASE MallocBegin(t) \/ SetModeBegin(t) \/ InitBegin(t) \/ InitGrowable(t)
           \/ OnThreadExit(t) \/ End(t)
  BY <1>8, QuietLocks DEF MallocBegin, SetModeBegin, InitBegin, InitGrowable, OnThreadExit, End, At
<1>9. ASSUME NEW b \in Blocks, FreeBegin(t, b) \/ UseBegin(t, b) \/ ReallocBegin(t, b)
      PROVE  Locks'
  BY <1>9, QuietLocks DEF FreeBegin, UseBegin, ReallocBegin, Call, At
<1> QED
  BY <1>1, <1>2, <1>3, <1>4, <1>5, <1>6, <1>7, <1>8, <1>9 DEF Step, Begin

-------------------------------------------------------------------------------
(***************************************************************************)
(* Where threads and blocks are.                                           *)
(***************************************************************************)
LEMMA IdleInPlace ==
  ASSUME NEW self, NEW key
  PROVE  InPlace(Idle(self, key))
  BY DEF InPlace, Idle

\* Only mm_self is put back on the way out.
LEMMA LeaveInPlace ==
  ASSUME Types, Placed, NEW t \in Threads, Step(t), NEW next \in ThreadType, InPlace(next),
         Leave(t, next)
  PROVE  Placed'
<1>1. thr'[t] = [next EXCEPT !.self = IF thr[t].saved = "own" THEN @ ELSE thr[t].saved]
  BY DEF Leave, Becomes, Types
<1>2. /\ thr'[t].pc = next.pc /\ thr'[t].at = next.at /\ thr'[t].i = next.i
      /\ thr'[t].op = next.op /\ thr'[t].blk = next.blk
  BY <1>1 DEF ThreadType
<1> QED
  BY <1>2, OthersStay DEF Placed, InPlace

LEMMA PlacedStep == ASSUME Types, Placed, Lent, Next PROVE Placed'
<1> PICK t \in Threads : Step(t) \/ Begin(t)
  BY DEF Next
<1>0. \A u \in Threads : u # t => thr'[u] = thr[u]
  BY OthersStay
<1>t. thr[t] \in ThreadType /\ InPlace(thr[t])
  BY DEF Types, Placed
<1>i. /\ Idle(thr[t].self, thr[t].key) \in ThreadType
      /\ InPlace(Idle(thr[t].self, thr[t].key))
  BY <1>t, IdleType, IdleInPlace DEF ThreadType
<1> SUFFICES InPlace(thr'[t]) \/ Placed'
  BY <1>0 DEF Placed
<1>b. \A new : Becomes(t, new) => thr'[t] = new
  BY DEF Becomes, Types
<1>m. Main \in Arenas
  BY DEF Arenas
<1>1. CASE Enter(t)
  <2>1. thr[t].self # none => thr[t].self \in Arenas
    BY <1>t DEF ThreadType, Names
  <2> QED
    BY <1>1, <1>b, <1>t, <2>1 DEF Enter, At, Goto, InPlace, ThreadType
<1>2. CASE Acquire(t) \/ IsEmpty(t) \/ Fill(t)
  BY <1>2, <1>b, <1>t DEF Acquire, IsEmpty, Fill, At, Goto, InPlace, ThreadType
<1>3. CASE Adopt(t)
  <2>1. ASSUME NEW a \in Arenas, Claim(t, a)
        PROVE  InPlace(thr'[t])
    <3>1. thr'[t] = [thr[t] EXCEPT !.self = a, !.key = a, !.at = a, !.pc = "empty"]
      BY <1>b, <2>1 DEF Claim
    <3>2. thr[t].pc = "adopt"
      BY <1>3 DEF Adopt, At
    <3> QED
      BY <1>t, <3>1, <3>2 DEF InPlace, ThreadType
  <2>2. ASSUME Share(t)
        PROVE  InPlace(thr'[t])
    BY <1>3, <1>b, <1>t, <1>m, <2>2 DEF Adopt, At, Share, InPlace, ThreadType
  <2>3. AdoptOrphan(t) => Head(orphans) \in Arenas
    BY DEF AdoptOrphan, Types
  <2>4. Extra \subseteq Arenas
    BY DEF Arenas
  <2> QED
    BY <1>3, <1>m, <2>1, <2>2, <2>3, <2>4
    DEF Adopt, AdoptMain, AdoptShared, AdoptOrphan, AdoptNew
<1>4. CASE Malloc(t) \/ Free(t) \/ Use(t) \/ Install(t)
  <2>1. Step(t) /\ Leave(t, Idle(thr[t].self, thr[t].key))
    BY <1>4 DEF Malloc, Free, Use, Install, Step
  <2> QED
    BY <1>i, <2>1, LeaveInPlace
<1>5. CASE Push(t)
  <2>1. thr[t].blk \in Blocks /\ thr[t].blk # none
    BY <1>5, <1>t DEF Push, At, InPlace, ThreadType
  <2>2. block[thr[t].blk].arena \in Arenas
    BY <2>1 DEF Lent
  <2>3. CASE Return(t)
    BY <1>b, <1>i, <2>3 DEF Return
  <2>4. CASE Becomes(t, [thr[t] EXCEPT !.pc = "lock", !.at = block[thr[t].blk].arena])
    BY <1>b, <1>t, <2>1, <2>2, <2>4 DEF InPlace, ThreadType
  <2> QED
    BY <1>5, <2>3, <2>4 DEF Push
<1>6. CASE Size(t)
  <2> DEFINE next == [thr[t] EXCEPT !.pc = "enter", !.op = "remalloc", !.saved = "own", !.at = none]
  <2>1. next \in ThreadType
    BY <1>t DEF ThreadType, PCs, Ops, Names
  <2>2. InPlace(next)
    BY <1>6, <1>t DEF Size, At, InPlace, ThreadType
  <2>3. Step(t) /\ Leave(t, next)
    BY <1>6 DEF Size, Step
  <2> QED
    BY <2>1, <2>2, <2>3, LeaveInPlace
<1>7. CASE Remalloc(t)
  <2> DEFINE next == [thr[t] EXCEPT !.op = "free", !.pc = WayBack(t, thr[t].blk), !.at = none]
  <2>1. WayBack(t, thr[t].blk) \in {"enter", "push"}
    BY DEF WayBack
  <2>2. next \in ThreadType
    BY <1>t, <2>1 DEF ThreadType, PCs, Ops, Names
  <2>3. InPlace(next)
    BY <1>7, <1>t, <2>1 DEF Remalloc, At, InPlace, ThreadType
  <2>4. Step(t) /\ (Leave(t, next) \/ Leave(t, Idle(thr[t].self, thr[t].key)))
    BY <1>7 DEF Remalloc, Step
  <2> QED
    BY <1>i, <2>2, <2>3, <2>4, LeaveInPlace
<1>8. CASE Walk(t) \/ ResetArena(t)
  <2>1. CASE Return(t)
    BY <1>b, <1>i, <2>1 DEF Return
  <2>2. CASE Becomes(t, [thr[t] EXCEPT !.i = @ + 1])
    <3>1. thr[t].pc \in {"walk", "reset"} /\ thr[t].i \in Nat
      BY <1>8, <1>t DEF Walk, ResetArena, At, ThreadType
    <3>2. thr'[t] = [thr[t] EXCEPT !.i = thr[t].i + 1]
      BY <1>b, <2>2
    <3> QED
      BY <1>t, <3>1, <3>2 DEF InPlace, ThreadType
  <2> QED
    BY <1>8, <2>1, <2>2 DEF Walk, ResetArena
<1>9. CASE InitLock(t) \/ InitBegin(t) \/ SetModeBegin(t) \/ MallocBegin(t)
  <2>1. \/ Becomes(t, [thr[t] EXCEPT !.pc = "reset", !.i = 1])
        \/ Becomes(t, [thr[t] EXCEPT !.pc = "init"])
        \/ Becomes(t, [thr[t] EXCEPT !.pc = "walk", !.i = 1])
        \/ Becomes(t, [thr[t] EXCEPT !.pc = "enter", !.op = "malloc"])
    BY <1>9 DEF InitLock, InitBegin, SetModeBegin, MallocBegin, Goto
  <2>2. \/ thr'[t].pc \in {"reset", "walk"} /\ thr'[t].i = 1
        \/ thr'[t].pc = "init"
        \/ thr'[t].pc = "enter" /\ thr'[t].op = "malloc"
    BY <1>b, <1>t, <2>1 DEF ThreadType
  <2> QED
    BY <2>2 DEF InPlace
<1>10. CASE ResetEnd(t)
  <2>1. thr'[t] = [Idle(Main, thr[t].key) EXCEPT !.pc = "enter", !.op = "install"]
    BY <1>10, <1>b DEF ResetEnd
  <2> QED
    BY <2>1 DEF InPlace, Idle
<1>11. CASE OnThreadExit(t) \/ End(t) \/ InitGrowable(t)
  <2>1. \/ Becomes(t, [thr[t] EXCEPT !.key = none])
        \/ Becomes(t, [thr[t] EXCEPT !.self = none])
        \/ Becomes(t, [thr[t] EXCEPT !.self = Main])
    BY <1>11 DEF OnThreadExit, End, InitGrowable
  <2> QED
    BY <1>b, <1>t, <2>1 DEF InPlace, ThreadType
<1>12. ASSUME NEW b \in Blocks, NEW op, NEW pc \in {"enter", "push", "lock"}, Call(t, op, b, pc)
       PROVE  InPlace(thr'[t])
  <2>1. block[b].arena \in Arenas
    BY <1>12 DEF Call, Lent
  <2>2. /\ thr'[t].pc = pc /\ thr'[t].blk = b
        /\ thr'[t].at = IF pc = "lock" THEN block[b].arena ELSE none
    BY <1>12, <1>b, <1>t DEF Call, ThreadType
  <2> QED
    BY <1>12, <2>1, <2>2, ArenasAssumption DEF InPlace
<1>13. ASSUME NEW b \in Blocks, FreeBegin(t, b) \/ UseBegin(t, b) \/ ReallocBegin(t, b)
       PROVE  InPlace(thr'[t])
  BY <1>12, <1>13 DEF FreeBegin, UseBegin, ReallocBegin, WayBack, EnterFor
<1> QED
  BY <1>1, <1>2, <1>3, <1>4, <1>5, <1>6, <1>7, <1>8, <1>9, <1>10, <1>11, <1>13 DEF Step, Begin

\* A step that lends nothing: a block changes only if it is the one its thread
\* gives up, or is neither lent nor, any longer, on a queue.
LEMMA LentKept ==
  ASSUME Types, Types', Lent, NEW t \in Threads, Step(t) \/ Begin(t),
         thr'[t].blk \in {thr[t].blk, none},
         thr'[t].pc \in {"init", "reset"} => \A u \in Threads : thr[u].blk = none,
         \A c \in Arenas : arena'[c].queue \subseteq arena[c].queue,
         \A b \in Blocks :
           \/ block'[b] = block[b]
           \/ /\ block'[b].st # "free" => block'[b].arena \in Arenas
              /\ \/ b = thr[t].blk /\ thr'[t].blk = none
                 \/ block[b].st # "lent" /\ \A c \in Arenas : b \notin arena'[c].queue
  PROVE  Lent'
<1>0. \A u \in Threads : u # t => thr'[u] = thr[u]
  BY OthersStay
<1>q. \A c \in Arenas : arena[c].queue \subseteq Blocks
  BY DEF Types, ArenaType
<1>k. \A u \in Threads : thr[u].blk \in Blocks \cup {none}
  BY DEF Types, ThreadType
<1>1. \A b \in Blocks : block'[b].st # "free" => block'[b].arena \in Arenas
  BY DEF Lent
<1>2. ASSUME NEW u \in Threads, thr'[u].blk # none
      PROVE  block'[thr'[u].blk].st = "lent"
  <2>1. thr'[u].blk = thr[u].blk /\ thr[u].blk \in Blocks
    BY <1>0, <1>2, <1>k
  <2>2. block[thr[u].blk].st = "lent"
    BY <1>2, <2>1 DEF Lent
  <2>3. ~(thr[u].blk = thr[t].blk /\ thr'[t].blk = none)
    BY <1>2, <2>1 DEF Lent
  <2> QED
    BY <2>1, <2>2, <2>3
<1>3. \A u, v \in Threads : thr'[u].blk = thr'[v].blk /\ thr'[u].blk # none => u = v
  BY <1>0 DEF Lent
<1>4. ASSUME NEW c \in Arenas, NEW b \in arena'[c].queue
      PROVE  block'[b].st = "queued" /\ block'[b].arena = c
  <2>1. b \in arena[c].queue /\ b \in Blocks
    BY <1>4, <1>q
  <2>2. block[b].st = "queued" /\ block[b].arena = c
    BY <2>1 DEF Lent
  <2>3. ~(b = thr[t].blk /\ thr'[t].blk = none)
    BY <2>1, <2>2, ArenasAssumption DEF Lent
  <2> QED
    BY <1>4, <2>1, <2>2, <2>3
<1>5. \A u, v \in Threads : thr'[u].pc \in {"init", "reset"} => thr'[v].blk = none
  BY <1>0 DEF Lent
<1> QED
  BY <1>1, <1>2, <1>3, <1>4, <1>5 DEF Lent

\* What a critical section does to queues and claims.
LEMMA SectionQueues ==
  ASSUME Types, Placed, NEW t \in Threads,
         Malloc(t) \/ Free(t) \/ Use(t) \/ Size(t) \/ Remalloc(t) \/ Install(t)
  PROVE  /\ \A c \in Arenas : arena'[c].claimed = arena[c].claimed
         /\ \A c \in Arenas :
              arena'[c].queue = arena[c].queue \/ (c = thr[t].at /\ arena'[c].queue = {})
<1>0. thr[t].at \in Arenas
  BY DEF Malloc, Free, Use, Size, Remalloc, Install, At, Placed, InPlace
<1>1. CASE EmptyQueue(thr[t].at)
  <2>1. /\ \A c \in Arenas : arena'[c].claimed = arena[c].claimed
        /\ \A c \in Arenas : arena'[c].queue = IF c = thr[t].at THEN {} ELSE arena[c].queue
    BY <1>0, <1>1, EmptyQueueType
  <2> QED
    BY <2>1
<1>2. CASE arena' = arena
  <2>1. \A c \in Arenas : arena'[c] = arena[c]
    BY <1>2
  <2> QED
    BY <2>1
<1>3. CASE Install(t)
  <2> DEFINE r == [arena[thr[t].at] EXCEPT !.live = TRUE, !.mode = "managed", !.queue = {}]
  <2>1. r.claimed = arena[thr[t].at].claimed /\ r.queue = {}
    BY <1>0 DEF Types, ArenaType
  <2>2. \A c \in Arenas : arena'[c] = IF c = thr[t].at THEN r ELSE arena[c]
    BY <1>3 DEF Install, Types
  <2> HIDE DEF r
  <2>3. \A c \in Arenas : arena'[c].claimed = arena[c].claimed
    BY <2>1, <2>2
  <2>4. \A c \in Arenas : arena'[c].queue = arena[c].queue \/ (c = thr[t].at /\ arena'[c].queue = {})
    BY <2>1, <2>2
  <2> QED
    BY <2>3, <2>4
<1> QED
  BY <1>1, <1>2, <1>3 DEF Malloc, Free, Use, Size, Remalloc, heapVars

\* Nothing but a free puts a block on a queue.
LEMMA QueuesShrink ==
  ASSUME Types, NEW t \in Threads,
         \/ Enter(t) \/ Acquire(t) \/ Adopt(t) \/ IsEmpty(t) \/ Fill(t) \/ Walk(t)
         \/ InitLock(t) \/ ResetEnd(t) \/ MallocBegin(t) \/ SetModeBegin(t) \/ InitBegin(t)
         \/ OnThreadExit(t) \/ End(t)
  PROVE  \A c \in Arenas : arena'[c].queue \subseteq arena[c].queue
<1>1. CASE Enter(t) \/ Acquire(t) \/ IsEmpty(t) \/ InitLock(t) \/ MallocBegin(t)
           \/ SetModeBegin(t) \/ InitBegin(t) \/ End(t)
  BY <1>1 DEF Enter, Acquire, IsEmpty, InitLock, MallocBegin, SetModeBegin, InitBegin, End,
              heapVars
<1>2. CASE Adopt(t)
  <2>1. ASSUME NEW a, arena' = [arena EXCEPT ![a] = Claimed(a)]
        PROVE  \A c \in Arenas : arena'[c].queue \subseteq arena[c].queue
    <3>1. \A c \in Arenas : Claimed(c).queue \subseteq arena[c].queue
      BY DEF Claimed, Types, ArenaType
    <3> QED
      BY <2>1, <3>1 DEF Types
  <2> QED
    BY <1>2, <2>1 DEF Adopt, AdoptMain, AdoptShared, AdoptOrphan, AdoptNew, Claim, Share
<1>3. CASE Fill(t)
  <2>1. PICK mapped \in BOOLEAN :
          arena' = [arena EXCEPT ![thr[t].at] = Filled(thr[t].at, mapped)]
    BY <1>3 DEF Fill
  <2>2. \A c \in Arenas : Filled(c, mapped).queue = arena[c].queue
    BY DEF Filled, Types, ArenaType
  <2> QED
    BY <2>1, <2>2 DEF Types
<1>4. CASE Walk(t)
  <2>1. \A c \in Arenas : [arena[c] EXCEPT !.mode = modeDefault].queue = arena[c].queue
    BY DEF Types, ArenaType
  <2> QED
    BY <1>4, <2>1 DEF Walk, Types
<1>5. CASE ResetEnd(t)
  <2>1. \A c \in Arenas :
          [arena[c] EXCEPT !.claimed = TRUE, !.epoch = epoch].queue = arena[c].queue
    BY DEF Types, ArenaType
  <2> QED
    BY <1>5, <2>1 DEF ResetEnd, Types
<1>6. CASE OnThreadExit(t)
  <2>1. \A c \in Arenas : [arena[c] EXCEPT !.claimed = FALSE].queue = arena[c].queue
    BY DEF Types, ArenaType
  <2> QED
    BY <1>6, <2>1 DEF OnThreadExit, Types
<1> QED
  BY <1>1, <1>2, <1>3, <1>4, <1>5, <1>6

\* A critical section that starts by draining the queue.
LEMMA DrainLent ==
  ASSUME Types, Types', Lent, NEW t \in Threads, Step(t), NEW a \in Arenas,
         \A c \in Arenas : arena'[c].queue = IF c = a THEN {} ELSE arena[c].queue,
         thr'[t].blk \in {thr[t].blk, none}, thr'[t].pc \notin {"init", "reset"},
         \A b \in Blocks :
           \/ block'[b] = Drained(a)[b]
           \/ /\ b = thr[t].blk /\ thr'[t].blk = none
              /\ block'[b].st # "free" => block'[b].arena \in Arenas
           \/ Drained(a)[b].st = "free" /\ block'[b].arena \in Arenas
  PROVE  Lent'
<1>1. \A c \in Arenas : arena'[c].queue \subseteq arena[c].queue
  OBVIOUS
<1>2. \A b \in Blocks : Drained(a)[b] =
        IF b \in arena[a].queue THEN [st |-> "free", arena |-> none] ELSE block[b]
  BY DrainedType
<1>3. ASSUME NEW b \in Blocks, Drained(a)[b].st = "free", block'[b] # block[b]
      PROVE  block[b].st # "lent" /\ \A c \in Arenas : b \notin arena'[c].queue
  <2>1. CASE b \in arena[a].queue
    BY <2>1 DEF Lent
  <2>2. CASE b \notin arena[a].queue
    BY <1>1, <1>2, <1>3, <2>2 DEF Lent
  <2> QED
    BY <2>1, <2>2
<1>4. ASSUME NEW b \in Blocks, block'[b] # block[b]
      PROVE  /\ block'[b].st # "free" => block'[b].arena \in Arenas
             /\ \/ b = thr[t].blk /\ thr'[t].blk = none
                \/ block[b].st # "lent" /\ \A c \in Arenas : b \notin arena'[c].queue
  <2>1. CASE block'[b] = Drained(a)[b]
    BY <1>2, <1>3, <1>4, <2>1
  <2>2. CASE block'[b] # Drained(a)[b]
    BY <1>3, <1>4, <2>2
  <2> QED
    BY <2>1, <2>2
<1> QED
  BY <1>1, <1>4, LentKept

LEMMA LeaveFields ==
  ASSUME Types, NEW t \in Threads, NEW next \in ThreadType, Leave(t, next)
  PROVE  thr'[t].pc = next.pc /\ thr'[t].blk = next.blk /\ thr'[t].i = next.i
<1>1. thr'[t] = [next EXCEPT !.self = IF thr[t].saved = "own" THEN @ ELSE thr[t].saved]
  BY DEF Leave, Becomes, Types
<1> QED
  BY <1>1 DEF ThreadType

LEMMA LentStep == ASSUME Types, Types', Placed, Lent, Next PROVE Lent'
<1> PICK t \in Threads : Step(t) \/ Begin(t)
  BY DEF Next
<1>0. \A u \in Threads : u # t => thr'[u] = thr[u]
  BY OthersStay
<1>t. thr[t] \in ThreadType /\ InPlace(thr[t])
  BY DEF Types, Placed
<1>b. \A new : Becomes(t, new) => thr'[t] = new
  BY DEF Becomes, Types
<1>i. \A self, key : Idle(self, key).pc = "idle" /\ Idle(self, key).blk = none
  BY DEF Idle
<1>1. CASE \/ Enter(t) \/ Acquire(t) \/ Adopt(t) \/ IsEmpty(t) \/ Fill(t) \/ Walk(t)
           \/ InitLock(t) \/ ResetEnd(t) \/ MallocBegin(t) \/ SetModeBegin(t) \/ InitBegin(t)
           \/ OnThreadExit(t) \/ End(t)
  <2>1. block' = block
    BY <1>1 DEF Enter, Acquire, Adopt, IsEmpty, Fill, Walk, InitLock, ResetEnd, MallocBegin,
                SetModeBegin, InitBegin, OnThreadExit, End, heapVars
  <2>2. /\ thr'[t].blk \in {thr[t].blk, none}
        /\ thr'[t].pc \in {"init", "reset"} => \A u \in Threads : thr[u].blk = none
    <3>1. CASE Enter(t) \/ Acquire(t) \/ IsEmpty(t) \/ Fill(t)
      BY <1>b, <1>t, <3>1 DEF Enter, Acquire, IsEmpty, Fill, Goto, ThreadType
    <3>2. CASE Adopt(t)
      <4>1. \/ \E a : Becomes(t, [thr[t] EXCEPT !.self = a, !.key = a, !.at = a, !.pc = "empty"])
            \/ Becomes(t, [thr[t] EXCEPT !.self = Main, !.at = Main, !.pc = "lock"])
        BY <3>2 DEF Adopt, AdoptMain, AdoptShared, AdoptOrphan, AdoptNew, Claim, Share
      <4> QED
        BY <1>b, <1>t, <4>1 DEF ThreadType
    <3>3. CASE Walk(t)
      <4>1. CASE Return(t)
        BY <1>b, <1>i, <4>1 DEF Return
      <4>2. CASE Becomes(t, [thr[t] EXCEPT !.i = @ + 1])
        <5>1. thr'[t].blk = thr[t].blk /\ thr'[t].pc = thr[t].pc
          BY <1>b, <1>t, <4>2 DEF ThreadType
        <5> QED
          BY <3>3, <5>1 DEF Walk, At
      <4> QED
        BY <3>3, <4>1, <4>2 DEF Walk
    <3>4. CASE InitLock(t)
      <4>1. \A u \in Threads : thr[u].blk = none
        BY <3>4 DEF InitLock, At, Lent
      <4>2. thr'[t].blk = thr[t].blk
        BY <1>b, <1>t, <3>4 DEF InitLock, ThreadType
      <4> QED
        BY <4>1, <4>2
    <3>5. CASE ResetEnd(t)
      <4>1. thr'[t] = [Idle(Main, thr[t].key) EXCEPT !.pc = "enter", !.op = "install"]
        BY <1>b, <3>5 DEF ResetEnd
      <4> QED
        BY <4>1 DEF Idle
    <3>6. CASE MallocBegin(t) \/ SetModeBegin(t)
      BY <1>b, <1>t, <3>6 DEF MallocBegin, SetModeBegin, ThreadType
    <3>7. CASE InitBegin(t)
      BY <1>b, <1>t, <3>7 DEF InitBegin, Goto, ThreadType
    <3>8. CASE OnThreadExit(t) \/ End(t)
      BY <1>b, <1>t, <3>8 DEF OnThreadExit, End, At, ThreadType
    <3> QED
      BY <1>1, <3>1, <3>2, <3>3, <3>4, <3>5, <3>6, <3>7, <3>8
  <2>3. \A c \in Arenas : arena'[c].queue \subseteq arena[c].queue
    BY <1>1, QueuesShrink
  <2> QED
    BY <2>1, <2>2, <2>3, LentKept
<1>j. Idle(thr[t].self, thr[t].key) \in ThreadType
  BY <1>t, IdleType DEF ThreadType
<1>at. At(t, "in") => thr[t].at \in Arenas
  BY <1>t DEF At, InPlace
<1>2. CASE Malloc(t)
  <2>1. Step(t) /\ thr[t].at \in Arenas
    BY <1>2, <1>at DEF Malloc, Step
  <2>2. thr'[t].blk = none /\ thr'[t].pc = "idle"
    BY <1>2, <1>i, <1>j, LeaveFields DEF Malloc
  <2>3. \A c \in Arenas : arena'[c].queue = IF c = thr[t].at THEN {} ELSE arena[c].queue
    BY <1>2, <2>1, EmptyQueueType DEF Malloc
  <2>4. \A b \in Blocks :
          \/ block'[b] = Drained(thr[t].at)[b]
          \/ Drained(thr[t].at)[b].st = "free" /\ block'[b].arena \in Arenas
    <3>1. Drained(thr[t].at) \in [Blocks -> BlockType]
      BY <2>1, DrainedType
    <3>2. block' \in Allocated(thr[t].at, Drained(thr[t].at))
      BY <1>2 DEF Malloc
    <3>3. block' = Drained(thr[t].at) \/ \E b \in Blocks :
             /\ Drained(thr[t].at)[b].st = "free"
             /\ block' = [Drained(thr[t].at) EXCEPT ![b] = [st |-> "held", arena |-> thr[t].at]]
      BY <2>1, <3>1, <3>2, AllocatedType
    <3> QED
      BY <2>1, <3>1, <3>3
  <2> QED
    BY <2>1, <2>2, <2>3, <2>4, DrainLent
<1>3. CASE Free(t)
  <2>1. Step(t) /\ thr[t].at \in Arenas
    BY <1>3, <1>at DEF Free, Step
  <2>2. thr'[t].blk = none /\ thr'[t].pc = "idle"
    BY <1>3, <1>i, <1>j, LeaveFields DEF Free
  <2>3. \A c \in Arenas : arena'[c].queue = IF c = thr[t].at THEN {} ELSE arena[c].queue
    BY <1>3, <2>1, EmptyQueueType DEF Free
  <2>4. \A b \in Blocks :
          block'[b] = Drained(thr[t].at)[b] \/ (b = thr[t].blk /\ block'[b].st = "free")
    <3>1. Drained(thr[t].at) \in [Blocks -> BlockType]
      BY <2>1, DrainedType
    <3> QED
      BY <1>3, <3>1 DEF Free, Freed
  <2> QED
    BY <2>1, <2>2, <2>3, <2>4, DrainLent
<1>4. CASE Use(t)
  <2>1. Step(t) /\ thr[t].at \in Arenas
    BY <1>4, <1>at DEF Use, Step
  <2>2. thr'[t].blk = none /\ thr'[t].pc = "idle"
    BY <1>4, <1>i, <1>j, LeaveFields DEF Use
  <2>3. thr[t].blk \in Blocks => block[thr[t].blk].arena \in Arenas
    BY ArenasAssumption DEF Lent
  <2>4. CASE thr[t].saved = "own"
    <3>1. \A c \in Arenas : arena'[c].queue = IF c = thr[t].at THEN {} ELSE arena[c].queue
      BY <1>4, <2>1, <2>4, EmptyQueueType DEF Use
    <3>2. Drained(thr[t].at) \in [Blocks -> BlockType]
      BY <2>1, DrainedType
    <3>3. block' = Unlent(Drained(thr[t].at), thr[t].blk)
      BY <1>4, <2>4 DEF Use
    <3>4. thr[t].blk \in Blocks => Drained(thr[t].at)[thr[t].blk] = block[thr[t].blk]
      BY <2>1, DrainedType, ArenasAssumption DEF Lent
    <3>5. \A b \in Blocks :
            \/ block'[b] = Drained(thr[t].at)[b]
            \/ b = thr[t].blk /\ block'[b].arena \in Arenas
      BY <2>3, <3>2, <3>3, <3>4 DEF Unlent, BlockType
    <3> QED
      BY <2>1, <2>2, <3>1, <3>5, DrainLent
  <2>5. CASE thr[t].saved # "own"
    <3>1. arena' = arena /\ block' = Unlent(block, thr[t].blk)
      BY <1>4, <2>5 DEF Use
    <3>2. \A c \in Arenas : arena'[c].queue \subseteq arena[c].queue
      BY <3>1
    <3>3. \A b \in Blocks :
            block'[b] = block[b] \/ (b = thr[t].blk /\ block'[b].arena \in Arenas)
      BY <2>3, <3>1 DEF Unlent, Types, BlockType
    <3> QED
      BY <2>2, <3>2, <3>3, LentKept
  <2> QED
    BY <2>4, <2>5
<1>5. CASE Size(t)
  <2> DEFINE next == [thr[t] EXCEPT !.pc = "enter", !.op = "remalloc", !.saved = "own", !.at = none]
  <2>1. next \in ThreadType /\ next.pc = "enter" /\ next.blk = thr[t].blk
    BY <1>t DEF ThreadType, PCs, Ops, Names
  <2>2. Leave(t, next)
    BY <1>5 DEF Size
  <2>3. thr'[t].blk = thr[t].blk /\ thr'[t].pc = "enter"
    BY <2>1, <2>2, LeaveFields
  <2> QED
    BY <1>5, <2>3, LentKept DEF Size, heapVars
<1>6. CASE Remalloc(t)
  <2>1. Step(t) /\ thr[t].at \in Arenas
    BY <1>6, <1>at DEF Remalloc, Step
  <2>2. \A c \in Arenas : arena'[c].queue = IF c = thr[t].at THEN {} ELSE arena[c].queue
    BY <1>6, <2>1, EmptyQueueType DEF Remalloc
  <2>3. Drained(thr[t].at) \in [Blocks -> BlockType]
    BY <2>1, DrainedType
  <2>4. CASE /\ block' = Unlent(Drained(thr[t].at), thr[t].blk)
             /\ Leave(t, Idle(thr[t].self, thr[t].key))
    <3>1. thr'[t].blk = none /\ thr'[t].pc = "idle"
      BY <1>i, <1>j, <2>4, LeaveFields
    <3>2. thr[t].blk \in Blocks => block[thr[t].blk].arena \in Arenas
      BY ArenasAssumption DEF Lent
    <3>3. thr[t].blk \in Blocks => Drained(thr[t].at)[thr[t].blk] = block[thr[t].blk]
      BY <2>1, DrainedType, ArenasAssumption DEF Lent
    <3>4. \A b \in Blocks :
            \/ block'[b] = Drained(thr[t].at)[b]
            \/ b = thr[t].blk /\ block'[b].arena \in Arenas
      BY <2>3, <2>4, <3>2, <3>3 DEF Unlent, BlockType
    <3> QED
      BY <2>1, <2>2, <3>1, <3>4, DrainLent
  <2>5. CASE /\ block' \in Allocated(thr[t].at, Drained(thr[t].at))
             /\ Leave(t, [thr[t] EXCEPT !.op = "free", !.pc = WayBack(t, thr[t].blk), !.at = none])
    <3> DEFINE next == [thr[t] EXCEPT !.op = "free", !.pc = WayBack(t, thr[t].blk), !.at = none]
    <3>1. WayBack(t, thr[t].blk) \in {"enter", "push"}
      BY DEF WayBack
    <3>2. next \in ThreadType /\ next.pc = WayBack(t, thr[t].blk) /\ next.blk = thr[t].blk
      BY <1>t, <3>1 DEF ThreadType, PCs, Ops, Names
    <3>3. thr'[t].blk = thr[t].blk /\ thr'[t].pc \in {"enter", "push"}
      BY <2>5, <3>1, <3>2, LeaveFields
    <3>4. block' = Drained(thr[t].at) \/ \E b \in Blocks :
             /\ Drained(thr[t].at)[b].st = "free"
             /\ block' = [Drained(thr[t].at) EXCEPT ![b] = [st |-> "held", arena |-> thr[t].at]]
      BY <2>1, <2>3, <2>5, AllocatedType
    <3>5. \A b \in Blocks :
            \/ block'[b] = Drained(thr[t].at)[b]
            \/ Drained(thr[t].at)[b].st = "free" /\ block'[b].arena \in Arenas
      BY <2>1, <2>3, <3>4
    <3> QED
      BY <2>1, <2>2, <3>3, <3>5, DrainLent
  <2> QED
    BY <1>6, <2>4, <2>5 DEF Remalloc
<1>7. CASE Install(t)
  <2>1. Step(t) /\ thr[t].at \in Arenas
    BY <1>7, <1>at DEF Install, Step
  <2>2. thr'[t].blk = none /\ thr'[t].pc = "idle"
    BY <1>7, <1>i, <1>j, LeaveFields DEF Install
  <2>3. \A c \in Arenas : arena'[c].queue = IF c = thr[t].at THEN {} ELSE arena[c].queue
    <3>1. \A c \in Arenas :
            [arena[c] EXCEPT !.live = TRUE, !.mode = "managed", !.queue = {}].queue = {}
      BY DEF Types, ArenaType
    <3> QED
      BY <1>7, <3>1 DEF Install, Types
  <2>4. block' = Drained(thr[t].at)
    BY <1>7 DEF Install
  <2> QED
    BY <2>1, <2>2, <2>3, <2>4, DrainLent
<1>8. CASE Push(t)
  <2> DEFINE x == thr[t].blk
             o == block[x].arena
  <2>1. x \in Blocks /\ x # none /\ block[x].st = "lent"
    BY <1>8, <1>t DEF Push, At, InPlace, ThreadType, Lent
  <2>2. o \in Arenas
    BY <2>1 DEF Lent
  <2>3. CASE /\ arena' = [arena EXCEPT ![o].queue = @ \cup {x}]
             /\ block' = [block EXCEPT ![x].st = "queued"]
             /\ Return(t)
    <3>1. thr'[t].blk = none /\ thr'[t].pc = "idle"
      BY <1>b, <1>i, <2>3 DEF Return
    <3>2. /\ \A b \in Blocks : b # x => block'[b] = block[b]
          /\ block'[x].st = "queued" /\ block'[x].arena = o
      BY <2>1, <2>3 DEF Types, BlockType
    <3>3. \A c \in Arenas : arena'[c].queue = IF c = o THEN arena[c].queue \cup {x}
                                                     ELSE arena[c].queue
      <4>1. arena[o].queue \cup {x} \in SUBSET Blocks
        BY <2>1, <2>2 DEF Types, ArenaType
      <4>2. arena' = [arena EXCEPT ![o].queue = arena[o].queue \cup {x}]
        BY <2>2, <2>3 DEF Types
      <4>3. o \in Arenas
        BY <2>2
      <4> HIDE DEF x, o
      <4>4. \A c \in Arenas : arena'[c].queue = IF c = o THEN arena[o].queue \cup {x}
                                                       ELSE arena[c].queue
        BY <4>1, <4>2, <4>3, QueueType
      <4> QED
        BY <4>4
    <3>4. \A c \in Arenas : x \notin arena[c].queue /\ arena[c].queue \subseteq Blocks
      BY <2>1 DEF Lent, Types, ArenaType
    <3>5. \A u \in Threads : u # t => thr[u].blk # x
      BY <2>1 DEF Lent
    <3>6. \A u \in Threads : thr[u].blk \in Blocks \cup {none}
      BY DEF Types, ThreadType
    <3> HIDE DEF x, o
    <3>7. \A b \in Blocks : block'[b].st # "free" => block'[b].arena \in Arenas
      BY <2>2, <3>2 DEF Lent
    <3>8. \A u \in Threads : thr'[u].blk # none => block'[thr'[u].blk].st = "lent"
      BY <1>0, <3>1, <3>2, <3>5, <3>6 DEF Lent
    <3>9. \A u, v \in Threads : thr'[u].blk = thr'[v].blk /\ thr'[u].blk # none => u = v
      BY <1>0, <3>1 DEF Lent
    <3>10. ASSUME NEW c \in Arenas, NEW b \in arena'[c].queue
           PROVE  block'[b].st = "queued" /\ block'[b].arena = c
      <4>1. CASE b = x
        BY <3>2, <3>3, <3>4, <4>1
      <4>2. CASE b # x
        <5>1. b \in arena[c].queue /\ b \in Blocks
          BY <3>3, <3>4, <4>2
        <5> QED
          BY <3>2, <4>2, <5>1 DEF Lent
      <4> QED
        BY <4>1, <4>2
    <3>11. \A u, v \in Threads : thr'[u].pc \in {"init", "reset"} => thr'[v].blk = none
      BY <1>0, <3>1 DEF Lent
    <3> QED
      BY <3>7, <3>8, <3>9, <3>10, <3>11 DEF Lent
  <2>4. CASE /\ Becomes(t, [thr[t] EXCEPT !.pc = "lock", !.at = o])
             /\ UNCHANGED heapVars
    <3>1. thr'[t].blk = thr[t].blk /\ thr'[t].pc = "lock"
      BY <1>b, <1>t, <2>4 DEF ThreadType
    <3>2. block' = block /\ arena' = arena
      BY <2>4 DEF heapVars
    <3> QED
      BY <3>1, <3>2, LentKept
  <2> QED
    BY <1>8, <2>3, <2>4 DEF Push
<1>9. CASE ResetArena(t) \/ InitGrowable(t)
  <2>1. \A u \in Threads : thr[u].blk = none
    <3>1. CASE ResetArena(t)
      BY <3>1 DEF ResetArena, At, Lent
    <3>2. CASE InitGrowable(t)
      BY <3>2 DEF InitGrowable, At, Placed, InPlace
    <3> QED
      BY <1>9, <3>1, <3>2
  <2>2. thr'[t].blk = thr[t].blk
    BY <1>9, <1>b, <1>t DEF ResetArena, InitGrowable, ThreadType
  <2>3. PICK S \in SUBSET Arenas :
          /\ \A c \in Arenas : arena'[c].queue = IF c \in S THEN {} ELSE arena[c].queue
          /\ \A b \in Blocks : IF block[b].arena \in S THEN block'[b].st = "free"
                               ELSE block'[b] = block[b] \/ block'[b].st = "free"
          /\ \A b \in Blocks : block'[b] # block[b] => S = Arenas \/ block[b].arena \in S
    <3>d. \A c \in Arenas : Discard(c).queue = {}
      BY DEF Discard, Types, ArenaType
    <3>1. CASE ResetArena(t)
      <4> DEFINE a == listed[thr[t].i]
      <4>1. a \in Arenas
        BY <1>t, <3>1 DEF ResetArena, At, InPlace, Types, ThreadType
      <4>2. Emptied({a})
        BY <3>1 DEF ResetArena
      <4> HIDE DEF a
      <4>3. \A c \in Arenas : arena'[c].queue = IF c \in {a} THEN {} ELSE arena[c].queue
        BY <3>d, <4>2 DEF Emptied
      <4>4. \A b \in Blocks : block'[b] = IF block[b].arena \in {a}
                                          THEN [st |-> "free", arena |-> none] ELSE block[b]
        BY <4>2 DEF Emptied
      <4>5. /\ \A b \in Blocks : IF block[b].arena \in {a} THEN block'[b].st = "free"
                                 ELSE block'[b] = block[b] \/ block'[b].st = "free"
            /\ \A b \in Blocks : block'[b] # block[b] => {a} = Arenas \/ block[b].arena \in {a}
        BY <4>4
      <4> QED
        BY <4>1, <4>3, <4>5
    <3>2. CASE InitGrowable(t)
      <4>1. \A c \in Arenas : arena'[c].queue = {}
        <5>1. PICK mapped \in BOOLEAN : arena' = [a \in Arenas |->
                IF a = Main
                THEN [arena[a] EXCEPT !.live = mapped, !.growable = mapped, !.queue = {},
                                      !.claimed = TRUE, !.epoch = epoch + 1, !.mode = "managed"]
                ELSE Discard(a)]
          BY <3>2 DEF InitGrowable
        <5>2. \A c \in Arenas :
                [arena[c] EXCEPT !.live = mapped, !.growable = mapped, !.queue = {},
                                 !.claimed = TRUE, !.epoch = epoch + 1, !.mode = "managed"].queue
                  = {}
          BY DEF Types, ArenaType
        <5> QED
          BY <3>d, <5>1, <5>2
      <4>2. \A b \in Blocks : block'[b].st = "free"
        BY <3>2 DEF InitGrowable
      <4> QED
        BY <4>1, <4>2
    <3> QED
      BY <1>9, <3>1, <3>2
  <2>4. ASSUME NEW b \in Blocks, block'[b] # block[b]
        PROVE  /\ block'[b].st = "free"
               /\ \A c \in Arenas : b \notin arena'[c].queue
    BY <2>3, <2>4 DEF Lent
  <2>5. \A c \in Arenas : arena'[c].queue \subseteq arena[c].queue
    BY <2>3
  <2>6. \A b \in Blocks : block'[b].st # "free" => block'[b].arena \in Arenas
    BY <2>4 DEF Lent
  <2>7. \A u \in Threads : thr'[u].blk = none
    BY <1>0, <2>1, <2>2
  <2>8. ASSUME NEW c \in Arenas, NEW b \in arena'[c].queue
        PROVE  block'[b].st = "queued" /\ block'[b].arena = c
    <3>1. b \in arena[c].queue /\ b \in Blocks
      BY <2>5 DEF Types, ArenaType
    <3>2. block'[b] = block[b]
      BY <2>4, <2>8, <3>1
    <3> QED
      BY <3>1, <3>2 DEF Lent
  <2> QED
    BY <2>6, <2>7, <2>8 DEF Lent
<1>10. ASSUME NEW b \in Blocks, NEW op, NEW pc \in {"enter", "push", "lock"}, Call(t, op, b, pc)
       PROVE  Lent'
  <2>1. thr'[t].pc = pc /\ thr'[t].blk = b
    BY <1>10, <1>b, <1>t DEF Call, ThreadType
  <2>2. /\ \A c \in Blocks : c # b => block'[c] = block[c]
        /\ block'[b].st = "lent" /\ block'[b].arena = block[b].arena
    BY <1>10 DEF Call, Types, BlockType
  <2>3. block[b].st = "held" /\ arena' = arena
    BY <1>10 DEF Call
  <2>4. \A u \in Threads : thr[u].pc \notin {"init", "reset"}
    BY <1>10 DEF Call, Resetting
  <2>5. \A u \in Threads : thr[u].blk \in Blocks \cup {none}
    BY DEF Types, ThreadType
  <2>6. \A c \in Arenas : arena[c].queue \subseteq Blocks
    BY DEF Types, ArenaType
  <2>7. \A u \in Threads : thr[u].blk # none => thr[u].blk # b
    BY <2>3 DEF Lent
  <2>8. \A c \in Blocks : block'[c].st # "free" => block'[c].arena \in Arenas
    BY <2>2, <2>3 DEF Lent
  <2>9. \A u \in Threads : thr'[u].blk # none => block'[thr'[u].blk].st = "lent"
    BY <1>0, <2>1, <2>2, <2>5 DEF Lent
  <2>10. \A u, v \in Threads : thr'[u].blk = thr'[v].blk /\ thr'[u].blk # none => u = v
    BY <1>0, <2>1, <2>7 DEF Lent
  <2>11. \A c \in Arenas : \A d \in arena'[c].queue :
           block'[d].st = "queued" /\ block'[d].arena = c
    BY <2>2, <2>3, <2>6 DEF Lent
  <2>12. \A u, v \in Threads : thr'[u].pc \in {"init", "reset"} => thr'[v].blk = none
    BY <1>0, <2>1, <2>4
  <2> QED
    BY <2>8, <2>9, <2>10, <2>11, <2>12 DEF Lent
<1>11. ASSUME NEW b \in Blocks, FreeBegin(t, b) \/ UseBegin(t, b) \/ ReallocBegin(t, b)
       PROVE  Lent'
  BY <1>10, <1>11 DEF FreeBegin, UseBegin, ReallocBegin, WayBack, EnterFor
<1> QED
  BY <1>1, <1>2, <1>3, <1>4, <1>5, <1>6, <1>7, <1>8, <1>9, <1>11 DEF Step, Begin

-------------------------------------------------------------------------------
(***************************************************************************)
(* The pool.                                                               *)
(***************************************************************************)

\* A reset begins with the list lock and ends by giving it back.
LEMMA ResetsStep == ASSUME Types, Locks, Resets, Next PROVE Resets'
<1> PICK t \in Threads : Step(t) \/ Begin(t)
  BY DEF Next
<1>0. \A u \in Threads : u # t => thr'[u] = thr[u]
  BY OthersStay
<1>t. thr[t] \in ThreadType
  BY DEF Types
<1>b. \A new : Becomes(t, new) => thr'[t] = new
  BY DEF Becomes, Types
<1>i. \A self, key : Idle(self, key).pc = "idle"
  BY DEF Idle
<1>j. Idle(thr[t].self, thr[t].key) \in ThreadType
  BY <1>t, IdleType DEF ThreadType
<1>k. ASSUME thr'[t].pc # "reset", listlock' = listlock
      PROVE  Resets'
  BY <1>0, <1>k DEF Resets
<1>1. CASE InitLock(t)
  BY <1>0, <1>1, ArenasAssumption DEF InitLock, Resets
<1>2. CASE ResetArena(t)
  BY <1>0, <1>2 DEF ResetArena, At, Resets
<1>3. CASE ResetEnd(t)
  <2>1. thr'[t] = [Idle(Main, thr[t].key) EXCEPT !.pc = "enter", !.op = "install"]
    BY <1>3, <1>b DEF ResetEnd
  <2>2. thr'[t].pc = "enter"
    BY <2>1 DEF Idle
  <2> QED
    BY <1>0, <1>3, <2>2 DEF ResetEnd, At, Resets
<1>4. CASE Enter(t) \/ Acquire(t) \/ IsEmpty(t) \/ Fill(t)
  BY <1>4, <1>b, <1>k, <1>t DEF Enter, Acquire, IsEmpty, Fill, Goto, ThreadType
<1>5. CASE Adopt(t)
  <2>1. \/ \E a : Becomes(t, [thr[t] EXCEPT !.self = a, !.key = a, !.at = a, !.pc = "empty"])
        \/ Becomes(t, [thr[t] EXCEPT !.self = Main, !.at = Main, !.pc = "lock"])
    BY <1>5 DEF Adopt, AdoptMain, AdoptShared, AdoptOrphan, AdoptNew, Claim, Share
  <2>2. thr'[t].pc # "reset"
    BY <1>b, <1>t, <2>1 DEF ThreadType
  <2> QED
    BY <1>5, <1>k, <2>2 DEF Adopt
<1>6. CASE Malloc(t) \/ Free(t) \/ Use(t) \/ Install(t)
  <2>1. Leave(t, Idle(thr[t].self, thr[t].key))
    BY <1>6 DEF Malloc, Free, Use, Install
  <2>2. thr'[t].pc = "idle"
    BY <1>i, <1>j, <2>1, LeaveFields
  <2> QED
    BY <1>k, <2>1, <2>2 DEF Leave
<1>7. CASE Size(t)
  <2> DEFINE next == [thr[t] EXCEPT !.pc = "enter", !.op = "remalloc", !.saved = "own", !.at = none]
  <2>1. next \in ThreadType /\ next.pc = "enter"
    BY <1>t DEF ThreadType, PCs, Ops, Names
  <2>2. Leave(t, next)
    BY <1>7 DEF Size
  <2>3. thr'[t].pc = "enter"
    BY <2>1, <2>2, LeaveFields
  <2> QED
    BY <1>k, <2>2, <2>3 DEF Leave
<1>8. CASE Remalloc(t)
  <2> DEFINE next == [thr[t] EXCEPT !.op = "free", !.pc = WayBack(t, thr[t].blk), !.at = none]
  <2>1. WayBack(t, thr[t].blk) \in {"enter", "push"}
    BY DEF WayBack
  <2>2. next \in ThreadType /\ next.pc = WayBack(t, thr[t].blk)
    BY <1>t, <2>1 DEF ThreadType, PCs, Ops, Names
  <2>3. Leave(t, next) \/ Leave(t, Idle(thr[t].self, thr[t].key))
    BY <1>8 DEF Remalloc
  <2>4. Leave(t, next) => thr'[t].pc # "reset"
    BY <2>1, <2>2, LeaveFields
  <2>5. Leave(t, Idle(thr[t].self, thr[t].key)) => thr'[t].pc # "reset"
    BY <1>i, <1>j, LeaveFields
  <2> QED
    BY <1>k, <2>3, <2>4, <2>5 DEF Leave
<1>9. CASE Push(t)
  <2>1. CASE Return(t)
    BY <1>9, <1>b, <1>i, <1>k, <2>1 DEF Push, Return
  <2>2. CASE Becomes(t, [thr[t] EXCEPT !.pc = "lock", !.at = block[thr[t].blk].arena])
    BY <1>9, <1>b, <1>k, <1>t, <2>2 DEF Push, ThreadType
  <2> QED
    BY <1>9, <2>1, <2>2 DEF Push
<1>10. CASE Walk(t)
  <2>1. CASE Return(t)
    BY <1>10, <1>b, <1>i, <1>k, <2>1 DEF Walk, Return
  <2>2. CASE Becomes(t, [thr[t] EXCEPT !.i = @ + 1])
    <3>1. thr'[t].pc = thr[t].pc
      BY <1>b, <1>t, <2>2 DEF ThreadType
    <3> QED
      BY <1>10, <1>k, <3>1 DEF Walk, At
  <2> QED
    BY <1>10, <2>1, <2>2 DEF Walk
<1>11. CASE MallocBegin(t) \/ SetModeBegin(t) \/ InitBegin(t)
  BY <1>11, <1>b, <1>k, <1>t DEF MallocBegin, SetModeBegin, InitBegin, Goto, ThreadType
<1>12. CASE OnThreadExit(t) \/ End(t) \/ InitGrowable(t)
  <2>1. \/ Becomes(t, [thr[t] EXCEPT !.key = none])
        \/ Becomes(t, [thr[t] EXCEPT !.self = none])
        \/ Becomes(t, [thr[t] EXCEPT !.self = Main])
    BY <1>12 DEF OnThreadExit, End, InitGrowable
  <2>2. thr'[t].pc = thr[t].pc
    BY <1>b, <1>t, <2>1 DEF ThreadType
  <2> QED
    BY <1>12, <1>k, <2>2 DEF OnThreadExit, End, InitGrowable, At
<1>13. ASSUME NEW b \in Blocks, NEW op, NEW pc \in {"enter", "push", "lock"}, Call(t, op, b, pc)
       PROVE  Resets'
  BY <1>13, <1>b, <1>k, <1>t DEF Call, ThreadType
<1>14. ASSUME NEW b \in Blocks, FreeBegin(t, b) \/ UseBegin(t, b) \/ ReallocBegin(t, b)
       PROVE  Resets'
  BY <1>13, <1>14 DEF FreeBegin, UseBegin, ReallocBegin, WayBack, EnterFor
<1> QED
  BY <1>1, <1>2, <1>3, <1>4, <1>5, <1>6, <1>7, <1>8, <1>9, <1>10, <1>11, <1>12, <1>14
  DEF Step, Begin

\* A step that touches neither the list, nor the pool, nor a claim.
LEMMA PoolKept ==
  ASSUME Types, Locks, ListExact, Discarded, PoolExact, NEW t \in Threads, Step(t) \/ Begin(t),
         thr[t].pc # "reset", UNCHANGED <<listed, orphans, listlock>>,
         \A c \in Arenas : arena'[c].claimed = arena[c].claimed
  PROVE  ListExact' /\ Discarded' /\ PoolExact'
<1>0. \A u \in Threads : u # t => thr'[u] = thr[u]
  BY OthersStay
<1>1. \A i \in DOMAIN listed : listed[i] \in Arenas
  BY DEF Types
<1>2. ListExact'
  BY DEF ListExact
<1>3. Discarded'
  <2>1. listlock # none => thr'[listlock] = thr[listlock]
    BY <1>0 DEF Locks, Types
  <2> QED
    BY <1>1, <2>1 DEF Discarded
<1>4. PoolExact'
  <2>1. \A i \in 2 .. Len(listed) : listed[i] \in Arenas
    BY DEF Types
  <2> QED
    BY <2>1 DEF PoolExact
<1> QED
  BY <1>2, <1>3, <1>4

\* The claims after an adoption.
LEMMA ClaimClaims ==
  ASSUME Types, NEW t \in Threads, NEW a \in Arenas, Claim(t, a)
  PROVE  /\ arena'[a].claimed
         /\ \A c \in Arenas : c # a => arena'[c].claimed = arena[c].claimed
<1>1. Claimed(a).claimed
  BY DEF Claimed, Types, ArenaType
<1>2. arena'[a] = Claimed(a) /\ \A c \in Arenas : c # a => arena'[c] = arena[c]
  BY DEF Claim, Types
<1> QED
  BY <1>1, <1>2

\* An arena is made or taken from the pool.
LEMMA AdoptPool ==
  ASSUME Types, ListExact, PoolExact, NEW t \in Threads, Adopt(t)
  PROVE  ListExact' /\ PoolExact' /\ listlock' = none
<1>0. listlock = none /\ listlock' = none
  BY DEF Adopt
<1>m. Main \in Arenas /\ Extra \subseteq Arenas
  BY DEF Arenas
<1>l. /\ \A i \in DOMAIN listed : listed[i] \in Arenas
      /\ \A i \in 2 .. Len(listed) : i \in DOMAIN listed /\ listed[i] # Main
      /\ 1 \in DOMAIN listed
  BY DEF Types, ListExact
<1>p. PoolExact!2
  BY <1>0 DEF PoolExact
<1>1. CASE AdoptMain(t)
  <2>1. /\ arena'[Main].claimed /\ listed' = listed /\ orphans' = orphans
        /\ \A c \in Arenas : c # Main => arena'[c].claimed = arena[c].claimed
    BY <1>1, <1>m, ClaimClaims DEF AdoptMain
  <2>2. ListExact'
    BY <1>l, <2>1 DEF ListExact
  <2>3. PoolExact'
    BY <1>l, <1>p, <2>1 DEF PoolExact
  <2> QED
    BY <1>0, <2>2, <2>3
<1>2. CASE Share(t)
  <2>1. arena' = arena /\ listed' = listed /\ orphans' = orphans
    BY <1>2 DEF Share
  <2> QED
    BY <1>0, <2>1 DEF ListExact, PoolExact
<1>3. CASE AdoptOrphan(t)
  <2> DEFINE a == Head(orphans)
  <2>1. orphans # <<>> /\ orphans \in Seq(Arenas) /\ orphans' = Tail(orphans) /\ listed' = listed
    BY <1>3 DEF AdoptOrphan, Types
  <2>2. a \in Arenas /\ a \in Extra /\ a = orphans[1] /\ 1 \in DOMAIN orphans
    BY <1>p, <2>1
  <2>3. /\ arena'[a].claimed
        /\ \A c \in Arenas : c # a => arena'[c].claimed = arena[c].claimed
    BY <1>3, <2>2, ClaimClaims DEF AdoptOrphan
  <2>4. /\ DOMAIN orphans' = 1 .. Len(orphans) - 1
        /\ \A j \in DOMAIN orphans' : orphans'[j] = orphans[j + 1] /\ j + 1 \in DOMAIN orphans
        /\ \A j \in DOMAIN orphans : j # 1 => j - 1 \in DOMAIN orphans' /\ orphans[j] = orphans'[j - 1]
    BY <2>1
  <2>5. PICK k \in DOMAIN listed : listed[k] = a
    BY <2>2 DEF ListExact
  <2> HIDE DEF a
  <2>6. ListExact'
    <3>1. \A j \in DOMAIN orphans' : \E i \in DOMAIN listed : listed[i] = orphans'[j]
      BY <2>4 DEF ListExact
    <3>2. \A c \in Arenas : arena'[c].claimed => \E i \in DOMAIN listed : listed[i] = c
      BY <2>3, <2>5 DEF ListExact
    <3> QED
      BY <2>1, <3>1, <3>2 DEF ListExact
  <2>7. \A i, j \in DOMAIN orphans' : orphans'[i] = orphans'[j] => i = j
    <3> TAKE i, j \in DOMAIN orphans'
    <3> HAVE orphans'[i] = orphans'[j]
    <3>1. i + 1 = j + 1
      BY <1>p, <2>4
    <3> QED
      BY <2>4, <3>1
  <2>8. \A j \in DOMAIN orphans' : orphans'[j] \in Extra /\ orphans'[j] # a
    <3> TAKE j \in DOMAIN orphans'
    <3>1. j + 1 # 1 /\ j + 1 \in DOMAIN orphans
      BY <2>4
    <3> QED
      BY <1>p, <2>2, <2>4, <3>1
  <2>9. ASSUME NEW i \in 2 .. Len(listed)
        PROVE  arena'[listed[i]].claimed <=> \A j \in DOMAIN orphans' : orphans'[j] # listed[i]
    <3>1. CASE listed[i] = a
      BY <2>3, <2>8, <3>1
    <3>2. CASE listed[i] # a
      <4>1. arena'[listed[i]].claimed = arena[listed[i]].claimed
        BY <1>l, <2>3, <3>2
      <4>2. (\A j \in DOMAIN orphans : orphans[j] # listed[i])
              <=> \A j \in DOMAIN orphans' : orphans'[j] # listed[i]
        BY <2>2, <2>4, <3>2
      <4> QED
        BY <1>p, <4>1, <4>2
    <3> QED
      BY <3>1, <3>2
  <2> QED
    BY <1>0, <2>1, <2>6, <2>7, <2>8, <2>9 DEF PoolExact
<1>4. CASE AdoptNew(t) /\ ~Share(t)
  <2>1. PICK a \in Extra \ {listed[i] : i \in DOMAIN listed} :
          Claim(t, a) /\ listed' = Append(listed, a) /\ orphans' = orphans
    BY <1>4 DEF AdoptNew
  <2>2. orphans = <<>> /\ a \in Arenas /\ listed \in Seq(Arenas)
    BY <1>4, <1>m DEF AdoptNew, Types
  <2>3. /\ arena'[a].claimed
        /\ \A c \in Arenas : c # a => arena'[c].claimed = arena[c].claimed
    BY <2>1, <2>2, ClaimClaims
  <2>4. /\ Len(listed') = Len(listed) + 1 /\ DOMAIN listed' = 1 .. Len(listed) + 1
        /\ DOMAIN listed = 1 .. Len(listed) /\ Len(listed) \in Nat
        /\ \A i \in DOMAIN listed : listed'[i] = listed[i] /\ listed[i] # a
        /\ listed'[Len(listed) + 1] = a
    BY <2>1, <2>2
  <2>5. \A i \in DOMAIN listed' : i \in DOMAIN listed \/ i = Len(listed) + 1
    BY <2>4
  <2>6. \A i \in DOMAIN listed : i \in DOMAIN listed'
    BY <2>4
  <2>7. ListExact'
    <3>1. listed'[1] = Main
      BY <1>l, <2>4 DEF ListExact
    <3>2. \A i, j \in DOMAIN listed' : listed'[i] = listed'[j] => i = j
      BY <2>4, <2>5 DEF ListExact
    <3>3. \A c \in Arenas : arena'[c].claimed => \E i \in DOMAIN listed' : listed'[i] = c
      <4> TAKE c \in Arenas
      <4> HAVE arena'[c].claimed
      <4>1. CASE c = a
        BY <2>4, <4>1
      <4>2. CASE c # a
        <5>1. PICK i \in DOMAIN listed : listed[i] = c
          BY <2>3, <4>2 DEF ListExact
        <5> QED
          BY <2>4, <2>6, <5>1
      <4> QED
        BY <4>1, <4>2
    <3>4. DOMAIN orphans' = {}
      BY <2>1, <2>2
    <3> QED
      BY <3>1, <3>2, <3>3, <3>4 DEF ListExact
  <2>8. PoolExact'
    <3>1. DOMAIN orphans = {} /\ DOMAIN orphans' = {}
      BY <2>1, <2>2
    <3>2. ASSUME NEW i \in 2 .. Len(listed')
          PROVE  arena'[listed'[i]].claimed
      <4>1. CASE i = Len(listed) + 1
        BY <2>3, <2>4, <4>1
      <4>2. CASE i # Len(listed) + 1
        <5>1. i \in 2 .. Len(listed) /\ i \in DOMAIN listed
          BY <2>4, <4>2
        <5>2. arena[listed[i]].claimed
          BY <1>p, <3>1, <5>1
        <5>3. listed'[i] = listed[i] /\ listed[i] \in Arenas /\ listed[i] # a
          BY <1>l, <2>4, <5>1
        <5> QED
          BY <2>3, <5>2, <5>3
      <4> QED
        BY <4>1, <4>2
    <3> QED
      BY <3>1, <3>2 DEF PoolExact
  <2> QED
    BY <1>0, <2>7, <2>8
<1> QED
  BY <1>1, <1>2, <1>3, <1>4 DEF Adopt, AdoptShared

\* A thread gives its arena back.
LEMMA ExitPool ==
  ASSUME Types, ListExact, PoolExact, NEW t \in Threads, OnThreadExit(t)
  PROVE  ListExact' /\ PoolExact' /\ listlock' = none
<1> DEFINE a == thr[t].key
<1>0. listlock = none /\ listlock' = none /\ listed' = listed
  BY DEF OnThreadExit
<1>1. a \in Arenas
  BY DEF OnThreadExit, Types, ThreadType, Names
<1>l. \A i \in 2 .. Len(listed) : i \in DOMAIN listed /\ listed[i] \in Arenas
  BY DEF Types
<1>p. PoolExact!2
  BY <1>0 DEF PoolExact
<1>2. CASE UNCHANGED <<arena, orphans>>
  BY <1>0, <1>2 DEF ListExact, PoolExact
<1>3. CASE /\ a # Main /\ arena[a].claimed
           /\ arena' = [arena EXCEPT ![a].claimed = FALSE]
           /\ orphans' = <<a>> \o orphans
  <2>1. [arena[a] EXCEPT !.claimed = FALSE].claimed = FALSE
    BY <1>1 DEF Types, ArenaType
  <2>2. /\ arena'[a] = [arena[a] EXCEPT !.claimed = FALSE]
        /\ \A c \in Arenas : c # a => arena'[c] = arena[c]
    BY <1>1, <1>3 DEF Types
  <2>3. ~arena'[a].claimed /\ \A c \in Arenas : c # a => arena'[c].claimed = arena[c].claimed
    BY <2>1, <2>2
  <2>4. PICK k \in DOMAIN listed : listed[k] = a
    BY <1>1, <1>3 DEF ListExact
  <2>5. k \in 2 .. Len(listed)
    <3>1. k # 1
      BY <1>3, <2>4 DEF ListExact
    <3> QED
      BY <3>1 DEF Types
  <2>6. \A j \in DOMAIN orphans : orphans[j] # a
    BY <1>3, <1>p, <2>4, <2>5
  <2>7. orphans \in Seq(Arenas) /\ orphans' = <<a>> \o orphans /\ a \in Extra
    BY <1>1, <1>3 DEF Types, Arenas
  <2> HIDE DEF a
  <2>8. /\ DOMAIN orphans = 1 .. Len(orphans) /\ Len(orphans) \in Nat
        /\ DOMAIN orphans' = 1 .. Len(orphans) + 1 /\ orphans'[1] = a
        /\ \A j \in DOMAIN orphans : orphans'[j + 1] = orphans[j]
    BY <2>7
  <2>9. /\ \A j \in DOMAIN orphans' : j = 1 \/ (j - 1 \in DOMAIN orphans /\ orphans'[j] = orphans[j - 1])
        /\ \A j \in DOMAIN orphans : j + 1 \in DOMAIN orphans'
    BY <2>8
  <2>10. \A i, j \in DOMAIN orphans' : orphans'[i] = orphans'[j] => i = j
    <3> TAKE i, j \in DOMAIN orphans'
    <3> HAVE orphans'[i] = orphans'[j]
    <3>1. CASE i = 1 \/ j = 1
      BY <2>6, <2>8, <2>9, <3>1
    <3>2. CASE i # 1 /\ j # 1
      <4>1. i - 1 = j - 1
        BY <1>p, <2>9, <3>2
      <4> QED
        BY <2>8, <4>1
    <3> QED
      BY <3>1, <3>2
  <2>11. \A j \in DOMAIN orphans' : orphans'[j] \in Extra
    BY <1>p, <2>7, <2>8, <2>9
  <2>12. ASSUME NEW i \in 2 .. Len(listed)
         PROVE  arena'[listed[i]].claimed <=> \A j \in DOMAIN orphans' : orphans'[j] # listed[i]
    <3>1. CASE listed[i] = a
      BY <2>3, <2>8, <3>1
    <3>2. CASE listed[i] # a
      <4>1. arena'[listed[i]].claimed = arena[listed[i]].claimed
        BY <1>l, <2>3, <3>2
      <4>2. (\A j \in DOMAIN orphans : orphans[j] # listed[i])
              <=> \A j \in DOMAIN orphans' : orphans'[j] # listed[i]
        BY <2>8, <2>9, <3>2
      <4> QED
        BY <1>p, <4>1, <4>2
    <3> QED
      BY <3>1, <3>2
  <2>13. ListExact'
    <3>1. \A c \in Arenas : arena'[c].claimed => \E i \in DOMAIN listed : listed[i] = c
      BY <2>3 DEF ListExact
    <3>2. \A j \in DOMAIN orphans' : \E i \in DOMAIN listed : listed[i] = orphans'[j]
      BY <2>4, <2>8, <2>9 DEF ListExact
    <3> QED
      BY <1>0, <3>1, <3>2 DEF ListExact
  <2> QED
    BY <1>0, <2>10, <2>11, <2>12, <2>13 DEF PoolExact
<1> QED
  BY <1>2, <1>3 DEF OnThreadExit

\* Initialisation leaves the main arena claimed and every other in the pool.
LEMMA RestartPool ==
  ASSUME Types, ListExact, listed' = listed, orphans' = Tail(listed), arena'[Main].claimed,
         \A c \in Arenas : c # Main => ~arena'[c].claimed
  PROVE  ListExact' /\ PoolExact'
<1>1. /\ listed \in Seq(Arenas) /\ listed # <<>> /\ Len(listed) \in Nat
      /\ DOMAIN listed = 1 .. Len(listed)
  BY DEF Types
<1>2. DOMAIN orphans' = 1 .. Len(listed) - 1 /\ \A j \in DOMAIN orphans' : orphans'[j] = listed[j + 1]
  BY <1>1
<1>3. /\ \A j \in DOMAIN orphans' : j + 1 \in DOMAIN listed /\ j + 1 # 1
      /\ \A i \in 2 .. Len(listed) : i - 1 \in DOMAIN orphans' /\ orphans'[i - 1] = listed[i]
  BY <1>1, <1>2
<1>4. /\ 1 \in DOMAIN listed /\ listed[1] = Main
      /\ \A i \in DOMAIN listed : i # 1 => listed[i] \in Extra /\ listed[i] # Main
      /\ \A i \in 2 .. Len(listed) : i \in DOMAIN listed /\ i # 1
  BY <1>1 DEF ListExact, Arenas
<1>5. ListExact'
  <2>1. \A j \in DOMAIN orphans' : \E i \in DOMAIN listed : listed[i] = orphans'[j]
    BY <1>2, <1>3
  <2>2. \A c \in Arenas : arena'[c].claimed => \E i \in DOMAIN listed : listed[i] = c
    BY <1>4
  <2> QED
    BY <2>1, <2>2 DEF ListExact
<1>6. \A i, j \in DOMAIN orphans' : orphans'[i] = orphans'[j] => i = j
  <2> TAKE i, j \in DOMAIN orphans'
  <2> HAVE orphans'[i] = orphans'[j]
  <2>1. i + 1 = j + 1
    BY <1>2, <1>3 DEF ListExact
  <2> QED
    BY <1>2, <2>1
<1>7. \A j \in DOMAIN orphans' : orphans'[j] \in Extra
  BY <1>2, <1>3, <1>4
<1>8. \A i \in 2 .. Len(listed) : listed[i] \in Arenas /\ ~arena'[listed[i]].claimed
  BY <1>4 DEF Arenas
<1>9. \A i \in 2 .. Len(listed) : ~\A j \in DOMAIN orphans' : orphans'[j] # listed[i]
  BY <1>3
<1> QED
  BY <1>5, <1>6, <1>7, <1>8, <1>9 DEF PoolExact

\* The claims of most steps are those of the step before.
LEMMA ClaimsKept ==
  ASSUME Types, Placed, NEW t \in Threads,
         \/ Enter(t) \/ Acquire(t) \/ IsEmpty(t) \/ Fill(t) \/ Walk(t) \/ Push(t) \/ InitLock(t)
         \/ MallocBegin(t) \/ SetModeBegin(t) \/ InitBegin(t) \/ End(t)
  PROVE  \A c \in Arenas : arena'[c].claimed = arena[c].claimed
<1>1. CASE arena' = arena
  BY <1>1
<1>2. CASE Fill(t)
  <2>1. PICK mapped \in BOOLEAN :
          arena' = [arena EXCEPT ![thr[t].at] = Filled(thr[t].at, mapped)]
    BY <1>2 DEF Fill
  <2>2. \A c \in Arenas : Filled(c, mapped).claimed = arena[c].claimed
    BY DEF Filled, Types, ArenaType
  <2> QED
    BY <2>1, <2>2 DEF Types
<1>3. CASE Walk(t)
  <2>1. \A c \in Arenas : [arena[c] EXCEPT !.mode = modeDefault].claimed = arena[c].claimed
    BY DEF Types, ArenaType
  <2> QED
    BY <1>3, <2>1 DEF Walk, Types
<1>4. CASE Push(t)
  <2>1. \A c \in Arenas :
          [arena[c] EXCEPT !.queue = @ \cup {thr[t].blk}].claimed = arena[c].claimed
    BY DEF Types, ArenaType
  <2> QED
    BY <1>1, <1>4, <2>1 DEF Push, Types, heapVars
<1> QED
  BY <1>1, <1>2, <1>3, <1>4
  DEF Enter, Acquire, IsEmpty, InitLock, MallocBegin, SetModeBegin, InitBegin, End, heapVars

LEMMA PoolStep ==
  ASSUME Inv, Next
  PROVE  ListExact' /\ Discarded' /\ PoolExact'
<1> PICK t \in Threads : Step(t) \/ Begin(t)
  BY DEF Next
<1> Types /\ Locks /\ Resets /\ Placed /\ ListExact /\ Discarded /\ PoolExact
  BY DEF Inv
<1>0. \A u \in Threads : u # t => thr'[u] = thr[u]
  BY OthersStay
<1>t. thr[t] \in ThreadType /\ InPlace(thr[t])
  BY DEF Types, Placed
<1>b. \A new : Becomes(t, new) => thr'[t] = new
  BY DEF Becomes, Types
<1>1. CASE Enter(t) \/ Acquire(t) \/ IsEmpty(t) \/ Fill(t) \/ Walk(t) \/ Push(t)
           \/ MallocBegin(t) \/ SetModeBegin(t) \/ InitBegin(t) \/ End(t)
  <2>1. \A c \in Arenas : arena'[c].claimed = arena[c].claimed
    BY <1>1, ClaimsKept
  <2>2. thr[t].pc # "reset" /\ UNCHANGED <<listed, orphans, listlock>>
    BY <1>1 DEF Enter, Acquire, IsEmpty, Fill, Walk, Push, MallocBegin, SetModeBegin,
                InitBegin, End, At, poolVars
  <2> QED
    BY <2>1, <2>2, PoolKept
<1>2. CASE Malloc(t) \/ Free(t) \/ Use(t) \/ Size(t) \/ Remalloc(t) \/ Install(t)
  <2>1. \A c \in Arenas : arena'[c].claimed = arena[c].claimed
    BY <1>2, SectionQueues
  <2>2. thr[t].pc # "reset" /\ UNCHANGED <<listed, orphans, listlock>>
    BY <1>2 DEF Malloc, Free, Use, Size, Remalloc, Install, Leave, At, poolVars
  <2> QED
    BY <2>1, <2>2, PoolKept
<1>3. ASSUME NEW b \in Blocks, FreeBegin(t, b) \/ UseBegin(t, b) \/ ReallocBegin(t, b)
      PROVE  ListExact' /\ Discarded' /\ PoolExact'
  <2>1. PICK op, pc : Call(t, op, b, pc)
    BY <1>3 DEF FreeBegin, UseBegin, ReallocBegin
  <2>2. thr[t].pc # "reset" /\ UNCHANGED <<listed, orphans, listlock, arena>>
    BY <2>1 DEF Call, At, poolVars
  <2> QED
    BY <2>2, PoolKept
<1>4. CASE Adopt(t) \/ OnThreadExit(t)
  BY <1>4, AdoptPool, ExitPool DEF Discarded
<1>5. CASE InitLock(t)
  <2>1. listlock' = t /\ t # none /\ UNCHANGED <<listed, orphans, arena>>
    BY <1>5, ArenasAssumption DEF InitLock, heapVars
  <2>2. thr'[t].i = 1
    BY <1>5, <1>b, <1>t DEF InitLock, ThreadType
  <2>3. \A i \in DOMAIN listed : ~(i < 1)
    BY DEF Types
  <2> QED
    BY <2>1, <2>2, <2>3 DEF ListExact, Discarded, PoolExact
<1>6. CASE ResetArena(t)
  <2> DEFINE a == listed[thr[t].i]
  <2>1. listlock = t /\ listlock' = t /\ t # none /\ UNCHANGED <<listed, orphans>>
    BY <1>6, ArenasAssumption DEF ResetArena, At, Resets, poolVars
  <2>2. thr[t].i \in DOMAIN listed /\ a \in Arenas
    BY <1>6, <1>t DEF ResetArena, At, InPlace, ThreadType, Types
  <2>3. thr[t].i \in Nat /\ thr'[t].i = thr[t].i + 1
    BY <1>6, <1>b, <1>t DEF ResetArena, ThreadType
  <2>4. ~Discard(a).claimed
    BY <2>2 DEF Discard, Types, ArenaType
  <2>5. \A c \in Arenas : arena'[c] = IF c \in {a} THEN Discard(c) ELSE arena[c]
    BY <1>6 DEF ResetArena, Emptied
  <2>6. \A c \in Arenas : arena'[c].claimed => arena[c].claimed /\ c # a
    BY <2>4, <2>5
  <2>7. ListExact'
    BY <2>1, <2>6 DEF ListExact
  <2>8. ASSUME NEW i \in DOMAIN listed, i < thr'[t].i
        PROVE  ~arena'[listed[i]].claimed
    <3>1. i < thr[t].i \/ i = thr[t].i
      BY <2>3, <2>8 DEF Types
    <3>2. listed[i] \in Arenas
      BY DEF Types
    <3> QED
      BY <2>1, <2>6, <3>1, <3>2 DEF Discarded
  <2> QED
    BY <2>1, <2>7, <2>8 DEF Discarded, PoolExact
<1>7. CASE ResetEnd(t)
  <2>1. listlock = t /\ t # none /\ thr[t].i \in Nat
    BY <1>7, <1>t, ArenasAssumption DEF ResetEnd, At, Resets, ThreadType
  <2>2. \A i \in DOMAIN listed : ~arena[listed[i]].claimed
    BY <1>7, <2>1 DEF ResetEnd, Discarded, Types
  <2>3. \A c \in Arenas : ~arena[c].claimed
    BY <2>2 DEF ListExact
  <2>4. Main \in Arenas
    BY DEF Arenas
  <2>5. [arena[Main] EXCEPT !.claimed = TRUE, !.epoch = epoch].claimed
    BY <2>4 DEF Types, ArenaType
  <2>6. /\ arena'[Main] = [arena[Main] EXCEPT !.claimed = TRUE, !.epoch = epoch]
        /\ \A c \in Arenas : c # Main => arena'[c] = arena[c]
    BY <1>7, <2>4 DEF ResetEnd, Types
  <2>7. arena'[Main].claimed /\ \A c \in Arenas : c # Main => ~arena'[c].claimed
    BY <2>3, <2>5, <2>6
  <2>8. listed' = listed /\ orphans' = Tail(listed) /\ listlock' = none
    BY <1>7 DEF ResetEnd
  <2> QED
    BY <2>7, <2>8, RestartPool DEF Discarded
<1>8. CASE InitGrowable(t)
  <2>1. listlock = none
    BY <1>8 DEF InitGrowable, At, Locks, Types
  <2>2. PICK mapped \in BOOLEAN : arena' = [a \in Arenas |->
          IF a = Main
          THEN [arena[a] EXCEPT !.live = mapped, !.growable = mapped, !.queue = {},
                                !.claimed = TRUE, !.epoch = epoch + 1, !.mode = "managed"]
          ELSE Discard(a)]
    BY <1>8 DEF InitGrowable
  <2>3. Main \in Arenas
    BY DEF Arenas
  <2>4. [arena[Main] EXCEPT !.live = mapped, !.growable = mapped, !.queue = {},
                            !.claimed = TRUE, !.epoch = epoch + 1, !.mode = "managed"].claimed
    BY <2>3 DEF Types, ArenaType
  <2>5. \A c \in Arenas : ~Discard(c).claimed
    BY DEF Discard, Types, ArenaType
  <2>6. arena'[Main].claimed /\ \A c \in Arenas : c # Main => ~arena'[c].claimed
    BY <2>2, <2>3, <2>4, <2>5
  <2>7. listed' = listed /\ orphans' = Tail(listed) /\ listlock' = none
    BY <1>8, <2>1 DEF InitGrowable
  <2> QED
    BY <2>6, <2>7, RestartPool DEF Discarded
<1> QED
  BY <1>1, <1>2, <1>3, <1>4, <1>5, <1>6, <1>7, <1>8 DEF Step, Begin

-------------------------------------------------------------------------------
(***************************************************************************)
(* The theorems.                                                           *)
(***************************************************************************)
LEMMA InitInv == Init => Inv
<1> SUFFICES ASSUME Init PROVE Inv
  OBVIOUS
<1>1. Types
  BY TypesInit
<1>2. \A t \in Threads : thr[t].pc = "idle" /\ thr[t].blk = none /\ thr[t].op = none
  BY DEF Init, Idle
<1>3. Locks /\ Resets
  BY <1>2 DEF Init, Locks, Resets
<1>4. Placed
  BY <1>2, IdleInPlace DEF Init, Placed
<1>5. listed = <<Main>> /\ orphans = <<>> /\ listlock = none
  BY DEF Init
<1>6. \A a \in Arenas : arena[a].queue = {} /\ (arena[a].claimed => a = Main)
  <2>1. PICK up \in BOOLEAN : arena = [a \in Arenas |->
         IF a = Main THEN [NewArena EXCEPT !.claimed = up, !.live = up, !.growable = up]
                     ELSE NewArena]
    BY DEF Init
  <2>2. [NewArena EXCEPT !.claimed = up, !.live = up, !.growable = up].queue = {}
    BY DEF NewArena
  <2>3. NewArena.queue = {} /\ ~NewArena.claimed
    BY DEF NewArena
  <2> QED
    BY <2>1, <2>2, <2>3
<1>7. Lent
  BY <1>2, <1>6 DEF Init, Lent
<1>8. ListExact /\ Discarded /\ PoolExact
  BY <1>5, <1>6 DEF ListExact, Discarded, PoolExact
<1> QED
  BY <1>1, <1>3, <1>4, <1>7, <1>8 DEF Inv

LEMMA NextInv == Inv /\ [Next]_vars => Inv'
<1> SUFFICES ASSUME Inv, [Next]_vars PROVE Inv'
  OBVIOUS
<1>1. CASE Next
  <2>1. Types'
    BY <1>1, TypesStep DEF Inv
  <2>2. Locks' /\ Resets'
    BY <1>1, LocksStep, ResetsStep DEF Inv
  <2>3. Placed'
    BY <1>1, PlacedStep DEF Inv
  <2>4. Lent'
    BY <1>1, <2>1, LentStep DEF Inv
  <2>5. ListExact' /\ Discarded' /\ PoolExact'
    BY <1>1, PoolStep
  <2> QED
    BY <2>1, <2>2, <2>3, <2>4, <2>5 DEF Inv
<1>2. CASE UNCHANGED vars
  BY <1>2 DEF vars, Inv, Types, Locks, Resets, Placed, Lent, ListExact, Discarded, PoolExact
<1> QED
  BY <1>1, <1>2

\* The inductive invariant holds throughout: locks belong to the critical section
\* they guard, a call's block is its own, the list and the pool of arenas agree
\* with the claims, through every interleaving of adoption, exit, frees and
\* mm_init (mm_lock.c, mm_core.c).
THEOREM AlwaysInv == Spec => []Inv
  BY InitInv, NextInv, PTL DEF Spec

LEMMA InvOneLock == Inv => OneLock
<1>1. \A t \in Threads : t # none
  BY ArenasAssumption
<1> QED
  BY <1>1 DEF Inv, Locks, OneLock

LEMMA InvNoDeadlock == Inv => NoDeadlock
<1> SUFFICES ASSUME Inv, NEW t \in Threads, ~At(t, "idle")
             PROVE  \E u \in Threads : ~At(u, "idle") /\ ~Blocked(u)
  BY DEF NoDeadlock
<1>1. \A u \in Threads : thr[u].pc \in {"walk", "reset"} /\ thr[u].i <= Len(listed) =>
        listed[thr[u].i] \in Arenas
  BY DEF Inv, Types, ThreadType, Placed, InPlace
<1>2. \A u \in Threads : thr[u].pc \in {"lock", "fill"} => thr[u].at \in Arenas
  BY DEF Inv, Placed, InPlace
<1>3. CASE \E a \in Arenas : lock[a] # none
  <2>1. PICK a \in Arenas : lock[a] # none
    BY <1>3
  <2>2. lock[a] \in Threads /\ thr[lock[a]].pc = "in"
    BY <2>1 DEF Inv, Types, Locks
  <2> QED
    BY <2>2 DEF At, Blocked
<1>4. CASE (\A a \in Arenas : lock[a] = none) /\ listlock # none
  <2>1. listlock \in Threads /\ thr[listlock].pc = "reset"
    BY <1>4 DEF Inv, Types, Locks
  <2> QED
    BY <1>1, <1>4, <2>1 DEF At, Blocked
<1>5. CASE (\A a \in Arenas : lock[a] = none) /\ listlock = none
  BY <1>1, <1>2, <1>5 DEF Blocked
<1> QED
  BY <1>3, <1>4, <1>5

\* However many threads resize each other's blocks, walk all arenas or discard
\* them, none holds two arenas' locks (mm_internal.h, mm_enter_for and the
\* guards).
THEOREM AlwaysOneLock == Spec => []OneLock
  BY AlwaysInv, InvOneLock, PTL

\* Of any number of threads inside the allocator one is not waiting for a lock:
\* an arena's lock, the list lock or both never form a circle (mm_lock.c,
\* mm_arenas_reset takes arena locks under the list lock).
THEOREM NeverStuck == Spec => []NoDeadlock
  BY AlwaysInv, InvNoDeadlock, PTL

\* Adoption, thread exit and both kinds of initialisation neither lose an arena
\* nor put one in the pool that is claimed or there already (mm_arena_adopt,
\* on_thread_exit, mm_arenas_reset).
THEOREM PoolAlwaysExact == Spec => []PoolExact
<1>1. Inv => PoolExact
  BY DEF Inv
<1> QED
  BY AlwaysInv, <1>1, PTL
===============================================================================
