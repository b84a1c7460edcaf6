------------------------------ MODULE RemoteQueue -----------------------------
(***************************************************************************)
(* Frees that cross a thread (mm_lock.c, and mm_free, mm_remote_drain and  *)
(* mm_enter around it): the bounded ring on which a thread hands a block   *)
(* back to the arena that owns it, the drain under the arena's lock, and   *)
(* the fallback of a free that finds the ring full.                        *)
(*                                                                         *)
(* A step is one atomic access to the ring or one critical section.  The   *)
(* acquire and release orders make the pointer in a cell visible with its  *)
(* sequence number, so steps interleave sequentially; a relaxed load that  *)
(* returns an old value is a load that was made earlier.                   *)
(***************************************************************************)
EXTENDS Integers, FiniteSets

CONSTANTS Owner,      \* the thread whose arena this is
          Producers,  \* the threads that free its blocks
          Blocks,     \* the blocks of the arena
          Slots,      \* MM_REMOTE_SLOTS
          Wrap,       \* 2^32: positions and sequence numbers wrap here
          Starts,     \* positions the ring may have reached already
          MaxFrees,   \* bound: frees in one behaviour
          none        \* a null pointer, and nobody

ASSUME RingAssumption ==
  /\ Slots \in Nat \ {0, 1} /\ Wrap \in Nat /\ Wrap % (2 * Slots) = 0
  /\ Starts \subseteq 0 .. Wrap - 1 /\ Starts # {}
  /\ MaxFrees \in Nat /\ MaxFrees + Slots < Wrap \div 2
  /\ Owner \notin Producers /\ IsFiniteSet(Producers)
  /\ none \notin Producers \cup {Owner} \cup Blocks

Threads == Producers \cup {Owner}

VARIABLES head, tail,  \* remote_head, remote_tail
          cell,        \* remote[i]: its sequence number and its pointer
          lock,        \* the thread that holds the arena's lock
          thr,         \* per thread: where it is, pos, the block it is freeing
                       \* and the block it popped
          where,       \* per block: in the "heap", "held" by the program, on its
                       \* way back ("owed"), or "queued": the push has returned
          frees
vars == <<head, tail, cell, lock, thr, where, frees>>

Plus(n, k) == (n + k) % Wrap
Slot(n)    == n % Slots

\* (int32_t)(m - n)
Diff(m, n) == LET d == (m - n) % Wrap IN IF d < Wrap \div 2 THEN d ELSE d - Wrap

-------------------------------------------------------------------------------
\* mm_remote_forget, followed by `start` frees that came and went.
Init ==
  /\ \E start \in Starts :
       /\ head = start /\ tail = start
       /\ cell = [i \in 0 .. Slots - 1 |->
                    [seq |-> Plus(start, (i - start) % Slots), ptr |-> none]]
  /\ lock = none
  /\ thr = [t \in Threads |-> [pc |-> "idle", pos |-> 0, arg |-> none, got |-> none]]
  /\ where = [b \in Blocks |-> "heap"]
  /\ frees = 0

At(t, label)    == thr[t].pc = label
Becomes(t, new) == thr' = [thr EXCEPT ![t] = new]
Goto(t, label)  == Becomes(t, [thr[t] EXCEPT !.pc = label])

-------------------------------------------------------------------------------
(***************************************************************************)
(* mm_free of somebody else's block, and mm_remote_push.                   *)
(***************************************************************************)
Begin(t, b) ==
  /\ At(t, "idle") /\ where[b] = "held" /\ frees < MaxFrees
  /\ Becomes(t, [thr[t] EXCEPT !.pc = "load", !.arg = b])
  /\ where' = [where EXCEPT ![b] = "owed"]
  /\ frees' = frees + 1
  /\ UNCHANGED <<head, tail, cell, lock>>

Load(t) ==
  /\ At(t, "load")
  /\ Becomes(t, [thr[t] EXCEPT !.pc = "look", !.pos = head])
  /\ UNCHANGED <<head, tail, cell, lock, where, frees>>

\* Slips: a cell the owner has not emptied yet is taken for a free one, and a
\* position somebody else claimed is taken for a full ring.
LookIgnoresLap(t) ==
  /\ At(t, "look")
  /\ Goto(t, IF Diff(cell[Slot(thr[t].pos)].seq, thr[t].pos) <= 0 THEN "claim" ELSE "load")
  /\ UNCHANGED <<head, tail, cell, lock, where, frees>>
LookGivesUp(t) ==
  /\ At(t, "look")
  /\ Goto(t, IF Diff(cell[Slot(thr[t].pos)].seq, thr[t].pos) = 0 THEN "claim" ELSE "full")
  /\ UNCHANGED <<head, tail, cell, lock, where, frees>>

Look(t) ==
  /\ At(t, "look")
  /\ LET diff == Diff(cell[Slot(thr[t].pos)].seq, thr[t].pos)
     IN  \/ diff = 0 /\ Goto(t, "claim")
         \/ diff < 0 /\ Goto(t, "full")
         \/ diff > 0 /\ Goto(t, "load")
  /\ UNCHANGED <<head, tail, cell, lock, where, frees>>

ClaimWins(t) ==
  /\ At(t, "claim") /\ head = thr[t].pos
  /\ head' = Plus(head, 1)
  /\ Goto(t, "fill")
  /\ UNCHANGED <<tail, cell, lock, where, frees>>

\* Lost to another producer, or a weak compare-exchange that failed for no
\* reason; either way it reloads pos.
ClaimFails(t) ==
  /\ At(t, "claim")
  /\ Becomes(t, [thr[t] EXCEPT !.pc = "look", !.pos = head])
  /\ UNCHANGED <<head, tail, cell, lock, where, frees>>

Fill(t) ==
  /\ At(t, "fill")
  /\ cell' = [cell EXCEPT ![Slot(thr[t].pos)].ptr = thr[t].arg]
  /\ Goto(t, "publish")
  /\ UNCHANGED <<head, tail, lock, where, frees>>

Publish(t) ==
  /\ At(t, "publish")
  /\ cell' = [cell EXCEPT ![Slot(thr[t].pos)].seq = Plus(thr[t].pos, 1)]
  /\ where' = [where EXCEPT ![thr[t].arg] = "queued"]
  /\ Becomes(t, [thr[t] EXCEPT !.pc = "idle", !.arg = none])
  /\ UNCHANGED <<head, tail, lock, frees>>

\* The ring is full: take the owner's lock and free directly.
Fall(t) ==
  /\ At(t, "full") /\ lock = none
  /\ lock' = t
  /\ Goto(t, "drain")
  /\ UNCHANGED <<head, tail, cell, where, frees>>

\* free_unlocked of its own block, after the drain.
FreeDirectly(t) ==
  /\ t \in Producers /\ At(t, "work")
  /\ where' = [where EXCEPT ![thr[t].arg] = "heap"]
  /\ Becomes(t, [thr[t] EXCEPT !.pc = "idle", !.arg = none])
  /\ lock' = none
  /\ UNCHANGED <<head, tail, cell, frees>>

-------------------------------------------------------------------------------
(***************************************************************************)
(* mm_remote_drain and mm_remote_pop, by whoever holds the lock.           *)
(***************************************************************************)
PopLook(t) ==
  /\ At(t, "drain")
  /\ Becomes(t, [thr[t] EXCEPT
       !.pc = IF cell[Slot(tail)].seq = Plus(tail, 1) THEN "take" ELSE "work",
       !.pos = tail])
  /\ UNCHANGED <<head, tail, cell, lock, where, frees>>

PopTake(t) ==
  /\ At(t, "take")
  /\ Becomes(t, [thr[t] EXCEPT !.pc = "advance", !.got = cell[Slot(thr[t].pos)].ptr])
  /\ cell' = [cell EXCEPT ![Slot(thr[t].pos)].ptr = none]
  /\ UNCHANGED <<head, tail, lock, where, frees>>

PopAdvance(t) ==
  /\ At(t, "advance")
  /\ tail' = Plus(thr[t].pos, 1)
  /\ Goto(t, "release")
  /\ UNCHANGED <<head, cell, lock, where, frees>>

\* The cell goes back to the producers a lap ahead; the drain stops at a null.
PopRelease(t) ==
  /\ At(t, "release")
  /\ cell' = [cell EXCEPT ![Slot(thr[t].pos)].seq = Plus(thr[t].pos, Slots)]
  /\ Goto(t, IF thr[t].got = none THEN "work" ELSE "apply")
  /\ UNCHANGED <<head, tail, lock, where, frees>>

\* free_unlocked of what was popped.
Apply(t) ==
  /\ At(t, "apply")
  /\ where' = [where EXCEPT ![thr[t].got] = "heap"]
  /\ Becomes(t, [thr[t] EXCEPT !.pc = "drain", !.got = none])
  /\ UNCHANGED <<head, tail, cell, lock, frees>>

-------------------------------------------------------------------------------
(***************************************************************************)
(* A call of the owner's: mm_enter, its work, mm_leave.                    *)
(***************************************************************************)

\* A slip: the two ends are compared as if they never wrapped.
EnterIfAhead ==
  /\ At(Owner, "idle") /\ lock = none
  /\ lock' = Owner
  /\ Goto(Owner, IF head > tail THEN "drain" ELSE "work")
  /\ UNCHANGED <<head, tail, cell, where, frees>>

\* Under the lock, two relaxed loads decide whether there is anything to drain.
Enter ==
  /\ At(Owner, "idle") /\ lock = none
  /\ lock' = Owner
  /\ Goto(Owner, IF head # tail THEN "drain" ELSE "work")
  /\ UNCHANGED <<head, tail, cell, where, frees>>

\* The call itself: an allocation the program passes to another thread, or one
\* that is of no interest here.
Leave ==
  /\ At(Owner, "work")
  /\ \/ \E b \in Blocks : where[b] = "heap" /\ where' = [where EXCEPT ![b] = "held"]
     \/ where' = where
  /\ lock' = none
  /\ Goto(Owner, "idle")
  /\ UNCHANGED <<head, tail, cell, frees>>

Push(t) == \/ Load(t) \/ Look(t) \/ ClaimWins(t) \/ ClaimFails(t) \/ Fill(t)
           \/ Publish(t) \/ Fall(t) \/ FreeDirectly(t)
Pop(t)  == PopLook(t) \/ PopTake(t) \/ PopAdvance(t) \/ PopRelease(t) \/ Apply(t)

Next ==
  \/ \E t \in Producers : Push(t) \/ \E b \in Blocks : Begin(t, b)
  \/ \E t \in Threads : Pop(t)
  \/ Enter \/ Leave

(***************************************************************************)
(* A thread inside the allocator keeps running, the owner keeps calling,   *)
(* and a compare-exchange that is tried again and again against an         *)
(* unchanging head succeeds once.  Nothing makes a producer start a free.  *)
(***************************************************************************)
Fairness ==
  /\ \A t \in Producers : WF_vars(Push(t)) /\ SF_vars(ClaimWins(t))
  /\ \A t \in Threads : WF_vars(Pop(t))
  /\ WF_vars(Enter \/ Leave)

Spec == Init /\ [][Next]_vars /\ Fairness

-------------------------------------------------------------------------------
Copies(b) ==
  Cardinality({i \in DOMAIN cell : cell[i].ptr = b})
  + Cardinality({t \in Threads : thr[t].arg = b /\ ~At(t, "publish")})
  + Cardinality({t \in Threads : thr[t].got = b})

\* A block on its way back to its arena is in exactly one place: with the thread
\* that frees it, in one cell of the ring, or with the thread that popped it; any
\* other block is in none.  So no free that crosses a thread is lost, and none is
\* applied twice, however pushes, pops and fallbacks interleave and wrap.
Accounted ==
  \A b \in Blocks : Copies(b) = IF where[b] \in {"owed", "queued"} THEN 1 ELSE 0

\* A push gives up, and takes the owner's lock, only when the ring is full but
\* for the cell a drain is in the middle of handing back.
FullOnlyWhenFull ==
  [][\A t \in Producers :
       ~At(t, "full") /\ At(t, "full")' =>
         Diff(head, tail) >= Slots - Cardinality({u \in Threads : At(u, "release")})]_vars

\* A free whose push has returned is eventually applied to the heap, as long as
\* the owner keeps calling.
QueuedApplied ==
  \A b \in Blocks : (where[b] = "queued") ~> (where[b] # "queued")
===============================================================================
