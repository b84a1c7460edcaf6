------------------------------ MODULE HeapMisuse ------------------------------
(***************************************************************************)
(* The heap under a program that frees a pointer twice.  The calls are     *)
(* those of Heap.                                                          *)
(***************************************************************************)
EXTENDS Heap

CONSTANT MaxStale   \* bound: how many dangling pointers the program remembers

VARIABLES stale,   \* payload pointers freed and not handed out again since
          again    \* the latest second free: was it reported, and was it ignored
mvars == <<vars, stale, again>>

MInit == Init /\ stale = {} /\ again = [reported |-> TRUE, ignored |-> TRUE]

\* A freed pointer is dangling until the same address is handed out again.
Use ==
  /\ \E size \in Requests, fill \in Fills : Malloc(size, fill)
  /\ stale' = stale \ {l.p : l \in live'}
  /\ again' = again

Release ==
  /\ \E l \in live :
       Free(l) /\ stale' = IF Cardinality(stale) < MaxStale THEN stale \cup {l.p} ELSE stale
  /\ again' = again

FreeAgain ==
  /\ \E p \in stale : heap' = free_unlocked(heap, p)
  /\ again' = [reported |-> heap'.err # "OK",
               ignored  |-> heap' = [heap EXCEPT !.err = heap'.err]]
  /\ UNCHANGED <<live, stale>>

MNext == (Use \/ Release \/ FreeAgain) /\ tiling' = AbstractTiling(heap')

MSpec == MInit /\ [][MNext]_mvars

-------------------------------------------------------------------------------
\* Freeing "a block already free, is reported through mm_last_error() and
\* otherwise ignored" (include/mars/allocator.h, mm_free).
DoubleFreeIgnored == again.reported /\ again.ignored
===============================================================================
