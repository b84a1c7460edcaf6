------------------------------- MODULE MCArenas -------------------------------
(***************************************************************************)
(* Arenas for TLC: threads and arenas are interchangeable.                 *)
(***************************************************************************)
EXTENDS Arenas, TLC

CONSTANTS b1, b2

\* Who frees, asks about and resizes whose blocks; and how threads that come and
\* go, changes of mode and mm_init get into each other's way.
MCPrograms ==
  {[calls |-> {"free", "use", "exit"}, blocks |-> {b1}],
   [calls |-> {"free", "realloc"},     blocks |-> {b1, b2}],
   [calls |-> {"init", "free"},        blocks |-> {b1}],
   [calls |-> {"init", "exit"},        blocks |-> {}],
   [calls |-> {"init", "mode"},        blocks |-> {}],
   [calls |-> {"mode", "exit"},        blocks |-> {}]}

Symmetry == Permutations(Threads) \cup Permutations(Extra)
===============================================================================
