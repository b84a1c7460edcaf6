------------------------------ MODULE MCRegistry ------------------------------
(***************************************************************************)
(* Registry for TLC.                                                       *)
(***************************************************************************)
EXTENDS Registry

\* The units' chains start in the last slot of the first table, run into each
\* other and round to its start.
MCMix == [u \in 1 .. Units |-> 3]

\* States that differ only in tables no lookup holds any more, or in what is
\* left in a descriptor that waits in the pool, behave alike.
Tables == [j \in DOMAIN table |->
             IF j = Len(table) \/ \E a \in Arenas : proc[a].t = j THEN table[j] ELSE none]
Descriptors == [d \in DOMAIN desc |->
                  IF d \in Range(pool) /\ \A a \in Arenas : proc[a].d # d THEN none ELSE desc[d]]
Symmetry == Permutations(Arenas)

View == <<Tables, used, live, lock, Descriptors, pool, mapped, spans, cache, proc>>
===============================================================================
