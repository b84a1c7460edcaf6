------------------------------- MODULE Registry -------------------------------
(***************************************************************************)
(* The span registry of mm_arena.c: an open-addressed table from the 2 MB  *)
(* unit of an address to the descriptor of the span that covers it, which  *)
(* arenas change under one lock and every free in the process reads under  *)
(* none; and the life of a span's descriptor and mapping around it.        *)
(*                                                                         *)
(* A process is an arena, that is, whichever thread holds its lock.  A     *)
(* step is one access another process can see: a store into the table the  *)
(* readers use, a load from it, or the private work between two of them.   *)
(* A new table is private until it is published, so building it is one     *)
(* step.  There is no caller-supplied span (g_user is NULL) where mappings *)
(* are made.  An address is a unit and a half of it; the first half of a   *)
(* mapping's first unit lies before its tiling.                            *)
(***************************************************************************)
EXTENDS Naturals, Sequences, SequencesExt

CONSTANTS Arenas,
          Lookers,          \* the arenas whose threads look addresses up
          Units,            \* the number of units of address space there are
          Addresses,        \* the addresses looked up
          MM_INDEX_STATIC,  \* slots of the first table
          MaxTables,        \* bound: tables mm_sys_alloc supplies, with the first
          MaxSpans,         \* bound: descriptors mm_sys_alloc supplies
          Mix,              \* what slot_for makes of a unit before it is masked
          none              \* NULL

ASSUME RegistryAssumption ==
  /\ {Units, MaxTables, MaxSpans, MM_INDEX_STATIC} \subseteq Nat \ {0}
  /\ Mix \in [1 .. Units -> Nat]
  /\ Lookers \subseteq Arenas /\ Addresses \subseteq 2 .. 2 * Units + 1
  /\ none \notin Nat \cup Arenas

VARIABLES table,    \* every table there was, oldest first; the last is g_index
          used,     \* g_index_used
          live,     \* g_index_live
          lock,     \* who holds g_index_lock
          desc,     \* the descriptors drawn so far
          pool,     \* g_span_pool
          mapped,   \* the units the kernel has mapped for the allocator
          spans,    \* per arena: its list of spans
          cache,    \* per arena: span_cache
          proc      \* per arena: the operation it is in
vars == <<table, used, live, lock, desc, pool, mapped, spans, cache, proc>>

indexVars == <<table, used, live>>
arenaVars == <<spans, cache>>

unit_of(p)   == p \div 2
MM_UNIT_TOMB == 0

\* d, the span at hand; n, its units; u .. end, the units left to file or to
\* remove; todo, the spans a reset has left; p, the address looked up; t and i,
\* the table and slot the probe is at, k, how often it has moved on; keep, the
\* answer may go into the arena's cache.
Idle == [pc |-> "idle", d |-> none, n |-> 0, u |-> 0, end |-> 0, todo |-> <<>>,
         reset |-> FALSE, p |-> 0, t |-> 0, i |-> 0, k |-> 0, keep |-> FALSE]

EmptyTable(cap) ==
  [cap |-> cap, slot |-> [i \in 0 .. cap - 1 |-> [unit |-> 0, span |-> none]]]

Init ==
  /\ table = <<EmptyTable(MM_INDEX_STATIC)>> /\ used = 0 /\ live = 0
  /\ lock = none /\ desc = <<>> /\ pool = <<>> /\ mapped = {}
  /\ spans = [a \in Arenas |-> <<>>] /\ cache = [a \in Arenas |-> none]
  /\ proc = [a \in Arenas |-> Idle]

g_index        == table[Len(table)]
At(a, label)   == proc[a].pc = label
Goto(a, label) == proc' = [proc EXCEPT ![a].pc = label]
Return(a)      == proc' = [proc EXCEPT ![a] = Idle]

UnitsOf(d)   == desc[d].base .. desc[d].base + desc[d].size - 1
Inside(p, d) == desc[d].lo <= p /\ p < desc[d].hi

-------------------------------------------------------------------------------
(***************************************************************************)
(* The table, as its writers see it.                                       *)
(***************************************************************************)
slot_for(unit, cap) == Mix[unit] % cap

\* The k-th slot of a unit's probe sequence.
Probe(ix, unit, k) == (slot_for(unit, ix.cap) + k) % ix.cap

Filed(ix, i, unit) == ix.slot[i].span \notin {none, MM_UNIT_TOMB} /\ ix.slot[i].unit = unit

\* Where index_put stores: the entry the unit has, or the end of its chain.  A
\* tombstone is not reused.
PutSlot(ix, unit) ==
  Probe(ix, unit, Min({k \in 0 .. ix.cap - 1 :
    LET i == Probe(ix, unit, k) IN ix.slot[i].span = none \/ Filed(ix, i, unit)}))

index_put(ix, unit, d) ==
  [ix EXCEPT !.slot[PutSlot(ix, unit)] = [unit |-> unit, span |-> d]]

\* What the first table's size is doubled to, time after time.
Doubled(n) ==
  LET cap[j \in 0 .. n] == IF j = 0 THEN MM_INDEX_STATIC ELSE 2 * cap[j - 1]
  IN  cap

\* Chosen from what is live.
RehashCap ==
  LET cap == Doubled(live + 2)
  IN  cap[Min({j \in 0 .. live + 2 : cap[j] >= (live + 1) * 4})]

\* A table of the given size, filled from the first slots of an old one:
\* tombstones are dropped.
Refilled(old, cap) ==
  LET new[i \in 0 .. old.cap] ==
        IF i = 0 THEN EmptyTable(cap)
        ELSE LET c == old.slot[i - 1]
             IN  IF c.span \in {none, MM_UNIT_TOMB} THEN new[i - 1]
                 ELSE index_put(new[i - 1], c.unit, c.span)
  IN  new

Rehashed == Refilled(g_index, RehashCap)[g_index.cap]

\* A slip: an entry is emptied, and cuts the chains that run through it.
TombstoneEmptied(ix, i) == [ix EXCEPT !.slot[i] = [unit |-> 0, span |-> none]]

Tombstone(ix, i) == [ix EXCEPT !.slot[i].span = MM_UNIT_TOMB]

\* The slot index_del finds: none when the chain ends first.
DelSlots(unit) ==
  LET ix == g_index
  IN  {Probe(ix, unit, k) : k \in {j \in 0 .. ix.cap - 1 :
         /\ Filed(ix, Probe(ix, unit, j), unit)
         /\ \A h \in 0 .. j - 1 : ix.slot[Probe(ix, unit, h)].span # none
                               /\ ~Filed(ix, Probe(ix, unit, h), unit)}}

index_del(unit) ==
  IF DelSlots(unit) = {} THEN UNCHANGED indexVars
  ELSE /\ table' = [table EXCEPT ![Len(table)] = Tombstone(@, CHOOSE i \in DelSlots(unit) : TRUE)]
       /\ live' = live - 1
       /\ UNCHANGED used

-------------------------------------------------------------------------------
(***************************************************************************)
(* map_span: a descriptor, a mapping, and its registration unit by unit.   *)
(***************************************************************************)

\* The units of addresses that are being looked up.  The memory of a live
\* address is neither released nor given to anybody else by the kernel.
LookedUp == {unit_of(proc[a].p) : a \in {b \in Arenas : proc[b].p # 0}}

NewDesc == [owner |-> none, magic |-> FALSE, lo |-> 0, hi |-> 0, base |-> 0, size |-> 0]

\* span_desc_alloc, from the pool or else from the slab.
SpanDescAlloc(a, n) ==
  /\ At(a, "idle") /\ lock = none
  /\ LET d == IF pool # <<>> THEN Head(pool) ELSE Len(desc) + 1
     IN  /\ d <= MaxSpans
         /\ desc' = IF pool # <<>> THEN [desc EXCEPT ![d] = NewDesc] ELSE Append(desc, NewDesc)
         /\ proc' = [proc EXCEPT ![a].pc = "map", ![a].d = d, ![a].n = n]
  /\ pool' = IF pool # <<>> THEN Tail(pool) ELSE pool
  /\ UNCHANGED <<indexVars, lock, mapped, arenaVars>>

\* map_chunk_aligned and the descriptor's fields; or no memory.
MapChunk(a) ==
  /\ At(a, "map")
  /\ \/ \E base \in 1 .. Units - proc[a].n + 1 :
          LET new == base .. base + proc[a].n - 1
          IN  /\ new \cap (mapped \cup LookedUp) = {}
              /\ mapped' = mapped \cup new
              /\ desc' = [desc EXCEPT ![proc[a].d] =
                   [owner |-> a, magic |-> TRUE, lo |-> 2 * base + 1,
                    hi |-> 2 * (base + proc[a].n), base |-> base, size |-> proc[a].n]]
              /\ Goto(a, "register")
     \/ Goto(a, "recycle") /\ UNCHANGED <<mapped, desc>>
  /\ UNCHANGED <<indexVars, lock, pool, arenaVars>>

RegisterBegin(a) ==
  /\ At(a, "register") /\ lock = none
  /\ lock' = a
  /\ proc' = [proc EXCEPT ![a].pc = "add", ![a].u = desc[proc[a].d].base,
                          ![a].end = desc[proc[a].d].base + proc[a].n - 1]
  /\ UNCHANGED <<indexVars, desc, pool, mapped, arenaVars>>

Crowded == (used + 1) * 2 >= g_index.cap

\* A slip: the tombstones that were dropped go on being counted.
IndexRehashCounting(a) ==
  /\ At(a, "add") /\ Crowded /\ Len(table) < MaxTables
  /\ table' = Append(table, Rehashed)
  /\ UNCHANGED <<used, live, lock, desc, pool, mapped, arenaVars, proc>>

\* index_rehash, and the table it publishes, which is not crowded.
IndexRehash(a) ==
  /\ At(a, "add") /\ Crowded /\ Len(table) < MaxTables
  /\ table' = Append(table, Rehashed) /\ used' = live
  /\ UNCHANGED <<live, lock, desc, pool, mapped, arenaVars, proc>>

\* A slip: what was filed of the span stays filed.
IndexRehashFailsHalfway(a) ==
  /\ At(a, "add") /\ Crowded
  /\ lock' = none
  /\ Goto(a, "unmap")
  /\ UNCHANGED <<indexVars, desc, pool, mapped, arenaVars>>

\* The platform will not supply a table: the units filed so far come out again.
IndexRehashFails(a) ==
  /\ At(a, "add") /\ Crowded
  /\ IF proc[a].u = desc[proc[a].d].base
     THEN lock' = none /\ Goto(a, "unmap")
     ELSE /\ proc' = [proc EXCEPT ![a].pc = "undo", ![a].u = desc[proc[a].d].base,
                                  ![a].end = proc[a].u - 1]
          /\ UNCHANGED lock
  /\ UNCHANGED <<indexVars, desc, pool, mapped, arenaVars>>

\* index_put stores the unit first, where no reader looks at it yet.
PutUnit(a) ==
  /\ At(a, "add") /\ ~Crowded
  /\ table' = [table EXCEPT ![Len(table)].slot[PutSlot(g_index, proc[a].u)].unit = proc[a].u]
  /\ Goto(a, "span")
  /\ UNCHANGED <<used, live, lock, desc, pool, mapped, arenaVars>>

\* Then the span.  The last unit ends the registration, and span_adopt links the
\* span into the arena.
PutSpan(a) ==
  /\ At(a, "span")
  /\ table' = [table EXCEPT ![Len(table)] = index_put(@, proc[a].u, proc[a].d)]
  /\ used' = used + 1 /\ live' = live + 1
  /\ IF proc[a].u < proc[a].end
     THEN /\ proc' = [proc EXCEPT ![a].pc = "add", ![a].u = @ + 1]
          /\ UNCHANGED <<lock, spans>>
     ELSE /\ lock' = none /\ Return(a)
          /\ spans' = [spans EXCEPT ![a] = <<proc[a].d>> \o @]
  /\ UNCHANGED <<desc, pool, mapped, cache>>

-------------------------------------------------------------------------------
(***************************************************************************)
(* mm_arena_release_span, when a span's last block is free, and            *)
(* mm_arena_reset, for all spans of an arena.                              *)
(***************************************************************************)
ReleaseSpan(a, d) ==
  /\ At(a, "idle") /\ d \in Range(spans[a]) /\ UnitsOf(d) \cap LookedUp = {}
  /\ proc' = [proc EXCEPT ![a].pc = "unregister", ![a].d = d]
  /\ UNCHANGED <<indexVars, lock, desc, pool, mapped, arenaVars>>

ArenaReset(a) ==
  /\ At(a, "idle") /\ spans[a] # <<>>
  /\ \A d \in Range(spans[a]) : UnitsOf(d) \cap LookedUp = {}
  /\ proc' = [proc EXCEPT ![a].pc = "unregister", ![a].reset = TRUE,
                          ![a].d = Head(spans[a]), ![a].todo = Tail(spans[a])]
  /\ UNCHANGED <<indexVars, lock, desc, pool, mapped, arenaVars>>

UnregisterBegin(a) ==
  /\ At(a, "unregister") /\ lock = none
  /\ lock' = a
  /\ cache' = [cache EXCEPT ![a] = IF @ = proc[a].d THEN none ELSE @]
  /\ proc' = [proc EXCEPT ![a].pc = "del", ![a].u = desc[proc[a].d].base,
                          ![a].end = desc[proc[a].d].base + desc[proc[a].d].size - 1]
  /\ UNCHANGED <<indexVars, desc, pool, mapped, spans>>

\* index_del of the next unit, for a release or for a registration given up.
IndexDel(a) ==
  /\ proc[a].pc \in {"del", "undo"}
  /\ index_del(proc[a].u)
  /\ IF proc[a].u < proc[a].end
     THEN proc' = [proc EXCEPT ![a].u = @ + 1] /\ UNCHANGED lock
     ELSE lock' = none /\ Goto(a, IF At(a, "del") THEN "disown" ELSE "unmap")
  /\ UNCHANGED <<desc, pool, mapped, arenaVars>>

\* Off the arena's list, then the bounds and the magic.
Disown(a) ==
  /\ At(a, "disown")
  /\ spans' = [spans EXCEPT ![a] = IF proc[a].reset THEN @
                                   ELSE RemoveAt(@, CHOOSE i \in DOMAIN @ : @[i] = proc[a].d)]
  /\ desc' = [desc EXCEPT ![proc[a].d].lo = 0, ![proc[a].d].hi = 0, ![proc[a].d].magic = FALSE]
  /\ Goto(a, "unmap")
  /\ UNCHANGED <<indexVars, lock, pool, mapped, cache>>

Unmap(a) ==
  /\ At(a, "unmap")
  /\ mapped' = mapped \ UnitsOf(proc[a].d)
  /\ Goto(a, "recycle")
  /\ UNCHANGED <<indexVars, lock, desc, pool, arenaVars>>

\* span_desc_free; a reset goes on with its next span.
SpanDescFree(a) ==
  /\ At(a, "recycle") /\ lock = none
  /\ pool' = <<proc[a].d>> \o pool
  /\ IF proc[a].todo # <<>>
     THEN /\ proc' = [proc EXCEPT ![a].pc = "unregister", ![a].d = Head(proc[a].todo),
                                  ![a].todo = Tail(proc[a].todo)]
          /\ UNCHANGED arenaVars
     ELSE /\ Return(a)
          /\ spans' = [spans EXCEPT ![a] = IF proc[a].reset THEN <<>> ELSE @]
          /\ cache' = [cache EXCEPT ![a] = IF proc[a].reset THEN none ELSE @]
  /\ UNCHANGED <<indexVars, lock, desc, mapped>>

-------------------------------------------------------------------------------
(***************************************************************************)
(* Lookups: mm_span_of in the arena a, or mm_owner_of, which leaves the    *)
(* cache alone, of an address the program may use: one of a span nobody is *)
(* releasing, or one outside the allocator's mappings.                     *)
(***************************************************************************)
Covering(p) ==
  {d \in UNION {Range(spans[a]) : a \in {b \in Arenas : ~proc[b].reset}} :
     Inside(p, d) /\ \A a \in Arenas : proc[a].d = d => At(a, "idle") \/ proc[a].p # 0}

Usable(p) == Covering(p) # {} \/ unit_of(p) \notin mapped

\* mm_span_of asks the arena's cache first.
Lookup(a, p, keep) ==
  /\ At(a, "idle") /\ Usable(p)
  /\ LET hit == keep /\ cache[a] # none /\ Inside(p, cache[a])
     IN  proc' = [proc EXCEPT ![a].pc = IF hit THEN "answer" ELSE "load", ![a].p = p,
                              ![a].d = IF hit THEN cache[a] ELSE none, ![a].keep = keep]
  /\ UNCHANGED <<indexVars, lock, desc, pool, mapped, arenaVars>>

LoadIndex(a) ==
  /\ At(a, "load")
  /\ proc' = [proc EXCEPT ![a].pc = "slot", ![a].t = Len(table), ![a].k = 0,
                          ![a].i = slot_for(unit_of(proc[a].p), g_index.cap)]
  /\ UNCHANGED <<indexVars, lock, desc, pool, mapped, arenaVars>>

Advance(a) == [proc[a] EXCEPT !.pc = "slot", !.i = (@ + 1) % table[proc[a].t].cap, !.k = @ + 1]

LoadSpan(a) ==
  LET ix == table[proc[a].t]
      s  == ix.slot[proc[a].i].span
  IN  /\ At(a, "slot")
      /\ proc' = [proc EXCEPT ![a] =
           IF proc[a].k = ix.cap \/ s = none THEN [@ EXCEPT !.pc = "again"]
           ELSE IF s = MM_UNIT_TOMB THEN Advance(a)
           ELSE [@ EXCEPT !.pc = "unit", !.d = s]]
      /\ UNCHANGED <<indexVars, lock, desc, pool, mapped, arenaVars>>

LoadUnit(a) ==
  /\ At(a, "unit")
  /\ proc' = [proc EXCEPT ![a] =
       IF table[@.t].slot[@.i].unit = unit_of(@.p) THEN [@ EXCEPT !.pc = "check"]
                                                   ELSE Advance(a)]
  /\ UNCHANGED <<indexVars, lock, desc, pool, mapped, arenaVars>>

\* A miss counts only if the table is still the one.
MissAgain(a) ==
  /\ At(a, "again")
  /\ proc' = [proc EXCEPT ![a].pc = IF proc[a].t = Len(table) THEN "answer" ELSE "load",
                          ![a].d = none]
  /\ UNCHANGED <<indexVars, lock, desc, pool, mapped, arenaVars>>

\* A slip: whatever is found is kept.
KeepAny(a, d) == proc[a].keep

\* Only a span of the arena itself goes into its cache.
Keep(a, d) == proc[a].keep /\ desc[d].owner = a

\* The magic and the bounds of the descriptor that was found.
CheckDescriptor(a) ==
  /\ At(a, "check")
  /\ LET d  == proc[a].d
         ok == desc[d].magic /\ Inside(proc[a].p, d)
     IN  /\ proc' = [proc EXCEPT ![a].pc = "answer", ![a].d = IF ok THEN d ELSE none]
         /\ cache' = [cache EXCEPT ![a] = IF ok /\ Keep(a, d) THEN d ELSE @]
  /\ UNCHANGED <<indexVars, lock, desc, pool, mapped, spans>>

Answer(a) ==
  /\ At(a, "answer")
  /\ Return(a)
  /\ UNCHANGED <<indexVars, lock, desc, pool, mapped, arenaVars>>

Next ==
  \E a \in Arenas :
    \/ \E n \in 1 .. 2 : SpanDescAlloc(a, n)
    \/ MapChunk(a) \/ RegisterBegin(a)
    \/ IndexRehash(a) \/ IndexRehashFails(a) \/ PutUnit(a) \/ PutSpan(a)
    \/ \E d \in DOMAIN desc : ReleaseSpan(a, d)
    \/ ArenaReset(a) \/ UnregisterBegin(a) \/ IndexDel(a)
    \/ Disown(a) \/ Unmap(a) \/ SpanDescFree(a)
    \/ a \in Lookers /\ \E p \in Addresses, keep \in BOOLEAN : Lookup(a, p, keep)
    \/ LoadIndex(a) \/ LoadSpan(a) \/ LoadUnit(a) \/ MissAgain(a)
    \/ CheckDescriptor(a) \/ Answer(a)

Spec == Init /\ [][Next]_vars

-------------------------------------------------------------------------------
\* A lookup answers with the span that covers the address, or NULL for an
\* address of somebody else's, whatever the other arenas file, remove, rehash and
\* recycle between its loads: index_find, mm_span_lookup_uncached and mm_span_of.
AnswersRight ==
  \A a \in Arenas : At(a, "answer") =>
    Covering(proc[a].p) = IF proc[a].d = none THEN {} ELSE {proc[a].d}

\* While nobody changes it, the table holds the units of the spans in the arenas'
\* lists once each and nothing else, also after a registration that failed
\* half-way or a rehash; the counters are exact, so that a table is replaced
\* before a probe could find no empty slot.
TableExact ==
  lock = none /\ (\A a \in Arenas : /\ proc[a].pc \notin {"disown", "unmap", "recycle"}
                                   /\ ~proc[a].reset) =>
    LET cells == {i \in DOMAIN g_index.slot : g_index.slot[i].span # none}
        filed == {i \in cells : g_index.slot[i].span # MM_UNIT_TOMB}
        all   == UNION {Range(spans[a]) : a \in Arenas}
    IN  /\ used = Cardinality(cells) /\ live = Cardinality(filed)
        /\ 2 * used <= g_index.cap
        /\ {g_index.slot[i] : i \in filed} =
             UNION {{[unit |-> u, span |-> d] : u \in UnitsOf(d)} : d \in all}
        /\ Cardinality(filed) = Cardinality(UNION {UnitsOf(d) : d \in all})

\* What the table in use says is covered is mapped: a span is filed after its
\* memory is there and removed before it goes.
FiledIsMapped ==
  \A i \in DOMAIN g_index.slot :
    g_index.slot[i].span \notin {none, MM_UNIT_TOMB} =>
      /\ g_index.slot[i].unit \in mapped
      /\ g_index.slot[i].unit \in UnitsOf(g_index.slot[i].span)

\* A descriptor is in the pool, in one arena's list or in the hands of one
\* operation; an arena's cache holds none but its own spans, so that no arena
\* goes on using a descriptor another one has released.
DescriptorsOwned ==
  /\ \A i, j \in DOMAIN pool : pool[i] = pool[j] => i = j
  /\ \A a \in Arenas : ~proc[a].reset =>
       /\ Range(spans[a]) \cap Range(pool) = {}
       /\ \A b \in Arenas \ {a} : ~proc[b].reset => Range(spans[a]) \cap Range(spans[b]) = {}
       /\ cache[a] # none /\ At(a, "idle") => cache[a] \in Range(spans[a])
===============================================================================
