---------------------------- MODULE RegistryProofs ----------------------------
(***************************************************************************)
(* The invariants of the span registry, for any arenas, units, tables and  *)
(* descriptors, and whatever slot_for makes of a unit.                     *)
(***************************************************************************)
EXTENDS RegistryTable

-------------------------------------------------------------------------------
(***************************************************************************)
(* The state.                                                              *)
(***************************************************************************)
Busy    == {"map", "register", "add", "span", "undo", "unregister", "del", "disown",
            "unmap", "recycle"}
Looking == {"load", "slot", "unit", "check", "again", "answer"}

DescType  == [owner : Arenas \cup {none}, magic : BOOLEAN, lo : Nat, hi : Nat,
              base : Nat, size : Nat]
ProcType  == [pc : Busy \cup Looking \cup {"idle"}, d : Nat \cup {none}, n : 0 .. 2,
              u : Nat, end : Int, todo : Seq(Nat), reset : BOOLEAN, p : Nat,
              t : Nat, i : Nat, k : Nat, keep : BOOLEAN]

Types ==
  /\ table \in Seq(TableType) /\ table # <<>> /\ used \in Nat /\ live \in Nat
  /\ lock \in Arenas \cup {none}
  /\ desc \in Seq(DescType) /\ pool \in Seq(Nat) /\ mapped \subseteq 1 .. Units
  /\ spans \in [Arenas -> Seq(Nat)] /\ cache \in [Arenas -> Nat \cup {none}]
  /\ proc \in [Arenas -> ProcType]
  /\ \A a \in Arenas : proc[a].pc \in {"slot", "unit", "again"} => proc[a].t \in DOMAIN table

-------------------------------------------------------------------------------
(***************************************************************************)
(* Who has which descriptor.                                               *)
(***************************************************************************)
\* The descriptor an operation has in hand, and the list an arena's spans are in:
\* a reset has taken its own over.
Hand(a)  == IF proc[a].pc \in Busy THEN {proc[a].d} ELSE {}
List(a)  == IF proc[a].reset THEN proc[a].todo ELSE spans[a]
Stock(a) == Range(List(a))

\* A span is released while it is in the arena's list.
Listed(a) == proc[a].pc \in {"unregister", "del", "disown"} /\ ~proc[a].reset

\* What the fields of an operation say of each other.
ProcShape(a) ==
  /\ proc[a].pc = "idle" => proc[a] = Idle
  /\ proc[a].pc \in Looking <=> proc[a].p # 0
  /\ proc[a].reset => proc[a].pc \in {"unregister", "del", "disown", "unmap", "recycle"}
  /\ ~proc[a].reset => proc[a].todo = <<>>
  /\ lock = a <=> proc[a].pc \in {"add", "span", "undo", "del"}

Owned ==
  /\ OneToOne(pool) /\ Range(pool) \subseteq DOMAIN desc
  /\ \A a \in Arenas :
       /\ OneToOne(List(a))
       /\ Stock(a) \cup Hand(a) \subseteq DOMAIN desc
       /\ Hand(a) \cap Stock(a) = IF Listed(a) THEN Hand(a) ELSE {}
       /\ (Stock(a) \cup Hand(a)) \cap Range(pool) = {}
  /\ \A a, b \in Arenas : a # b => (Stock(a) \cup Hand(a)) \cap (Stock(b) \cup Hand(b)) = {}

Custody == (\A a \in Arenas : ProcShape(a)) /\ Owned

-------------------------------------------------------------------------------
(***************************************************************************)
(* The spans that are mapped, and what is filed of them.                   *)
(***************************************************************************)
Standing(a) ==
  Stock(a) \cup (IF proc[a].pc \in Busy \ {"map", "recycle"} THEN {proc[a].d} ELSE {})

\* The descriptors whose bounds and magic hold.
Marked(a) ==
  Stock(a) \cup (IF proc[a].pc \in {"register", "add", "span", "unregister", "del", "disown"}
                 THEN {proc[a].d} ELSE {})

SpanMapped(d) ==
  desc[d].base >= 1 /\ desc[d].size >= 1 /\ UnitsOf(d) \subseteq mapped

SpanMarked(a, d) ==
  /\ desc[d].owner = a /\ desc[d].magic
  /\ desc[d].lo = 2 * desc[d].base + 1 /\ desc[d].hi = 2 * (desc[d].base + desc[d].size)

\* How far a registration or its reversal has come.
Phase(a) ==
  LET lo == desc[proc[a].d].base
      hi == desc[proc[a].d].base + desc[proc[a].d].size - 1
  IN  /\ proc[a].pc = "map" => proc[a].n >= 1
      /\ proc[a].pc = "register" => proc[a].n = desc[proc[a].d].size
      /\ proc[a].pc \in {"add", "span", "undo", "del"} =>
           lo <= proc[a].u /\ proc[a].u <= proc[a].end /\ proc[a].end <= hi
      /\ proc[a].pc \in {"add", "span", "del"} => proc[a].end = hi

Mappings ==
  /\ \A a \in Arenas : \A d \in Standing(a) : SpanMapped(d)
  /\ \A a, b \in Arenas : \A d \in Standing(a), e \in Standing(b) :
       d # e => UnitsOf(d) \cap UnitsOf(e) = {}
  /\ \A a \in Arenas : \A d \in Marked(a) : SpanMarked(a, d)
  /\ \A a \in Arenas : Phase(a)

\* The units of the span at hand that are in the table.
Filing(a) ==
  IF proc[a].pc \in {"add", "span"} THEN desc[proc[a].d].base .. proc[a].u - 1
  ELSE IF proc[a].pc \in {"undo", "del"} THEN proc[a].u .. proc[a].end
  ELSE IF proc[a].pc = "unregister" THEN UnitsOf(proc[a].d)
  ELSE {}

Due(a, u, d) ==
  \/ d \in Stock(a) \ Hand(a) /\ u \in UnitsOf(d)
  \/ d \in Hand(a) /\ u \in Filing(a)

Counted ==
  /\ used = Cardinality(Cells(g_index)) /\ live = Cardinality(Files(g_index))
  /\ 2 * used < g_index.cap
  /\ \A a \in Arenas : proc[a].pc = "span" => ~Crowded

Exact ==
  \A u \in Nat, d \in Nat \ {0} : Entered(g_index, u, d) <=> \E a \in Arenas : Due(a, u, d)

\* Nothing but spans' units was ever entered.
Index == Chained(g_index) /\ Single(g_index) /\ Exact /\ Counted

-------------------------------------------------------------------------------
(***************************************************************************)
(* What a lookup has found out.                                            *)
(***************************************************************************)
Right(p, d) == d \in Covering(p)

\* From the k-th slot on, the chain leads to the entry of the address, if there
\* is one; and what is entered for its unit is right.
OnTheWay(ix, p, k) ==
  /\ \A i \in 0 .. ix.cap - 1 :
       InUse(ix, i) /\ ix.slot[i].unit = unit_of(p) => Right(p, ix.slot[i].span)
  /\ Covering(p) # {} =>
       \E m \in k .. ix.cap - 1 :
         /\ Filed(ix, Probe(ix, unit_of(p), m), unit_of(p))
         /\ \A h \in k .. m - 1 : Full(ix, Probe(ix, unit_of(p), h))

Seeks(a) ==
  LET ix == table[proc[a].t]
      p  == proc[a].p
      i  == proc[a].i
  IN  /\ proc[a].pc \in Looking => p \in Addresses /\ (Covering(p) # {} \/ unit_of(p) \notin mapped)
      /\ proc[a].pc \in {"slot", "unit"} =>
           /\ proc[a].k \in 0 .. ix.cap /\ i = Probe(ix, unit_of(p), proc[a].k)
           /\ OnTheWay(ix, p, proc[a].k)
      /\ proc[a].pc = "unit" =>
           /\ proc[a].k < ix.cap /\ ix.slot[i].span \in {proc[a].d, MM_UNIT_TOMB}
           /\ proc[a].d \notin {none, MM_UNIT_TOMB}
           /\ ix.slot[i].unit = unit_of(p) => Right(p, proc[a].d)
      /\ proc[a].pc = "check" => Right(p, proc[a].d)
      /\ proc[a].pc = "again" => Covering(p) = {}
      /\ proc[a].pc = "answer" =>
           Covering(p) = IF proc[a].d = none THEN {} ELSE {proc[a].d}

\* A cache holds a span of its arena that is not being taken off the table.
Cached(a) ==
  ~proc[a].reset /\ cache[a] # none =>
    /\ cache[a] \in Range(spans[a])
    /\ proc[a].pc \in {"del", "disown"} => cache[a] # proc[a].d

Lookups == \A a \in Arenas : Seeks(a) /\ Cached(a)

-------------------------------------------------------------------------------
(***************************************************************************)
(* What each operation of an arena does to its own fields.                 *)
(***************************************************************************)
ProcFields(r) ==
  /\ r.pc \in Busy \cup Looking \cup {"idle"} /\ r.d \in Nat \cup {none} /\ r.n \in 0 .. 2
  /\ r.u \in Nat /\ r.end \in Int /\ r.todo \in Seq(Nat) /\ r.reset \in BOOLEAN /\ r.p \in Nat
  /\ r.t \in Nat /\ r.i \in Nat /\ r.k \in Nat /\ r.keep \in BOOLEAN

LEMMA ProcHas ==
  ASSUME NEW r \in ProcType
  PROVE  ProcFields(r)
  BY DEF ProcType, ProcFields

LEMMA IdleType == Idle \in ProcType
<1>1. <<>> \in Seq(Nat)
  OBVIOUS
<1>2. Idle \in [pc : Busy \cup Looking \cup {"idle"}, d : Nat \cup {none}, n : 0 .. 2,
              u : Nat, end : Int, todo : Seq(Nat), reset : BOOLEAN, p : Nat,
              t : Nat, i : Nat, k : Nat, keep : BOOLEAN]
  BY <1>1 DEF Idle
<1> QED
  BY <1>2 DEF ProcType

Others(a) == \A b \in Arenas \ {a} : proc'[b] = proc[b]

\* The fields of a registration or a release.
After(a, pc, d, n, u, end) ==
  /\ proc' \in [Arenas -> ProcType] /\ Others(a)
  /\ proc'[a].pc = pc /\ proc'[a].d = d /\ proc'[a].n = n /\ proc'[a].u = u /\ proc'[a].end = end
  /\ proc'[a].todo = proc[a].todo /\ (proc'[a].reset <=> proc[a].reset) /\ proc'[a].p = proc[a].p

LEMMA AfterGoto ==
  ASSUME proc \in [Arenas -> ProcType], NEW a \in Arenas,
         NEW label \in Busy \cup Looking \cup {"idle"}, Goto(a, label)
  PROVE  After(a, label, proc[a].d, proc[a].n, proc[a].u, proc[a].end)
<1>1. proc[a] \in ProcType
  OBVIOUS
<1>2. proc' = [proc EXCEPT ![a].pc = label]
  BY DEF Goto
<1>3. proc'[a] = [proc[a] EXCEPT !.pc = label] /\ Others(a)
  BY <1>2 DEF Others
<1>4. [proc[a] EXCEPT !.pc = label] \in ProcType
  BY <1>1 DEF ProcType
<1>5. proc' \in [Arenas -> ProcType]
  BY <1>2, <1>3, <1>4
<1>6. /\ proc'[a].pc = label /\ proc'[a].d = proc[a].d /\ proc'[a].n = proc[a].n
      /\ proc'[a].u = proc[a].u /\ proc'[a].end = proc[a].end /\ proc'[a].todo = proc[a].todo
      /\ proc'[a].p = proc[a].p
  BY <1>1, <1>3 DEF ProcType
<1>7. proc'[a].reset <=> proc[a].reset
  BY <1>1, <1>3 DEF ProcType
<1> QED
  BY <1>3, <1>5, <1>6, <1>7 DEF After

LEMMA AfterReturn ==
  ASSUME proc \in [Arenas -> ProcType], NEW a \in Arenas, Return(a)
  PROVE  proc' \in [Arenas -> ProcType] /\ Others(a) /\ proc'[a] = Idle
  BY IdleType DEF Return, Others

LEMMA AfterAlloc ==
  ASSUME proc \in [Arenas -> ProcType], NEW a \in Arenas, NEW d \in Nat, NEW n \in 1 .. 2,
         proc' = [proc EXCEPT ![a].pc = "map", ![a].d = d, ![a].n = n]
  PROVE  After(a, "map", d, n, proc[a].u, proc[a].end)
<1>1. proc[a] \in ProcType
  OBVIOUS
<1> DEFINE r == [proc[a] EXCEPT !.pc = "map", !.d = d, !.n = n]
<1>2. proc'[a] = r /\ Others(a)
  BY DEF Others
<1>3. r \in ProcType
  <2>1. n \in 0 .. 2 /\ "map" \in Busy
    BY DEF Busy
  <2> QED
    BY <1>1, <2>1 DEF ProcType
<1>4. proc' \in [Arenas -> ProcType]
  BY <1>2, <1>3
<1>5. /\ r.pc = "map" /\ r.d = d /\ r.n = n /\ r.u = proc[a].u /\ r.end = proc[a].end
      /\ r.todo = proc[a].todo /\ r.p = proc[a].p
  BY <1>1 DEF ProcType
<1>6. r.reset <=> proc[a].reset
  BY <1>1 DEF ProcType
<1> QED
  BY <1>2, <1>4, <1>5, <1>6 DEF After

\* A step on to another unit.
LEMMA AfterUnit ==
  ASSUME proc \in [Arenas -> ProcType], NEW a \in Arenas, NEW u \in Nat, NEW end \in Int,
         NEW label \in Busy,
         proc' = [proc EXCEPT ![a].pc = label, ![a].u = u, ![a].end = end]
  PROVE  After(a, label, proc[a].d, proc[a].n, u, end)
<1>1. proc[a] \in ProcType
  OBVIOUS
<1> DEFINE r == [proc[a] EXCEPT !.pc = label, !.u = u, !.end = end]
<1>2. proc'[a] = r /\ Others(a)
  BY DEF Others
<1>3. r \in ProcType
  BY <1>1 DEF ProcType
<1>4. proc' \in [Arenas -> ProcType]
  BY <1>2, <1>3
<1>5. /\ r.pc = label /\ r.d = proc[a].d /\ r.n = proc[a].n /\ r.u = u /\ r.end = end
      /\ r.todo = proc[a].todo /\ r.p = proc[a].p
  BY <1>1 DEF ProcType
<1>6. r.reset <=> proc[a].reset
  BY <1>1 DEF ProcType
<1> QED
  BY <1>2, <1>4, <1>5, <1>6 DEF After

LEMMA AfterPut ==
  ASSUME proc \in [Arenas -> ProcType], NEW a \in Arenas, NEW label \in Busy,
         proc' = [proc EXCEPT ![a].pc = label, ![a].u = @ + 1]
  PROVE  After(a, label, proc[a].d, proc[a].n, proc[a].u + 1, proc[a].end)
<1>1. proc[a] \in ProcType
  OBVIOUS
<1>2. proc[a].u \in Nat
  BY <1>1 DEF ProcType
<1> DEFINE r == [proc[a] EXCEPT !.pc = label, !.u = proc[a].u + 1]
<1>3. proc'[a] = r /\ Others(a)
  BY <1>1 DEF Others, ProcType
<1>4. r \in ProcType
  <2> DEFINE v == proc[a].u + 1
  <2>1. v \in Nat
    BY <1>2
  <2> HIDE DEF v
  <2>2. r = [proc[a] EXCEPT !.pc = label, !.u = v]
    BY DEF v
  <2> QED
    BY <1>1, <2>1, <2>2 DEF ProcType
<1>5. proc' \in [Arenas -> ProcType]
  BY <1>3, <1>4
<1>6. /\ r.pc = label /\ r.d = proc[a].d /\ r.n = proc[a].n /\ r.u = proc[a].u + 1 /\ r.end = proc[a].end
      /\ r.todo = proc[a].todo /\ r.p = proc[a].p
  BY <1>1 DEF ProcType
<1>7. r.reset <=> proc[a].reset
  BY <1>1 DEF ProcType
<1> QED
  BY <1>3, <1>5, <1>6, <1>7 DEF After

LEMMA AfterDel ==
  ASSUME proc \in [Arenas -> ProcType], NEW a \in Arenas,
         proc' = [proc EXCEPT ![a].u = @ + 1]
  PROVE  After(a, proc[a].pc, proc[a].d, proc[a].n, proc[a].u + 1, proc[a].end)
<1>1. proc[a] \in ProcType
  OBVIOUS
<1>2. proc[a].u \in Nat
  BY <1>1 DEF ProcType
<1> DEFINE r == [proc[a] EXCEPT !.u = proc[a].u + 1]
<1>3. proc'[a] = r /\ Others(a)
  BY <1>1 DEF Others, ProcType
<1>4. r \in ProcType
  <2> DEFINE v == proc[a].u + 1
  <2>1. v \in Nat
    BY <1>2
  <2> HIDE DEF v
  <2>2. r = [proc[a] EXCEPT !.u = v]
    BY DEF v
  <2> QED
    BY <1>1, <2>1, <2>2 DEF ProcType
<1>5. proc' \in [Arenas -> ProcType]
  BY <1>3, <1>4
<1>6. /\ r.pc = proc[a].pc /\ r.d = proc[a].d /\ r.n = proc[a].n /\ r.u = proc[a].u + 1 /\ r.end = proc[a].end
      /\ r.todo = proc[a].todo /\ r.p = proc[a].p
  BY <1>1 DEF ProcType
<1>7. r.reset <=> proc[a].reset
  BY <1>1 DEF ProcType
<1> QED
  BY <1>3, <1>5, <1>6, <1>7 DEF After

LEMMA AfterRelease ==
  ASSUME proc \in [Arenas -> ProcType], NEW a \in Arenas, NEW d \in Nat,
         proc' = [proc EXCEPT ![a].pc = "unregister", ![a].d = d]
  PROVE  After(a, "unregister", d, proc[a].n, proc[a].u, proc[a].end)
<1>1. proc[a] \in ProcType
  OBVIOUS
<1> DEFINE r == [proc[a] EXCEPT !.pc = "unregister", !.d = d]
<1>2. proc'[a] = r /\ Others(a)
  BY DEF Others
<1>3. r \in ProcType
  BY <1>1 DEF ProcType, Busy
<1>4. proc' \in [Arenas -> ProcType]
  BY <1>2, <1>3
<1>5. /\ r.pc = "unregister" /\ r.d = d /\ r.n = proc[a].n /\ r.u = proc[a].u /\ r.end = proc[a].end
      /\ r.todo = proc[a].todo /\ r.p = proc[a].p
  BY <1>1 DEF ProcType
<1>6. r.reset <=> proc[a].reset
  BY <1>1 DEF ProcType
<1> QED
  BY <1>2, <1>4, <1>5, <1>6 DEF After

\* A reset takes up the next span.
AfterNext(a, d, todo) ==
  /\ proc' \in [Arenas -> ProcType] /\ Others(a)
  /\ proc'[a].pc = "unregister" /\ proc'[a].d = d /\ proc'[a].todo = todo
  /\ proc'[a].reset /\ proc'[a].p = proc[a].p

LEMMA AfterReset ==
  ASSUME proc \in [Arenas -> ProcType], NEW a \in Arenas, NEW d \in Nat, NEW todo \in Seq(Nat),
         proc' = [proc EXCEPT ![a].pc = "unregister", ![a].reset = TRUE, ![a].d = d, ![a].todo = todo]
  PROVE  AfterNext(a, d, todo)
<1>1. proc[a] \in ProcType
  OBVIOUS
<1> DEFINE r == [proc[a] EXCEPT !.pc = "unregister", !.reset = TRUE, !.d = d, !.todo = todo]
<1>2. proc'[a] = r /\ Others(a)
  BY DEF Others
<1>3. r \in ProcType
  BY <1>1 DEF ProcType, Busy
<1>4. proc' \in [Arenas -> ProcType]
  BY <1>2, <1>3
<1>5. r.pc = "unregister" /\ r.d = d /\ r.todo = todo /\ r.p = proc[a].p
  BY <1>1 DEF ProcType
<1>6. r.reset
  BY <1>1 DEF ProcType
<1> QED
  BY <1>2, <1>4, <1>5, <1>6 DEF AfterNext

LEMMA AfterTodo ==
  ASSUME proc \in [Arenas -> ProcType], NEW a \in Arenas, NEW d \in Nat, NEW todo \in Seq(Nat),
         proc[a].reset,
         proc' = [proc EXCEPT ![a].pc = "unregister", ![a].d = d, ![a].todo = todo]
  PROVE  AfterNext(a, d, todo)
<1>1. proc[a] \in ProcType
  OBVIOUS
<1> DEFINE r == [proc[a] EXCEPT !.pc = "unregister", !.d = d, !.todo = todo]
<1>2. proc'[a] = r /\ Others(a)
  BY DEF Others
<1>3. r \in ProcType
  BY <1>1 DEF ProcType, Busy
<1>4. proc' \in [Arenas -> ProcType]
  BY <1>2, <1>3
<1>5. r.pc = "unregister" /\ r.d = d /\ r.todo = todo /\ r.p = proc[a].p
  BY <1>1 DEF ProcType
<1>6. r.reset
  BY <1>1 DEF ProcType
<1> QED
  BY <1>2, <1>4, <1>5, <1>6 DEF AfterNext

-------------------------------------------------------------------------------
(***************************************************************************)
(* Custody, one operation at a time.                                       *)
(***************************************************************************)
Has(a) == Stock(a) \cup Hand(a)

Handles(a) ==
  /\ OneToOne(List(a)) /\ Has(a) \subseteq DOMAIN desc
  /\ Hand(a) \cap Stock(a) = IF Listed(a) THEN Hand(a) ELSE {}
  /\ Has(a) \cap Range(pool) = {}

LEMMA OwnedIs ==
  Owned <=> /\ OneToOne(pool) /\ Range(pool) \subseteq DOMAIN desc
            /\ \A a \in Arenas : Handles(a)
            /\ \A a, b \in Arenas : a # b => Has(a) \cap Has(b) = {}
  BY DEF Owned, Handles, Has

\* The lists of the other arenas stay as they are.
Apart(a) == \A b \in Arenas \ {a} : proc'[b] = proc[b] /\ spans'[b] = spans[b]

LEMMA OthersKeep ==
  ASSUME NEW a \in Arenas, NEW b \in Arenas \ {a}, Apart(a)
  PROVE  /\ Stock(b)' = Stock(b) /\ Hand(b)' = Hand(b) /\ List(b)' = List(b)
         /\ (Listed(b)' <=> Listed(b)) /\ Has(b)' = Has(b)
         /\ Standing(b)' = Standing(b) /\ Marked(b)' = Marked(b)
<1>1. proc'[b] = proc[b] /\ spans'[b] = spans[b]
  BY DEF Apart
<1>2. Hand(b)' = Hand(b)
  BY <1>1 DEF Hand
<1>3. List(b)' = List(b)
  BY <1>1 DEF List
<1>4. Stock(b)' = Stock(b)
  BY <1>3 DEF Stock
<1> QED
  BY <1>1, <1>2, <1>3, <1>4 DEF Listed, Has, Standing, Marked

\* What an operation may do with descriptors: it works with its own, with those
\* of the pool and with one that is new.
LEMMA OwnedStep ==
  ASSUME NEW a \in Arenas, Owned, Apart(a), DOMAIN desc \subseteq DOMAIN desc',
         OneToOne(pool)', Handles(a)', Range(pool)' \subseteq DOMAIN desc',
         \A x \in Has(a)' \cup Range(pool)' :
           x \in Has(a) \/ x \in Range(pool) \/ x \notin DOMAIN desc
  PROVE  Owned'
<1>1. /\ OneToOne(pool) /\ Range(pool) \subseteq DOMAIN desc
      /\ \A b \in Arenas : Handles(b)
      /\ \A b, c \in Arenas : b # c => Has(b) \cap Has(c) = {}
  BY OwnedIs
<1>2. ASSUME NEW b \in Arenas \ {a}
      PROVE  Has(b)' = Has(b) /\ Has(b) \subseteq DOMAIN desc /\ Has(b) \cap Range(pool) = {}
             /\ Has(b) \cap Has(a) = {}
  <2>1. Has(b)' = Has(b)
    BY OthersKeep
  <2>2. Handles(b)
    BY <1>1
  <2> QED
    BY <1>1, <2>1, <2>2 DEF Handles
<1>3. ASSUME NEW b \in Arenas \ {a}
      PROVE  Handles(b)' /\ Has(b)' \cap Has(a)' = {}
  <2>1. Handles(b)
    BY <1>1
  <2>2. /\ Has(b)' = Has(b) /\ Stock(b)' = Stock(b) /\ Hand(b)' = Hand(b) /\ List(b)' = List(b)
        /\ (Listed(b)' <=> Listed(b))
    BY OthersKeep
  <2>3. \A x \in Has(b) : x \notin Has(a)' /\ x \notin Range(pool)'
    BY <1>2
  <2>4. Has(b)' \cap Range(pool)' = {} /\ Has(b)' \cap Has(a)' = {}
    BY <2>2, <2>3
  <2>5. OneToOne(List(b))'
    BY <2>1, <2>2 DEF Handles
  <2>6. Has(b)' \subseteq DOMAIN desc'
    BY <1>2
  <2>7. (Hand(b) \cap Stock(b) = IF Listed(b) THEN Hand(b) ELSE {})'
    BY <2>1, <2>2 DEF Handles
  <2>8. Handles(b)'
    BY <2>4, <2>5, <2>6, <2>7 DEF Handles
  <2> QED
    BY <2>4, <2>8
<1>4. \A b \in Arenas : Handles(b)'
  BY <1>3
<1>5. ASSUME NEW b \in Arenas, NEW c \in Arenas, b # c
      PROVE  Has(b)' \cap Has(c)' = {}
  <2>1. CASE b = a
    BY <2>1, <1>3, <1>5
  <2>2. CASE c = a
    BY <2>2, <1>3, <1>5
  <2>3. CASE b # a /\ c # a
    BY <2>3, <1>1, <1>2, <1>5
  <2> QED
    BY <2>1, <2>2, <2>3
<1> QED
  BY <1>4, <1>5 DEF Owned, Handles, Has

\* A step that leaves every list and every hand as it is.
LEMMA OwnedSame ==
  ASSUME NEW a \in Arenas, Owned, Apart(a), DOMAIN desc' = DOMAIN desc, pool' = pool,
         List(a)' = List(a), Hand(a)' = Hand(a), Hand(a) # {} => (Listed(a)' <=> Listed(a))
  PROVE  Owned'
<1>1. Handles(a) /\ OneToOne(pool) /\ Range(pool) \subseteq DOMAIN desc
  BY OwnedIs
<1>2. Stock(a)' = Stock(a) /\ Has(a)' = Has(a)
  BY DEF Stock, Has
<1>3. (Hand(a) \cap Stock(a) = IF Listed(a) THEN Hand(a) ELSE {})'
  <2>1. CASE Hand(a) = {}
    BY <2>1
  <2>2. CASE Hand(a) # {}
    BY <2>2, <1>1, <1>2 DEF Handles
  <2> QED
    BY <2>1, <2>2
<1>4. Handles(a)'
  BY <1>1, <1>2, <1>3 DEF Handles
<1>5. OneToOne(pool)' /\ Range(pool)' \subseteq DOMAIN desc' /\ Range(pool)' = Range(pool)
  BY <1>1
<1> QED
  BY <1>2, <1>4, <1>5, OwnedStep

-------------------------------------------------------------------------------
(***************************************************************************)
(* The invariant, and what it says of one operation.                       *)
(***************************************************************************)
IInv == Types /\ Custody /\ Mappings /\ Index /\ Lookups

DescFields(r) ==
  /\ r.owner \in Arenas \cup {none} /\ r.magic \in BOOLEAN /\ r.lo \in Nat /\ r.hi \in Nat
  /\ r.base \in Nat /\ r.size \in Nat

LEMMA DescHas ==
  ASSUME Types
  PROVE  /\ Len(desc) \in Nat /\ DOMAIN desc = 1 .. Len(desc)
         /\ \A d \in DOMAIN desc : d \in Nat \ {0} /\ d # none /\ desc[d] \in DescType /\ DescFields(desc[d])
<1>1. desc \in Seq(DescType)
  BY DEF Types
<1>2. Len(desc) \in Nat /\ DOMAIN desc = 1 .. Len(desc)
  BY <1>1, LenProperties
<1>3. \A d \in DOMAIN desc : desc[d] \in DescType
  BY <1>1, <1>2, ElementOfSeq
<1>4. \A r \in DescType : DescFields(r)
  BY DEF DescType, DescFields
<1>5. \A d \in DOMAIN desc : d \in Nat \ {0} /\ d # none
  BY <1>2, Constants
<1> QED
  BY <1>2, <1>3, <1>4, <1>5

LEMMA TypesOf ==
  ASSUME Types, NEW a \in Arenas
  PROVE  /\ proc[a] \in ProcType /\ ProcFields(proc[a]) /\ proc \in [Arenas -> ProcType]
         /\ spans[a] \in Seq(Nat) /\ List(a) \in Seq(Nat) /\ cache[a] \in Nat \cup {none}
<1>1. proc[a] \in ProcType /\ spans[a] \in Seq(Nat) /\ cache[a] \in Nat \cup {none}
  BY DEF Types
<1>2. ProcFields(proc[a])
  BY <1>1, ProcHas
<1> QED
  BY <1>1, <1>2 DEF Types, List, ProcFields

LEMMA WhenIdle ==
  ASSUME Custody, NEW a \in Arenas, At(a, "idle")
  PROVE  /\ proc[a] = Idle /\ ~proc[a].reset /\ proc[a].todo = <<>> /\ proc[a].p = 0 /\ proc[a].d = none
         /\ Hand(a) = {} /\ List(a) = spans[a] /\ Stock(a) = Range(spans[a]) /\ Has(a) = Stock(a)
         /\ ~Listed(a) /\ lock # a /\ Standing(a) = Stock(a) /\ Marked(a) = Stock(a)
<1>1. ProcShape(a) /\ proc[a].pc = "idle"
  BY DEF Custody, At
<1>2. proc[a] = Idle
  BY <1>1 DEF ProcShape
<1>3. ~proc[a].reset /\ proc[a].todo = <<>> /\ proc[a].p = 0 /\ proc[a].d = none
  BY <1>2 DEF Idle
<1>4. Hand(a) = {} /\ ~Listed(a) /\ lock # a
  BY <1>1 DEF Hand, Listed, Busy, ProcShape
<1>5. List(a) = spans[a]
  BY <1>3 DEF List
<1> QED
  BY <1>1, <1>2, <1>3, <1>4, <1>5 DEF Stock, Has, Standing, Marked, Busy

LEMMA WhenBusy ==
  ASSUME Types, Custody, NEW a \in Arenas, proc[a].pc \in Busy
  PROVE  /\ proc[a].d \in DOMAIN desc /\ proc[a].d \in Nat \ {0} /\ proc[a].d # none
         /\ desc[proc[a].d] \in DescType /\ DescFields(desc[proc[a].d])
         /\ Hand(a) = {proc[a].d} /\ proc[a].p = 0
<1>1. ProcShape(a) /\ Handles(a)
  BY OwnedIs DEF Custody
<1>2. Hand(a) = {proc[a].d}
  BY DEF Hand
<1>3. proc[a].d \in DOMAIN desc
  BY <1>1, <1>2 DEF Handles, Has
<1>4. proc[a].pc \notin Looking
  BY DEF Busy, Looking
<1>5. proc[a].p = 0
  BY <1>1, <1>4 DEF ProcShape
<1> QED
  BY <1>2, <1>3, <1>5, DescHas

\* The one descriptor an operation changes.
DescOnly(d) ==
  /\ desc' \in Seq(DescType) /\ Len(desc') = Len(desc) /\ DOMAIN desc' = DOMAIN desc
  /\ \A e \in DOMAIN desc : e # d => desc'[e] = desc[e]

LEMMA DescSet ==
  ASSUME Types, NEW d \in DOMAIN desc, NEW r \in DescType, desc' = [desc EXCEPT ![d] = r]
  PROVE  DescOnly(d) /\ desc'[d] = r
<1>1. desc \in Seq(DescType) /\ DOMAIN desc = 1 .. Len(desc)
  BY DescHas DEF Types
<1>2. /\ desc' \in Seq(DescType) /\ Len(desc') = Len(desc)
      /\ \A j \in 1 .. Len(desc) : desc'[j] = IF j = d THEN r ELSE desc[j]
  BY <1>1, ExceptSeq
<1> QED
  BY <1>1, <1>2 DEF DescOnly

LEMMA NewDescType == NewDesc \in DescType
  BY Constants DEF NewDesc, DescType

LEMMA FxAlloc ==
  ASSUME Types, Custody, NEW a \in Arenas, NEW n \in 1 .. 2, SpanDescAlloc(a, n)
  PROVE  \E d \in Nat \ {0} :
           /\ After(a, "map", d, n, proc[a].u, proc[a].end)
           /\ d \in DOMAIN desc' /\ DOMAIN desc \subseteq DOMAIN desc' /\ desc' \in Seq(DescType)
           /\ DOMAIN desc' \subseteq DOMAIN desc \cup {d}
           /\ \A e \in DOMAIN desc : e # d => desc'[e] = desc[e]
           /\ pool' \in Seq(Nat) /\ OneToOne(pool') /\ Range(pool') = Range(pool) \ {d}
           /\ d \in Range(pool) \/ d \notin DOMAIN desc
<1> DEFINE d == IF pool # <<>> THEN Head(pool) ELSE Len(desc) + 1
<1>1. /\ desc' = IF pool # <<>> THEN [desc EXCEPT ![d] = NewDesc] ELSE Append(desc, NewDesc)
      /\ proc' = [proc EXCEPT ![a].pc = "map", ![a].d = d, ![a].n = n]
      /\ pool' = IF pool # <<>> THEN Tail(pool) ELSE pool
  BY DEF SpanDescAlloc
<1>2. pool \in Seq(Nat) /\ OneToOne(pool) /\ Range(pool) \subseteq DOMAIN desc /\ proc \in [Arenas -> ProcType]
      /\ desc \in Seq(DescType)
  BY OwnedIs DEF Types, Custody
<1>3. Len(desc) \in Nat /\ DOMAIN desc = 1 .. Len(desc)
  BY DescHas
<1>4. CASE pool # <<>>
  <2>1. d = Head(pool) /\ pool' = Tail(pool) /\ desc' = [desc EXCEPT ![d] = NewDesc]
    BY <1>1, <1>4
  <2>2. /\ Head(pool) \in Range(pool) /\ Head(pool) \in Nat /\ Tail(pool) \in Seq(Nat)
        /\ Range(pool) = Range(Tail(pool)) \cup {Head(pool)}
        /\ OneToOne(Tail(pool)) /\ Head(pool) \notin Range(Tail(pool))
    BY <1>2, <1>4, PopList
  <2> HIDE DEF d
  <2>3. d \in DOMAIN desc /\ d \in Nat \ {0}
    BY <2>1, <2>2, <1>2, <1>3
  <2>4. DescOnly(d)
    BY <2>1, <2>3, NewDescType, DescSet
  <2>5. After(a, "map", d, n, proc[a].u, proc[a].end)
    BY <1>1, <1>2, <2>3, AfterAlloc
  <2>6. Range(pool') = Range(pool) \ {d} /\ pool' \in Seq(Nat) /\ OneToOne(pool')
    BY <2>1, <2>2
  <2>7. d \in Range(pool)
    BY <2>1, <2>2
  <2> QED
    BY <2>3, <2>4, <2>5, <2>6, <2>7 DEF DescOnly
<1>5. CASE pool = <<>>
  <2>1. d = Len(desc) + 1 /\ pool' = pool /\ desc' = Append(desc, NewDesc)
    BY <1>1, <1>5
  <2> HIDE DEF d
  <2>2. /\ desc' \in Seq(DescType) /\ Len(desc') = Len(desc) + 1
        /\ \A i \in 1 .. Len(desc) : desc'[i] = desc[i]
    BY <1>2, <2>1, NewDescType, AppendProperties
  <2>3. DOMAIN desc' = 1 .. Len(desc')
    BY <2>2, LenProperties
  <2>4. d \in Nat \ {0} /\ d \notin DOMAIN desc /\ d \in DOMAIN desc' /\ DOMAIN desc \subseteq DOMAIN desc'
        /\ DOMAIN desc' \subseteq DOMAIN desc \cup {d}
    BY <1>3, <2>1, <2>2, <2>3
  <2>5. After(a, "map", d, n, proc[a].u, proc[a].end)
    BY <1>1, <1>2, <2>4, AfterAlloc
  <2>6. Range(pool') = Range(pool) \ {d} /\ pool' \in Seq(Nat) /\ OneToOne(pool')
    BY <1>2, <2>1, <2>4
  <2> QED
    BY <1>3, <2>2, <2>4, <2>5, <2>6
<1> QED
  BY <1>4, <1>5

\* The fields map_span gives the descriptor of a mapping.
MapGives(a, base) ==
  LET d == proc[a].d
      n == proc[a].n
  IN  /\ base \in 1 .. Units - n + 1 /\ (base .. base + n - 1) \cap (mapped \cup LookedUp) = {}
      /\ mapped' = mapped \cup (base .. base + n - 1)
      /\ After(a, "register", d, n, proc[a].u, proc[a].end) /\ DescOnly(d)
      /\ desc'[d].owner = a /\ desc'[d].magic /\ desc'[d].lo = 2 * base + 1
      /\ desc'[d].hi = 2 * (base + n) /\ desc'[d].base = base /\ desc'[d].size = n

LEMMA FxMap ==
  ASSUME Types, Custody, NEW a \in Arenas, MapChunk(a)
  PROVE  \/ \E base \in Nat : MapGives(a, base)
         \/ /\ After(a, "recycle", proc[a].d, proc[a].n, proc[a].u, proc[a].end)
            /\ mapped' = mapped /\ desc' = desc
<1>1. proc[a].pc = "map" /\ proc \in [Arenas -> ProcType] /\ ProcFields(proc[a])
  BY TypesOf DEF MapChunk, At
<1>2. proc[a].pc \in Busy /\ "register" \in Busy /\ "recycle" \in Busy
  BY <1>1 DEF Busy
<1>3. proc[a].d \in DOMAIN desc
  BY <1>2, WhenBusy
<1>4. proc[a].n \in 0 .. 2
  BY <1>1 DEF ProcFields
<1>5. CASE Goto(a, "recycle") /\ UNCHANGED <<mapped, desc>>
  BY <1>1, <1>2, <1>5, AfterGoto
<1>6. ASSUME NEW base \in 1 .. Units - proc[a].n + 1,
             LET new == base .. base + proc[a].n - 1
             IN  /\ new \cap (mapped \cup LookedUp) = {}
                 /\ mapped' = mapped \cup new
                 /\ desc' = [desc EXCEPT ![proc[a].d] =
                      [owner |-> a, magic |-> TRUE, lo |-> 2 * base + 1,
                       hi |-> 2 * (base + proc[a].n), base |-> base, size |-> proc[a].n]]
                 /\ Goto(a, "register")
      PROVE  base \in Nat /\ MapGives(a, base)
  <2> DEFINE r == [owner |-> a, magic |-> TRUE, lo |-> 2 * base + 1,
                   hi |-> 2 * (base + proc[a].n), base |-> base, size |-> proc[a].n]
  <2>1. base \in Nat
    BY <1>4, Constants
  <2>2. r \in DescType
    <3>1. 2 * base + 1 \in Nat /\ 2 * (base + proc[a].n) \in Nat /\ proc[a].n \in Nat
      BY <1>4, <2>1
    <3> QED
      BY <2>1, <3>1 DEF DescType
  <2>3. desc' = [desc EXCEPT ![proc[a].d] = r]
    BY <1>6
  <2>4. r.owner = a /\ r.lo = 2 * base + 1 /\ r.hi = 2 * (base + proc[a].n) /\ r.base = base /\ r.size = proc[a].n
    OBVIOUS
  <2>5. r.magic
    OBVIOUS
  <2> HIDE DEF r
  <2>6. DescOnly(proc[a].d) /\ desc'[proc[a].d] = r
    BY <1>3, <2>2, <2>3, DescSet
  <2>7. After(a, "register", proc[a].d, proc[a].n, proc[a].u, proc[a].end)
    BY <1>1, <1>2, <1>6, AfterGoto
  <2> QED
    BY <1>6, <2>1, <2>4, <2>5, <2>6, <2>7 DEF MapGives
<1> QED
  BY <1>5, <1>6 DEF MapChunk

LEMMA FxRegister ==
  ASSUME Types, Custody, NEW a \in Arenas, RegisterBegin(a)
  PROVE  After(a, "add", proc[a].d, proc[a].n, desc[proc[a].d].base,
               desc[proc[a].d].base + proc[a].n - 1)
<1>1. proc[a].pc = "register" /\ proc \in [Arenas -> ProcType] /\ ProcFields(proc[a])
  BY TypesOf DEF RegisterBegin, At
<1>2. proc[a].pc \in Busy /\ "add" \in Busy
  BY <1>1 DEF Busy
<1>3. DescFields(desc[proc[a].d])
  BY <1>2, WhenBusy
<1> DEFINE b == desc[proc[a].d].base
           e == desc[proc[a].d].base + proc[a].n - 1
<1>4. b \in Nat /\ e \in Int
  BY <1>1, <1>3 DEF DescFields, ProcFields
<1>5. proc' = [proc EXCEPT ![a].pc = "add", ![a].u = b, ![a].end = e]
  BY DEF RegisterBegin
<1> HIDE DEF b, e
<1>6. After(a, "add", proc[a].d, proc[a].n, b, e)
  BY <1>1, <1>2, <1>4, <1>5, AfterUnit
<1> QED
  BY <1>6 DEF b, e

LEMMA FxFails ==
  ASSUME Types, Custody, NEW a \in Arenas, IndexRehashFails(a)
  PROVE  \/ /\ proc[a].u = desc[proc[a].d].base /\ lock' = none
            /\ After(a, "unmap", proc[a].d, proc[a].n, proc[a].u, proc[a].end)
         \/ /\ proc[a].u # desc[proc[a].d].base /\ lock' = lock
            /\ After(a, "undo", proc[a].d, proc[a].n, desc[proc[a].d].base, proc[a].u - 1)
<1>1. proc[a].pc = "add" /\ proc \in [Arenas -> ProcType] /\ ProcFields(proc[a])
  BY TypesOf DEF IndexRehashFails, At
<1>2. proc[a].pc \in Busy /\ "unmap" \in Busy /\ "undo" \in Busy
  BY <1>1 DEF Busy
<1>3. DescFields(desc[proc[a].d])
  BY <1>2, WhenBusy
<1>4. CASE proc[a].u = desc[proc[a].d].base
  <2>1. lock' = none /\ Goto(a, "unmap")
    BY <1>4 DEF IndexRehashFails
  <2>2. After(a, "unmap", proc[a].d, proc[a].n, proc[a].u, proc[a].end)
    BY <1>1, <1>2, <2>1, AfterGoto
  <2> QED
    BY <1>4, <2>1, <2>2
<1>5. CASE proc[a].u # desc[proc[a].d].base
  <2> DEFINE b == desc[proc[a].d].base
             e == proc[a].u - 1
  <2>1. b \in Nat /\ e \in Int
    BY <1>1, <1>3 DEF DescFields, ProcFields
  <2>2. proc' = [proc EXCEPT ![a].pc = "undo", ![a].u = b, ![a].end = e] /\ lock' = lock
    BY <1>5 DEF IndexRehashFails
  <2> HIDE DEF b, e
  <2>3. After(a, "undo", proc[a].d, proc[a].n, b, e)
    BY <1>1, <1>2, <2>1, <2>2, AfterUnit
  <2> QED
    BY <1>5, <2>2, <2>3 DEF b, e
<1> QED
  BY <1>4, <1>5

LEMMA FxPutUnit ==
  ASSUME Types, Custody, NEW a \in Arenas, PutUnit(a)
  PROVE  After(a, "span", proc[a].d, proc[a].n, proc[a].u, proc[a].end)
<1>1. "span" \in Busy /\ proc \in [Arenas -> ProcType] /\ Goto(a, "span")
  BY TypesOf DEF PutUnit, Busy
<1> QED
  BY <1>1, AfterGoto

\* The last unit is in: the span joins the list.
PutLast(a) ==
  /\ ~(proc[a].u < proc[a].end) /\ lock' = none
  /\ proc' \in [Arenas -> ProcType] /\ Others(a) /\ proc'[a] = Idle
  /\ spans'[a] = <<proc[a].d>> \o spans[a] /\ spans' \in [Arenas -> Seq(Nat)]
  /\ \A b \in Arenas \ {a} : spans'[b] = spans[b]

LEMMA FxPutSpan ==
  ASSUME Types, Custody, NEW a \in Arenas, PutSpan(a)
  PROVE  \/ /\ proc[a].u < proc[a].end /\ lock' = lock /\ spans' = spans
            /\ After(a, "add", proc[a].d, proc[a].n, proc[a].u + 1, proc[a].end)
         \/ PutLast(a)
<1>1. proc[a].pc = "span" /\ proc \in [Arenas -> ProcType]
  BY TypesOf DEF PutSpan, At
<1>2. proc[a].pc \in Busy /\ "add" \in Busy
  BY <1>1 DEF Busy
<1>3. CASE proc[a].u < proc[a].end
  <2>1. proc' = [proc EXCEPT ![a].pc = "add", ![a].u = @ + 1] /\ lock' = lock /\ spans' = spans
    BY <1>3 DEF PutSpan
  <2>2. After(a, "add", proc[a].d, proc[a].n, proc[a].u + 1, proc[a].end)
    BY <1>1, <1>2, <2>1, AfterPut
  <2> QED
    BY <1>3, <2>1, <2>2
<1>4. CASE ~(proc[a].u < proc[a].end)
  <2>1. lock' = none /\ Return(a) /\ spans' = [spans EXCEPT ![a] = <<proc[a].d>> \o @]
    BY <1>4 DEF PutSpan
  <2>2. proc' \in [Arenas -> ProcType] /\ Others(a) /\ proc'[a] = Idle
    BY <1>1, <2>1, AfterReturn
  <2>3. spans \in [Arenas -> Seq(Nat)] /\ proc[a].d \in Nat /\ spans[a] \in Seq(Nat)
    BY <1>2, WhenBusy DEF Types
  <2>4. <<proc[a].d>> \o spans[a] \in Seq(Nat)
    BY <2>3, PushList
  <2>5. /\ spans'[a] = <<proc[a].d>> \o spans[a] /\ spans' \in [Arenas -> Seq(Nat)]
        /\ \A b \in Arenas \ {a} : spans'[b] = spans[b]
    BY <2>1, <2>3, <2>4
  <2> QED
    BY <1>4, <2>1, <2>2, <2>5 DEF PutLast
<1> QED
  BY <1>3, <1>4

LEMMA FxRelease ==
  ASSUME Types, Custody, NEW a \in Arenas, NEW d, ReleaseSpan(a, d)
  PROVE  After(a, "unregister", d, proc[a].n, proc[a].u, proc[a].end) /\ d \in Nat
<1>1. proc \in [Arenas -> ProcType] /\ spans[a] \in Seq(Nat)
  BY TypesOf
<1>2. d \in Range(spans[a]) /\ proc' = [proc EXCEPT ![a].pc = "unregister", ![a].d = d]
  BY DEF ReleaseSpan
<1>3. d \in Nat
  BY <1>1, <1>2, SeqRange
<1> QED
  BY <1>1, <1>2, <1>3, AfterRelease

LEMMA FxReset ==
  ASSUME Types, Custody, NEW a \in Arenas, ArenaReset(a)
  PROVE  AfterNext(a, Head(spans[a]), Tail(spans[a]))
<1> DEFINE d == Head(spans[a])
           s == Tail(spans[a])
<1>1. proc \in [Arenas -> ProcType] /\ spans[a] \in Seq(Nat) /\ spans[a] # <<>>
  BY TypesOf DEF ArenaReset
<1>2. d \in Nat /\ s \in Seq(Nat)
  BY <1>1, PopList
<1>3. proc' = [proc EXCEPT ![a].pc = "unregister", ![a].reset = TRUE, ![a].d = d, ![a].todo = s]
  BY DEF ArenaReset
<1> HIDE DEF d, s
<1>4. AfterNext(a, d, s)
  BY <1>1, <1>2, <1>3, AfterReset
<1> QED
  BY <1>4 DEF d, s

LEMMA FxUnregister ==
  ASSUME Types, Custody, NEW a \in Arenas, UnregisterBegin(a)
  PROVE  /\ After(a, "del", proc[a].d, proc[a].n, desc[proc[a].d].base,
                  desc[proc[a].d].base + desc[proc[a].d].size - 1)
         /\ cache' \in [Arenas -> Nat \cup {none}]
         /\ cache'[a] = IF cache[a] = proc[a].d THEN none ELSE cache[a]
         /\ \A b \in Arenas \ {a} : cache'[b] = cache[b]
<1>1. proc[a].pc = "unregister" /\ proc \in [Arenas -> ProcType] /\ ProcFields(proc[a])
  BY TypesOf DEF UnregisterBegin, At
<1>2. proc[a].pc \in Busy /\ "del" \in Busy
  BY <1>1 DEF Busy
<1>3. DescFields(desc[proc[a].d])
  BY <1>2, WhenBusy
<1> DEFINE b == desc[proc[a].d].base
           e == desc[proc[a].d].base + desc[proc[a].d].size - 1
<1>4. b \in Nat /\ e \in Int
  BY <1>1, <1>3 DEF DescFields, ProcFields
<1>5. proc' = [proc EXCEPT ![a].pc = "del", ![a].u = b, ![a].end = e]
  BY DEF UnregisterBegin
<1> HIDE DEF b, e
<1>6. After(a, "del", proc[a].d, proc[a].n, b, e)
  BY <1>1, <1>2, <1>4, <1>5, AfterUnit
<1>7. cache \in [Arenas -> Nat \cup {none}]
      /\ cache' = [cache EXCEPT ![a] = IF @ = proc[a].d THEN none ELSE @]
  BY DEF Types, UnregisterBegin
<1>8. cache' \in [Arenas -> Nat \cup {none}]
  BY <1>7
<1>9. cache'[a] = IF cache[a] = proc[a].d THEN none ELSE cache[a]
  BY <1>7
<1>10. \A x \in Arenas \ {a} : cache'[x] = cache[x]
  BY <1>7
<1> QED
  BY <1>6, <1>8, <1>9, <1>10 DEF b, e

LEMMA FxDel ==
  ASSUME Types, Custody, NEW a \in Arenas, IndexDel(a)
  PROVE  \/ /\ proc[a].u < proc[a].end /\ lock' = lock
            /\ After(a, proc[a].pc, proc[a].d, proc[a].n, proc[a].u + 1, proc[a].end)
         \/ /\ ~(proc[a].u < proc[a].end) /\ lock' = none
            /\ After(a, IF proc[a].pc = "del" THEN "disown" ELSE "unmap",
                     proc[a].d, proc[a].n, proc[a].u, proc[a].end)
<1>1. proc \in [Arenas -> ProcType] /\ "disown" \in Busy /\ "unmap" \in Busy
  BY TypesOf DEF Busy
<1>2. CASE proc[a].u < proc[a].end
  <2>1. proc' = [proc EXCEPT ![a].u = @ + 1] /\ lock' = lock
    BY <1>2 DEF IndexDel
  <2>2. After(a, proc[a].pc, proc[a].d, proc[a].n, proc[a].u + 1, proc[a].end)
    BY <1>1, <2>1, AfterDel
  <2> QED
    BY <1>2, <2>1, <2>2
<1>3. CASE ~(proc[a].u < proc[a].end)
  <2> DEFINE l == IF proc[a].pc = "del" THEN "disown" ELSE "unmap"
  <2>1. lock' = none /\ Goto(a, l)
    BY <1>3 DEF IndexDel, At
  <2>2. l \in Busy \cup Looking \cup {"idle"}
    BY <1>1
  <2> HIDE DEF l
  <2>3. After(a, l, proc[a].d, proc[a].n, proc[a].u, proc[a].end)
    BY <1>1, <2>1, <2>2, AfterGoto
  <2> QED
    BY <1>3, <2>1, <2>3 DEF l
<1> QED
  BY <1>2, <1>3

\* Off the list; the bounds and the magic go, the units stay known.
Disowned(a) ==
  /\ After(a, "unmap", proc[a].d, proc[a].n, proc[a].u, proc[a].end) /\ DescOnly(proc[a].d)
  /\ desc'[proc[a].d].base = desc[proc[a].d].base /\ desc'[proc[a].d].size = desc[proc[a].d].size
  /\ spans' \in [Arenas -> Seq(Nat)] /\ \A b \in Arenas \ {a} : spans'[b] = spans[b]
  /\ (proc[a].reset => spans'[a] = spans[a])
  /\ (~proc[a].reset => OneToOne(spans'[a]) /\ Range(spans'[a]) = Range(spans[a]) \ {proc[a].d})

LEMMA FxDisown ==
  ASSUME Types, Custody, NEW a \in Arenas, Disown(a)
  PROVE  Disowned(a)
<1> DEFINE d == proc[a].d
<1>1. proc[a].pc = "disown" /\ proc \in [Arenas -> ProcType] /\ spans[a] \in Seq(Nat)
      /\ spans \in [Arenas -> Seq(Nat)]
  BY TypesOf DEF Disown, At, Types
<1>2. proc[a].pc \in Busy /\ "unmap" \in Busy
  BY <1>1 DEF Busy
<1>3. d \in DOMAIN desc /\ desc[d] \in DescType /\ Hand(a) = {d} /\ Handles(a)
  BY <1>2, WhenBusy, OwnedIs DEF Custody
<1>4. After(a, "unmap", proc[a].d, proc[a].n, proc[a].u, proc[a].end)
  BY <1>1, <1>2, AfterGoto DEF Disown
<1> DEFINE r == [desc[d] EXCEPT !.lo = 0, !.hi = 0, !.magic = FALSE]
<1>5. r \in DescType /\ r.base = desc[d].base /\ r.size = desc[d].size
  BY <1>3 DEF DescType
<1>6. desc' = [desc EXCEPT ![d] = r]
  <2>1. desc' = [desc EXCEPT ![d].lo = 0, ![d].hi = 0, ![d].magic = FALSE]
    BY DEF Disown
  <2> QED
    BY <1>3, <2>1
<1>7. DescOnly(d) /\ desc'[d] = r
  BY <1>3, <1>5, <1>6, DescSet
<1> DEFINE t == RemoveAt(spans[a], CHOOSE i \in DOMAIN spans[a] : spans[a][i] = d)
<1>8. spans' = [spans EXCEPT ![a] = IF proc[a].reset THEN @ ELSE t]
  BY <1>1 DEF Disown
<1>9. ASSUME ~proc[a].reset
      PROVE  t \in Seq(Nat) /\ Range(t) = Range(spans[a]) \ {d} /\ OneToOne(t)
  <2>1. List(a) = spans[a] /\ Listed(a)
    BY <1>1, <1>9 DEF List, Listed
  <2>2. d \in Range(spans[a]) /\ OneToOne(spans[a])
    BY <1>3, <2>1 DEF Handles, Stock
  <2> QED
    BY <1>1, <2>2, CutList
<1> HIDE DEF t
<1>10. CASE proc[a].reset
  <2>1. spans' = [spans EXCEPT ![a] = spans[a]]
    BY <1>8, <1>10
  <2>2. spans' = spans
    BY <1>1, <2>1
  <2> QED
    BY <1>1, <1>4, <1>5, <1>7, <1>10, <2>2 DEF Disowned
<1>11. CASE ~proc[a].reset
  <2>1. spans' = [spans EXCEPT ![a] = t]
    BY <1>8, <1>11
  <2>2. t \in Seq(Nat) /\ Range(t) = Range(spans[a]) \ {d} /\ OneToOne(t)
    BY <1>9, <1>11
  <2>3. spans'[a] = t /\ spans' \in [Arenas -> Seq(Nat)] /\ \A b \in Arenas \ {a} : spans'[b] = spans[b]
    BY <1>1, <2>1, <2>2
  <2> QED
    BY <1>4, <1>5, <1>7, <1>11, <2>2, <2>3 DEF Disowned
<1> QED
  BY <1>10, <1>11

LEMMA FxUnmap ==
  ASSUME Types, Custody, NEW a \in Arenas, Unmap(a)
  PROVE  After(a, "recycle", proc[a].d, proc[a].n, proc[a].u, proc[a].end)
<1>1. "recycle" \in Busy /\ proc \in [Arenas -> ProcType] /\ Goto(a, "recycle")
  BY TypesOf DEF Unmap, Busy
<1> QED
  BY <1>1, AfterGoto

\* The operation ends with the descriptor in the pool.
Freed(a) ==
  /\ proc[a].todo = <<>>
  /\ proc' \in [Arenas -> ProcType] /\ Others(a) /\ proc'[a] = Idle
  /\ spans' \in [Arenas -> Seq(Nat)] /\ \A b \in Arenas \ {a} : spans'[b] = spans[b] /\ cache'[b] = cache[b]
  /\ spans'[a] = List(a) /\ cache' \in [Arenas -> Nat \cup {none}]
  /\ cache'[a] = IF proc[a].reset THEN none ELSE cache[a]

LEMMA FxFree ==
  ASSUME Types, Custody, NEW a \in Arenas, SpanDescFree(a)
  PROVE  \/ /\ proc[a].todo # <<>> /\ proc[a].reset /\ spans' = spans /\ cache' = cache
            /\ AfterNext(a, Head(proc[a].todo), Tail(proc[a].todo))
         \/ Freed(a)
<1>1. /\ proc \in [Arenas -> ProcType] /\ ProcFields(proc[a]) /\ proc[a].todo \in Seq(Nat)
      /\ spans \in [Arenas -> Seq(Nat)] /\ cache \in [Arenas -> Nat \cup {none}] /\ ProcShape(a)
  BY TypesOf DEF ProcFields, Types, Custody
<1>2. CASE proc[a].todo # <<>>
  <2> DEFINE d == Head(proc[a].todo)
             s == Tail(proc[a].todo)
  <2>1. proc[a].reset
    BY <1>1, <1>2 DEF ProcShape
  <2>2. d \in Nat /\ s \in Seq(Nat)
    BY <1>1, <1>2, PopList
  <2>3. proc' = [proc EXCEPT ![a].pc = "unregister", ![a].d = d, ![a].todo = s]
        /\ spans' = spans /\ cache' = cache
    BY <1>2 DEF SpanDescFree, arenaVars
  <2> HIDE DEF d, s
  <2>4. AfterNext(a, d, s)
    BY <1>1, <2>1, <2>2, <2>3, AfterTodo
  <2> QED
    BY <1>2, <2>1, <2>3, <2>4 DEF d, s
<1>3. CASE proc[a].todo = <<>>
  <2>1. /\ Return(a) /\ spans' = [spans EXCEPT ![a] = IF proc[a].reset THEN <<>> ELSE @]
        /\ cache' = [cache EXCEPT ![a] = IF proc[a].reset THEN none ELSE @]
    BY <1>3 DEF SpanDescFree
  <2>2. proc' \in [Arenas -> ProcType] /\ Others(a) /\ proc'[a] = Idle
    BY <1>1, <2>1, AfterReturn
  <2>3. List(a) = (IF proc[a].reset THEN <<>> ELSE spans[a]) /\ List(a) \in Seq(Nat)
    BY <1>3, TypesOf DEF List
  <2>4. spans' = [spans EXCEPT ![a] = List(a)]
    BY <1>1, <2>1, <2>3
  <2>5. spans' \in [Arenas -> Seq(Nat)] /\ spans'[a] = List(a) /\ \A b \in Arenas \ {a} : spans'[b] = spans[b]
    BY <1>1, <2>3, <2>4
  <2>6. /\ cache' \in [Arenas -> Nat \cup {none}] /\ cache'[a] = IF proc[a].reset THEN none ELSE cache[a]
        /\ \A b \in Arenas \ {a} : cache'[b] = cache[b]
    <3> DEFINE v == IF proc[a].reset THEN none ELSE cache[a]
    <3>1. v \in Nat \cup {none}
      BY <1>1
    <3>2. cache' = [cache EXCEPT ![a] = v]
      BY <1>1, <2>1
    <3> HIDE DEF v
    <3>3. cache' \in [Arenas -> Nat \cup {none}] /\ cache'[a] = v /\ \A b \in Arenas \ {a} : cache'[b] = cache[b]
      BY <1>1, <3>1, <3>2
    <3> QED
      BY <3>3 DEF v
  <2> QED
    BY <1>3, <2>2, <2>5, <2>6 DEF Freed
<1> QED
  BY <1>2, <1>3

-------------------------------------------------------------------------------
(***************************************************************************)
(* What the steps of a lookup do.                                          *)
(***************************************************************************)
LEMMA UnitOf ==
  ASSUME NEW p \in Addresses
  PROVE  /\ p \in Nat \ {0} /\ unit_of(p) \in 1 .. Units
         /\ 2 * unit_of(p) <= p /\ p <= 2 * unit_of(p) + 1
<1>1. p \in 2 .. 2 * Units + 1 /\ Units \in Nat
  BY RegistryAssumption
<1>2. p \in Int /\ 2 \in Nat \ {0}
  BY <1>1
<1> DEFINE q == p \div 2
           r == p % 2
<1>3. r \in 0 .. 2 - 1 /\ q \in Int /\ p = 2 * q + r
  BY <1>2, DivMod
<1> HIDE DEF q, r
<1>4. q \in 1 .. Units /\ 2 * q <= p /\ p <= 2 * q + 1 /\ p \in Nat \ {0}
  BY <1>1, <1>3
<1> QED
  BY <1>4 DEF unit_of, q

\* The fields of a lookup.
Looks(a, pc, d, p, t, i, k) ==
  /\ proc' \in [Arenas -> ProcType] /\ Others(a)
  /\ proc'[a].pc = pc /\ proc'[a].d = d /\ proc'[a].p = p
  /\ proc'[a].t = t /\ proc'[a].i = i /\ proc'[a].k = k
  /\ proc'[a].todo = proc[a].todo /\ (proc'[a].reset <=> proc[a].reset)

LEMMA LooksStart ==
  ASSUME proc \in [Arenas -> ProcType], NEW a \in Arenas, NEW pc \in Busy \cup Looking \cup {"idle"},
         NEW d \in Nat \cup {none}, NEW p \in Nat, NEW keep \in BOOLEAN,
         proc' = [proc EXCEPT ![a] = [proc[a] EXCEPT !.pc = pc, !.p = p, !.d = d, !.keep = keep]]
  PROVE  Looks(a, pc, d, p, proc[a].t, proc[a].i, proc[a].k)
<1> DEFINE r == [proc[a] EXCEPT !.pc = pc, !.p = p, !.d = d, !.keep = keep]
<1>1. proc[a] \in ProcType
  OBVIOUS
<1>2. r \in ProcType
  BY <1>1 DEF ProcType
<1>3. proc'[a] = r /\ Others(a)
  BY DEF Others
<1>4. proc' \in [Arenas -> ProcType]
  BY <1>2, <1>3
<1>5. /\ r.pc = pc /\ r.d = d /\ r.p = p
      /\ r.t = proc[a].t /\ r.i = proc[a].i /\ r.k = proc[a].k
      /\ r.todo = proc[a].todo
  BY <1>1 DEF ProcType
<1>6. r.reset <=> proc[a].reset
  BY <1>1 DEF ProcType
<1> QED
  BY <1>3, <1>4, <1>5, <1>6 DEF Looks

LEMMA LooksLoad ==
  ASSUME proc \in [Arenas -> ProcType], NEW a \in Arenas, NEW pc \in Busy \cup Looking \cup {"idle"},
         NEW t \in Nat, NEW i \in Nat, NEW k \in Nat,
         proc' = [proc EXCEPT ![a] = [proc[a] EXCEPT !.pc = pc, !.t = t, !.k = k, !.i = i]]
  PROVE  Looks(a, pc, proc[a].d, proc[a].p, t, i, k)
<1> DEFINE r == [proc[a] EXCEPT !.pc = pc, !.t = t, !.k = k, !.i = i]
<1>1. proc[a] \in ProcType
  OBVIOUS
<1>2. r \in ProcType
  BY <1>1 DEF ProcType
<1>3. proc'[a] = r /\ Others(a)
  BY DEF Others
<1>4. proc' \in [Arenas -> ProcType]
  BY <1>2, <1>3
<1>5. /\ r.pc = pc /\ r.d = proc[a].d /\ r.p = proc[a].p
      /\ r.t = t /\ r.i = i /\ r.k = k
      /\ r.todo = proc[a].todo
  BY <1>1 DEF ProcType
<1>6. r.reset <=> proc[a].reset
  BY <1>1 DEF ProcType
<1> QED
  BY <1>3, <1>4, <1>5, <1>6 DEF Looks

LEMMA LooksOn ==
  ASSUME proc \in [Arenas -> ProcType], NEW a \in Arenas, NEW pc \in Busy \cup Looking \cup {"idle"},
         NEW i \in Nat, NEW k \in Nat,
         proc' = [proc EXCEPT ![a] = [proc[a] EXCEPT !.pc = pc, !.i = i, !.k = k]]
  PROVE  Looks(a, pc, proc[a].d, proc[a].p, proc[a].t, i, k)
<1> DEFINE r == [proc[a] EXCEPT !.pc = pc, !.i = i, !.k = k]
<1>1. proc[a] \in ProcType
  OBVIOUS
<1>2. r \in ProcType
  BY <1>1 DEF ProcType
<1>3. proc'[a] = r /\ Others(a)
  BY DEF Others
<1>4. proc' \in [Arenas -> ProcType]
  BY <1>2, <1>3
<1>5. /\ r.pc = pc /\ r.d = proc[a].d /\ r.p = proc[a].p
      /\ r.t = proc[a].t /\ r.i = i /\ r.k = k
      /\ r.todo = proc[a].todo
  BY <1>1 DEF ProcType
<1>6. r.reset <=> proc[a].reset
  BY <1>1 DEF ProcType
<1> QED
  BY <1>3, <1>4, <1>5, <1>6 DEF Looks

LEMMA LooksAt ==
  ASSUME proc \in [Arenas -> ProcType], NEW a \in Arenas, NEW pc \in Busy \cup Looking \cup {"idle"},
         NEW d \in Nat \cup {none},
         proc' = [proc EXCEPT ![a] = [proc[a] EXCEPT !.pc = pc, !.d = d]]
  PROVE  Looks(a, pc, d, proc[a].p, proc[a].t, proc[a].i, proc[a].k)
<1> DEFINE r == [proc[a] EXCEPT !.pc = pc, !.d = d]
<1>1. proc[a] \in ProcType
  OBVIOUS
<1>2. r \in ProcType
  BY <1>1 DEF ProcType
<1>3. proc'[a] = r /\ Others(a)
  BY DEF Others
<1>4. proc' \in [Arenas -> ProcType]
  BY <1>2, <1>3
<1>5. /\ r.pc = pc /\ r.d = d /\ r.p = proc[a].p
      /\ r.t = proc[a].t /\ r.i = proc[a].i /\ r.k = proc[a].k
      /\ r.todo = proc[a].todo
  BY <1>1 DEF ProcType
<1>6. r.reset <=> proc[a].reset
  BY <1>1 DEF ProcType
<1> QED
  BY <1>3, <1>4, <1>5, <1>6 DEF Looks

LEMMA LooksNext ==
  ASSUME proc \in [Arenas -> ProcType], NEW a \in Arenas, NEW pc \in Busy \cup Looking \cup {"idle"},
         proc' = [proc EXCEPT ![a] = [proc[a] EXCEPT !.pc = pc]]
  PROVE  Looks(a, pc, proc[a].d, proc[a].p, proc[a].t, proc[a].i, proc[a].k)
<1> DEFINE r == [proc[a] EXCEPT !.pc = pc]
<1>1. proc[a] \in ProcType
  OBVIOUS
<1>2. r \in ProcType
  BY <1>1 DEF ProcType
<1>3. proc'[a] = r /\ Others(a)
  BY DEF Others
<1>4. proc' \in [Arenas -> ProcType]
  BY <1>2, <1>3
<1>5. /\ r.pc = pc /\ r.d = proc[a].d /\ r.p = proc[a].p
      /\ r.t = proc[a].t /\ r.i = proc[a].i /\ r.k = proc[a].k
      /\ r.todo = proc[a].todo
  BY <1>1 DEF ProcType
<1>6. r.reset <=> proc[a].reset
  BY <1>1 DEF ProcType
<1> QED
  BY <1>3, <1>4, <1>5, <1>6 DEF Looks

\* The steps that leave all but the lookup itself and the cache alone.
Quiet(a) ==
  /\ table' = table /\ used' = used /\ live' = live /\ lock' = lock /\ desc' = desc /\ pool' = pool
  /\ mapped' = mapped /\ spans' = spans

LEMMA WhenLooking ==
  ASSUME Types, Custody, Lookups, NEW a \in Arenas, proc[a].pc \in Looking
  PROVE  /\ proc[a].p \in Addresses /\ unit_of(proc[a].p) \in 1 .. Units /\ proc[a].p # 0
         /\ proc[a].pc \notin Busy /\ ~proc[a].reset /\ Hand(a) = {} /\ ProcFields(proc[a])
         /\ proc \in [Arenas -> ProcType]
<1>1. ProcShape(a) /\ Seeks(a)
  BY DEF Custody, Lookups
<1>2. proc[a].p \in Addresses /\ proc[a].p # 0
  BY <1>1 DEF Seeks, ProcShape
<1>3. proc[a].pc \notin Busy
  BY DEF Busy, Looking
<1>4. ~proc[a].reset
  BY <1>1 DEF ProcShape, Looking
<1> QED
  BY <1>2, <1>3, <1>4, UnitOf, TypesOf DEF Hand

LEMMA FxLookup ==
  ASSUME Types, Custody, NEW a \in Arenas, NEW p \in Addresses, NEW keep \in BOOLEAN, Lookup(a, p, keep)
  PROVE  /\ Quiet(a) /\ cache' = cache
         /\ \/ Looks(a, "load", none, p, proc[a].t, proc[a].i, proc[a].k)
            \/ /\ Looks(a, "answer", cache[a], p, proc[a].t, proc[a].i, proc[a].k)
               /\ cache[a] # none /\ Inside(p, cache[a])
<1> DEFINE hit == keep /\ cache[a] # none /\ Inside(p, cache[a])
           pc  == IF hit THEN "answer" ELSE "load"
           d   == IF hit THEN cache[a] ELSE none
<1>1. Quiet(a) /\ cache' = cache
  BY DEF Lookup, Quiet, indexVars, arenaVars
<1>2. proc \in [Arenas -> ProcType] /\ cache[a] \in Nat \cup {none} /\ p \in Nat
  BY TypesOf, UnitOf
<1>3. proc' = [proc EXCEPT ![a].pc = pc, ![a].p = p, ![a].d = d, ![a].keep = keep]
  BY DEF Lookup
<1>4. pc \in Busy \cup Looking \cup {"idle"} /\ d \in Nat \cup {none}
  BY <1>2 DEF Looking
<1>5. hit => pc = "answer" /\ d = cache[a] /\ cache[a] # none /\ Inside(p, cache[a])
  OBVIOUS
<1>6. ~hit => pc = "load" /\ d = none
  OBVIOUS
<1> HIDE DEF pc, d, hit
<1>7. proc' = [proc EXCEPT ![a] = [proc[a] EXCEPT !.pc = pc, !.p = p, !.d = d, !.keep = keep]]
  BY <1>2, <1>3
<1>8. Looks(a, pc, d, p, proc[a].t, proc[a].i, proc[a].k)
  BY <1>2, <1>4, <1>7, LooksStart
<1> QED
  BY <1>1, <1>5, <1>6, <1>8

LEMMA FxLoadIndex ==
  ASSUME Types, Custody, Lookups, NEW a \in Arenas, LoadIndex(a)
  PROVE  /\ Quiet(a) /\ cache' = cache
         /\ Looks(a, "slot", proc[a].d, proc[a].p, Len(table), slot_for(unit_of(proc[a].p), g_index.cap), 0)
<1> DEFINE i == slot_for(unit_of(proc[a].p), g_index.cap)
           t == Len(table)
<1>1. Quiet(a) /\ cache' = cache
  BY DEF LoadIndex, Quiet, indexVars, arenaVars
<1>2. proc[a].pc \in Looking /\ "slot" \in Looking
  BY DEF LoadIndex, At, Looking
<1>3. proc \in [Arenas -> ProcType] /\ unit_of(proc[a].p) \in 1 .. Units
  BY <1>2, WhenLooking
<1>4. g_index \in TableType /\ t \in Nat
  BY TableNow DEF Types
<1>5. i \in Nat
  <2>1. i \in 0 .. g_index.cap - 1 /\ g_index.cap \in Nat
    BY <1>3, <1>4, ProbeIn, TableFields
  <2> QED
    BY <2>1
<1>6. proc' = [proc EXCEPT ![a].pc = "slot", ![a].t = t, ![a].k = 0, ![a].i = i]
  BY DEF LoadIndex
<1> HIDE DEF t, i
<1>7. proc' = [proc EXCEPT ![a] = [proc[a] EXCEPT !.pc = "slot", !.t = t, !.k = 0, !.i = i]]
  BY <1>3, <1>6
<1>8. Looks(a, "slot", proc[a].d, proc[a].p, t, i, 0)
  BY <1>2, <1>3, <1>4, <1>5, <1>7, LooksLoad
<1> QED
  BY <1>1, <1>8 DEF t, i

\* On to the next slot.
LEMMA FxAdvance ==
  ASSUME Types, Custody, Lookups, NEW a \in Arenas, proc[a].pc \in {"slot", "unit"},
         proc' = [proc EXCEPT ![a] = Advance(a)]
  PROVE  Looks(a, "slot", proc[a].d, proc[a].p, proc[a].t,
               (proc[a].i + 1) % table[proc[a].t].cap, proc[a].k + 1)
<1> DEFINE i == (proc[a].i + 1) % table[proc[a].t].cap
           k == proc[a].k + 1
<1>1. proc[a].pc \in Looking /\ "slot" \in Looking
  BY DEF Looking
<1>2. proc \in [Arenas -> ProcType] /\ ProcFields(proc[a])
  BY <1>1, WhenLooking
<1>3. proc[a].t \in DOMAIN table
  BY DEF Types
<1>4. table[proc[a].t].cap \in Nat \ {0}
  BY <1>3, TableNow, TableFields DEF Types
<1>5. i \in Nat /\ k \in Nat
  <2>1. proc[a].i + 1 \in Int /\ k \in Nat
    BY <1>2 DEF ProcFields
  <2>2. i \in 0 .. table[proc[a].t].cap - 1
    BY <1>4, <2>1, DivMod
  <2> QED
    BY <1>4, <2>1, <2>2
<1>6. Advance(a) = [proc[a] EXCEPT !.pc = "slot", !.i = i, !.k = k]
  BY <1>2 DEF Advance, ProcType
<1> HIDE DEF i, k
<1>7. proc' = [proc EXCEPT ![a] = [proc[a] EXCEPT !.pc = "slot", !.i = i, !.k = k]]
  BY <1>6
<1>8. Looks(a, "slot", proc[a].d, proc[a].p, proc[a].t, i, k)
  BY <1>1, <1>2, <1>5, <1>7, LooksOn
<1> QED
  BY <1>8 DEF i, k

LEMMA FxLoadSpan ==
  ASSUME Types, Custody, Lookups, NEW a \in Arenas, LoadSpan(a)
  PROVE  LET ix == table[proc[a].t]
             s  == ix.slot[proc[a].i].span
         IN  /\ Quiet(a) /\ cache' = cache
             /\ \/ /\ proc[a].k = ix.cap \/ s = none
                   /\ Looks(a, "again", proc[a].d, proc[a].p, proc[a].t, proc[a].i, proc[a].k)
                \/ /\ proc[a].k # ix.cap /\ s = MM_UNIT_TOMB
                   /\ Looks(a, "slot", proc[a].d, proc[a].p, proc[a].t,
                            (proc[a].i + 1) % ix.cap, proc[a].k + 1)
                \/ /\ proc[a].k # ix.cap /\ s \notin {none, MM_UNIT_TOMB}
                   /\ Looks(a, "unit", s, proc[a].p, proc[a].t, proc[a].i, proc[a].k)
<1> DEFINE ix == table[proc[a].t]
           s  == ix.slot[proc[a].i].span
<1>1. Quiet(a) /\ cache' = cache
  BY DEF LoadSpan, Quiet, indexVars, arenaVars
<1>2. proc[a].pc = "slot"
  BY DEF LoadSpan, At
<1>3. proc[a].pc \in Looking /\ "again" \in Looking /\ "unit" \in Looking /\ proc[a].pc \in {"slot", "unit"}
  BY <1>2 DEF Looking
<1>4. proc \in [Arenas -> ProcType] /\ unit_of(proc[a].p) \in 1 .. Units
  BY <1>3, WhenLooking
<1>5. proc' = [proc EXCEPT ![a] =
           IF proc[a].k = ix.cap \/ s = none THEN [proc[a] EXCEPT !.pc = "again"]
           ELSE IF s = MM_UNIT_TOMB THEN Advance(a)
           ELSE [proc[a] EXCEPT !.pc = "unit", !.d = s]]
  BY <1>4 DEF LoadSpan
<1>6. s \in Nat \cup {none}
  <2>1. ix \in TableType
    BY <1>2, TableNow DEF Types
  <2>2. proc[a].i = Probe(ix, unit_of(proc[a].p), proc[a].k) /\ proc[a].k \in 0 .. ix.cap
    BY <1>2 DEF Lookups, Seeks
  <2>3. proc[a].k \in Nat
    BY <2>1, <2>2, TableFields
  <2>4. proc[a].i \in 0 .. ix.cap - 1
    BY <1>4, <2>1, <2>2, <2>3, ProbeIn
  <2> QED
    BY <2>1, <2>4, TableFields
<1> HIDE DEF ix, s
<1>7. CASE proc[a].k = ix.cap \/ s = none
  <2>1. proc' = [proc EXCEPT ![a] = [proc[a] EXCEPT !.pc = "again"]]
    BY <1>5, <1>7
  <2>2. Looks(a, "again", proc[a].d, proc[a].p, proc[a].t, proc[a].i, proc[a].k)
    BY <1>3, <1>4, <2>1, LooksNext
  <2> QED
    BY <1>1, <1>7, <2>2 DEF ix, s
<1>8. CASE ~(proc[a].k = ix.cap \/ s = none) /\ s = MM_UNIT_TOMB
  <2>1. proc' = [proc EXCEPT ![a] = Advance(a)]
    BY <1>5, <1>8
  <2>2. Looks(a, "slot", proc[a].d, proc[a].p, proc[a].t,
              (proc[a].i + 1) % table[proc[a].t].cap, proc[a].k + 1)
    BY <1>3, <2>1, FxAdvance
  <2> QED
    BY <1>1, <1>8, <2>2 DEF ix, s
<1>9. CASE ~(proc[a].k = ix.cap \/ s = none) /\ s # MM_UNIT_TOMB
  <2>1. proc' = [proc EXCEPT ![a] = [proc[a] EXCEPT !.pc = "unit", !.d = s]]
    BY <1>5, <1>9
  <2>2. Looks(a, "unit", s, proc[a].p, proc[a].t, proc[a].i, proc[a].k)
    BY <1>3, <1>4, <1>6, <2>1, LooksAt
  <2> QED
    BY <1>1, <1>9, <2>2 DEF ix, s
<1> QED
  BY <1>7, <1>8, <1>9

LEMMA FxLoadUnit ==
  ASSUME Types, Custody, Lookups, NEW a \in Arenas, LoadUnit(a)
  PROVE  LET ix == table[proc[a].t]
             v  == ix.slot[proc[a].i].unit
         IN  /\ Quiet(a) /\ cache' = cache
             /\ \/ /\ v = unit_of(proc[a].p)
                   /\ Looks(a, "check", proc[a].d, proc[a].p, proc[a].t, proc[a].i, proc[a].k)
                \/ /\ v # unit_of(proc[a].p)
                   /\ Looks(a, "slot", proc[a].d, proc[a].p, proc[a].t,
                            (proc[a].i + 1) % ix.cap, proc[a].k + 1)
<1> DEFINE v == table[proc[a].t].slot[proc[a].i].unit
<1>1. Quiet(a) /\ cache' = cache
  BY DEF LoadUnit, Quiet, indexVars, arenaVars
<1>2. proc[a].pc = "unit"
  BY DEF LoadUnit, At
<1>3. proc[a].pc \in Looking /\ "check" \in Looking /\ proc[a].pc \in {"slot", "unit"}
  BY <1>2 DEF Looking
<1>4. proc \in [Arenas -> ProcType]
  BY <1>3, WhenLooking
<1>5. proc' = [proc EXCEPT ![a] = IF v = unit_of(proc[a].p) THEN [proc[a] EXCEPT !.pc = "check"]
                                                           ELSE Advance(a)]
  BY <1>4 DEF LoadUnit
<1> HIDE DEF v
<1>6. CASE v = unit_of(proc[a].p)
  <2>1. proc' = [proc EXCEPT ![a] = [proc[a] EXCEPT !.pc = "check"]]
    BY <1>5, <1>6
  <2>2. Looks(a, "check", proc[a].d, proc[a].p, proc[a].t, proc[a].i, proc[a].k)
    BY <1>3, <1>4, <2>1, LooksNext
  <2> QED
    BY <1>1, <1>6, <2>2 DEF v
<1>7. CASE v # unit_of(proc[a].p)
  <2>1. proc' = [proc EXCEPT ![a] = Advance(a)]
    BY <1>5, <1>7
  <2>2. Looks(a, "slot", proc[a].d, proc[a].p, proc[a].t,
              (proc[a].i + 1) % table[proc[a].t].cap, proc[a].k + 1)
    BY <1>3, <2>1, FxAdvance
  <2> QED
    BY <1>1, <1>7, <2>2 DEF v
<1> QED
  BY <1>6, <1>7

LEMMA FxMissAgain ==
  ASSUME Types, Custody, Lookups, NEW a \in Arenas, MissAgain(a)
  PROVE  /\ Quiet(a) /\ cache' = cache
         /\ Looks(a, IF proc[a].t = Len(table) THEN "answer" ELSE "load", none,
                  proc[a].p, proc[a].t, proc[a].i, proc[a].k)
<1> DEFINE pc == IF proc[a].t = Len(table) THEN "answer" ELSE "load"
<1>1. Quiet(a) /\ cache' = cache
  BY DEF MissAgain, Quiet, indexVars, arenaVars
<1>2. proc[a].pc \in Looking /\ pc \in Looking
  BY DEF MissAgain, At, Looking
<1>3. proc \in [Arenas -> ProcType]
  BY <1>2, WhenLooking
<1>4. proc' = [proc EXCEPT ![a].pc = pc, ![a].d = none]
  BY DEF MissAgain
<1> HIDE DEF pc
<1>5. proc' = [proc EXCEPT ![a] = [proc[a] EXCEPT !.pc = pc, !.d = none]]
  BY <1>3, <1>4
<1>6. Looks(a, pc, none, proc[a].p, proc[a].t, proc[a].i, proc[a].k)
  BY <1>2, <1>3, <1>5, LooksAt
<1> QED
  BY <1>1, <1>6 DEF pc

LEMMA FxCheck ==
  ASSUME Types, Custody, Lookups, NEW a \in Arenas, CheckDescriptor(a)
  PROVE  LET d  == proc[a].d
             ok == desc[d].magic /\ Inside(proc[a].p, d)
         IN  /\ Quiet(a)
             /\ Looks(a, "answer", IF ok THEN d ELSE none, proc[a].p, proc[a].t, proc[a].i, proc[a].k)
             /\ cache' \in [Arenas -> Nat \cup {none}] /\ \A b \in Arenas \ {a} : cache'[b] = cache[b]
             /\ cache'[a] = cache[a] \/ (cache'[a] = d /\ ok /\ desc[d].owner = a)
<1> DEFINE d  == proc[a].d
           ok == desc[d].magic /\ Inside(proc[a].p, d)
           e  == IF ok THEN d ELSE none
           c  == IF ok /\ Keep(a, d) THEN d ELSE cache[a]
<1>1. Quiet(a)
  BY DEF CheckDescriptor, Quiet, indexVars
<1>2. proc[a].pc \in Looking /\ "answer" \in Looking
  BY DEF CheckDescriptor, At, Looking
<1>3. proc \in [Arenas -> ProcType] /\ d \in Nat \cup {none} /\ cache \in [Arenas -> Nat \cup {none}]
  BY <1>2, WhenLooking DEF ProcFields, Types
<1>4. proc' = [proc EXCEPT ![a].pc = "answer", ![a].d = e]
  BY DEF CheckDescriptor
<1>5. cache' = [cache EXCEPT ![a] = c]
  BY <1>3 DEF CheckDescriptor
<1>6. e \in Nat \cup {none} /\ c \in Nat \cup {none}
  BY <1>3
<1>7. c = cache[a] \/ (c = d /\ ok /\ desc[d].owner = a)
  BY DEF Keep
<1> HIDE DEF e, c
<1>8. proc' = [proc EXCEPT ![a] = [proc[a] EXCEPT !.pc = "answer", !.d = e]]
  BY <1>3, <1>4
<1>9. Looks(a, "answer", e, proc[a].p, proc[a].t, proc[a].i, proc[a].k)
  BY <1>2, <1>3, <1>6, <1>8, LooksAt
<1>10. cache' \in [Arenas -> Nat \cup {none}] /\ cache'[a] = c /\ \A b \in Arenas \ {a} : cache'[b] = cache[b]
  BY <1>3, <1>5, <1>6
<1> QED
  BY <1>1, <1>7, <1>9, <1>10 DEF e

LEMMA FxAnswer ==
  ASSUME Types, NEW a \in Arenas, Answer(a)
  PROVE  /\ Quiet(a) /\ cache' = cache /\ proc[a].pc = "answer"
         /\ proc' \in [Arenas -> ProcType] /\ Others(a) /\ proc'[a] = Idle
<1>1. Quiet(a) /\ cache' = cache /\ proc[a].pc = "answer" /\ Return(a)
  BY DEF Answer, Quiet, indexVars, arenaVars, At
<1> QED
  BY <1>1, TypesOf, AfterReturn

-------------------------------------------------------------------------------
(***************************************************************************)
(* The units an operation is at.                                           *)
(***************************************************************************)
LEMMA AtUnit ==
  ASSUME Types, Custody, Mappings, NEW a \in Arenas, proc[a].pc \in {"add", "span", "undo", "del"}
  PROVE  /\ proc[a].d \in Standing(a) /\ proc[a].u \in UnitsOf(proc[a].d) /\ proc[a].end \in UnitsOf(proc[a].d)
         /\ proc[a].u \in mapped /\ proc[a].u \in 1 .. Units /\ proc[a].u <= proc[a].end
         /\ proc[a].u \in Nat /\ proc[a].end \in Nat
<1> DEFINE d == proc[a].d
<1>1. proc[a].pc \in Busy \ {"map", "recycle"} /\ ProcFields(proc[a])
  BY TypesOf DEF Busy
<1>2. d \in Standing(a) /\ DescFields(desc[d])
  BY <1>1, WhenBusy DEF Standing
<1>3. SpanMapped(d) /\ Phase(a)
  BY <1>2 DEF Mappings
<1>4. /\ desc[d].base <= proc[a].u /\ proc[a].u <= proc[a].end
      /\ proc[a].end <= desc[d].base + desc[d].size - 1
  BY <1>3 DEF Phase
<1>5. proc[a].u \in Nat /\ proc[a].end \in Int /\ desc[d].base \in Nat /\ desc[d].size \in Nat
  BY <1>1, <1>2 DEF DescFields, ProcFields
<1>6. proc[a].u \in UnitsOf(d) /\ proc[a].end \in UnitsOf(d) /\ proc[a].end \in Nat
  BY <1>4, <1>5 DEF UnitsOf
<1>7. proc[a].u \in mapped /\ mapped \subseteq 1 .. Units
  BY <1>3, <1>6 DEF SpanMapped, Types
<1> QED
  BY <1>2, <1>4, <1>5, <1>6, <1>7

LEMMA FilingInside ==
  ASSUME Types, Custody, Mappings, NEW a \in Arenas, NEW u \in Filing(a)
  PROVE  u \in UnitsOf(proc[a].d) /\ proc[a].pc \in Busy \ {"map", "recycle"}
<1>1. proc[a].pc \in {"add", "span", "undo", "del", "unregister"}
  BY DEF Filing
<1>2. proc[a].pc \in Busy \ {"map", "recycle"}
  BY <1>1 DEF Busy
<1>3. CASE proc[a].pc = "unregister"
  BY <1>2, <1>3 DEF Filing
<1>4. CASE proc[a].pc \in {"add", "span", "undo", "del"}
  <2> DEFINE d == proc[a].d
             lo == desc[d].base
             hi == desc[d].base + desc[d].size - 1
  <2>1. proc[a].u \in lo .. hi /\ proc[a].end \in lo .. hi /\ proc[a].u \in Nat /\ proc[a].end \in Nat
    BY <1>4, AtUnit DEF UnitsOf
  <2>2. lo \in Int /\ hi \in Int
    BY <1>2, WhenBusy DEF DescFields
  <2>3. u \in lo .. proc[a].u - 1 \/ u \in proc[a].u .. proc[a].end
    BY <1>4 DEF Filing
  <2> HIDE DEF lo, hi
  <2>4. u \in lo .. hi
    BY <2>1, <2>2, <2>3
  <2> QED
    BY <1>2, <2>4 DEF UnitsOf, lo, hi
<1> QED
  BY <1>1, <1>3, <1>4

LEMMA DueUnits ==
  ASSUME Types, Custody, Mappings, NEW a \in Arenas, NEW u, NEW d, Due(a, u, d)
  PROVE  d \in Standing(a) /\ d \in Has(a) /\ u \in UnitsOf(d) /\ u \in mapped
<1>1. CASE d \in Stock(a) \ Hand(a) /\ u \in UnitsOf(d)
  BY <1>1 DEF Standing, Has, Mappings, SpanMapped
<1>2. CASE d \in Hand(a) /\ u \in Filing(a)
  <2>1. u \in UnitsOf(proc[a].d) /\ proc[a].pc \in Busy \ {"map", "recycle"}
    BY <1>2, FilingInside
  <2>2. d = proc[a].d
    BY <1>2 DEF Hand
  <2>3. d \in Standing(a) /\ d \in Has(a)
    BY <1>2, <2>1, <2>2 DEF Standing, Has
  <2> QED
    BY <2>1, <2>2, <2>3 DEF Mappings, SpanMapped
<1> QED
  BY <1>1, <1>2 DEF Due

\* A unit is due for one descriptor of one arena.
LEMMA OneStanding ==
  ASSUME Types, Custody, Mappings, NEW a \in Arenas, NEW b \in Arenas, NEW u,
         NEW d \in Standing(a), NEW e \in Standing(b), u \in UnitsOf(d), u \in UnitsOf(e)
  PROVE  a = b /\ d = e
<1>1. d = e
  BY DEF Mappings
<1>2. d \in Has(a) /\ e \in Has(b)
  BY DEF Standing, Has, Hand
<1>3. a # b => Has(a) \cap Has(b) = {}
  BY OwnedIs DEF Custody
<1> QED
  BY <1>1, <1>2, <1>3

LEMMA EntryDue ==
  ASSUME Types, Custody, Mappings, Index, NEW i \in 0 .. g_index.cap - 1, InUse(g_index, i)
  PROVE  /\ g_index.slot[i].unit \in 1 .. Units /\ g_index.slot[i].span \in Nat \ {0}
         /\ \E b \in Arenas : Due(b, g_index.slot[i].unit, g_index.slot[i].span)
<1> DEFINE u == g_index.slot[i].unit
           e == g_index.slot[i].span
<1>1. g_index \in TableType
  BY TableNow DEF Types
<1>2. u \in Nat /\ e \in Nat \cup {none} /\ g_index.slot[i] = [unit |-> u, span |-> e]
  BY <1>1, TableFields
<1>3. e \in Nat \ {0}
  BY <1>2 DEF InUse, MM_UNIT_TOMB
<1>4. u \in 1 .. Units
  BY DEF Index, Chained, Reached
<1> HIDE DEF u, e
<1>5. Entered(g_index, u, e)
  BY <1>2 DEF Entered
<1>6. \E b \in Arenas : Due(b, u, e)
  BY <1>2, <1>3, <1>5 DEF Index, Exact
<1> QED
  BY <1>3, <1>4, <1>6 DEF u, e

LEMMA UnfiledNow ==
  ASSUME Types, Custody, Mappings, Index, NEW a \in Arenas, proc[a].pc \in {"add", "span"}
  PROVE  Unfiled(g_index, proc[a].u)
<1> SUFFICES ASSUME NEW i \in 0 .. g_index.cap - 1, InUse(g_index, i), g_index.slot[i].unit = proc[a].u
             PROVE  FALSE
  BY DEF Unfiled
<1> DEFINE u == proc[a].u
           e == g_index.slot[i].span
<1>1. PICK b \in Arenas : Due(b, u, e)
  BY EntryDue
<1>2. e \in Standing(b) /\ u \in UnitsOf(e)
  BY <1>1, DueUnits
<1>3. proc[a].d \in Standing(a) /\ u \in UnitsOf(proc[a].d) /\ u \in Nat
  BY AtUnit
<1>4. a = b /\ proc[a].d = e
  BY <1>2, <1>3, OneStanding
<1>5. e \in Hand(a)
  BY <1>4 DEF Hand, Busy
<1>6. u \in Filing(a)
  BY <1>1, <1>4, <1>5 DEF Due
<1>7. u \in desc[proc[a].d].base .. u - 1
  BY <1>6 DEF Filing
<1> QED
  BY <1>3, <1>7

LEMMA FiledNow ==
  ASSUME Types, Custody, Mappings, Index, NEW a \in Arenas, proc[a].pc \in {"undo", "del"}
  PROVE  \E i \in 0 .. g_index.cap - 1 :
           /\ InUse(g_index, i) /\ g_index.slot[i].unit = proc[a].u /\ g_index.slot[i].span = proc[a].d
<1> DEFINE u == proc[a].u
           d == proc[a].d
<1>1. u \in Nat /\ proc[a].end \in Nat /\ u <= proc[a].end
  BY AtUnit
<1>2. proc[a].pc \in Busy
  BY DEF Busy
<1>3. d \in Nat \ {0} /\ d # none /\ d \in Hand(a)
  BY <1>2, WhenBusy
<1>4. u \in Filing(a)
  BY <1>1 DEF Filing
<1>5. Due(a, u, d)
  BY <1>3, <1>4 DEF Due
<1>6. Entered(g_index, u, d)
  BY <1>1, <1>3, <1>5 DEF Index, Exact
<1>7. PICK i \in 0 .. g_index.cap - 1 : g_index.slot[i] = [unit |-> u, span |-> d]
  BY <1>6 DEF Entered
<1>8. g_index.slot[i].unit = u /\ g_index.slot[i].span = d
  BY <1>7
<1>9. InUse(g_index, i)
  BY <1>3, <1>8 DEF InUse, MM_UNIT_TOMB
<1> QED
  BY <1>8, <1>9

-------------------------------------------------------------------------------
(***************************************************************************)
(* What each operation does to the tables.                                 *)
(***************************************************************************)
LEMMA RoomLeft ==
  ASSUME Types, Index
  PROVE  /\ \E e \in 0 .. g_index.cap - 1 : ~Full(g_index, e)
         /\ g_index \in TableType /\ Chained(g_index) /\ Single(g_index)
<1>1. g_index \in TableType
  BY TableNow DEF Types
<1>2. Cardinality(Cells(g_index)) < g_index.cap
  <2>1. used = Cardinality(Cells(g_index)) /\ 2 * used < g_index.cap /\ used \in Nat
    BY DEF Index, Counted, Types
  <2>2. g_index.cap \in Nat
    BY <1>1, TableFields
  <2> QED
    BY <2>1, <2>2
<1> QED
  BY <1>1, <1>2, EmptySlot DEF Index

TxRehash(new) ==
  /\ table' \in Seq(TableType) /\ table' # <<>> /\ Len(table') = Len(table) + 1
  /\ g_index' = new /\ \A t \in 1 .. Len(table) : table'[t] = table[t]
  /\ Rebuilt(g_index, new) /\ new.cap >= 4 * (live + 1) /\ used' = live /\ live' = live

LEMMA Rehashes ==
  ASSUME Types, Index, NEW a \in Arenas, IndexRehash(a)
  PROVE  TxRehash(Rehashed)
<1>1. /\ g_index \in TableType /\ Chained(g_index) /\ Single(g_index)
      /\ table \in Seq(TableType) /\ table # <<>> /\ live \in Nat
  BY RoomLeft DEF Types
<1>2. live = Cardinality(Files(g_index))
  BY DEF Index, Counted
<1>3. RehashCap \in Nat \ {0} /\ RehashCap >= 4 * (live + 1)
  BY <1>1, RehashCapFits
<1>4. Cardinality(Files(g_index)) < RehashCap
  BY <1>1, <1>2, <1>3
<1>5. Rebuilt(g_index, Rehashed) /\ Rehashed.cap = RehashCap
  BY <1>1, <1>3, <1>4, RefilledRight DEF Rehashed
<1>6. Rehashed \in TableType
  BY <1>5 DEF Rebuilt
<1>7. table' = Append(table, Rehashed) /\ used' = live /\ live' = live
  BY DEF IndexRehash
<1>8. /\ table' \in Seq(TableType) /\ table' # <<>> /\ Len(table') = Len(table) + 1
      /\ g_index' = Rehashed /\ \A t \in 1 .. Len(table) : table'[t] = table[t]
  BY <1>1, <1>6, <1>7, PublishedTable
<1> QED
  BY <1>3, <1>5, <1>7, <1>8 DEF TxRehash

TxPutUnit(a, new, s) ==
  /\ Replaced(new) /\ Prepared(g_index, new, s, proc[a].u)
  /\ s \in 0 .. g_index.cap - 1 /\ ~Full(g_index, s)

LEMMA PutsUnit ==
  ASSUME Types, Custody, Mappings, Index, NEW a \in Arenas, PutUnit(a)
  PROVE  \E new, s : TxPutUnit(a, new, s)
<1> DEFINE u == proc[a].u
           s == PutSlot(g_index, u)
           new == UnitWritten(g_index, s, u)
<1>1. proc[a].pc = "add"
  BY DEF PutUnit, At
<1>2. u \in 1 .. Units /\ u \in Nat
  BY <1>1, AtUnit
<1>3. Unfiled(g_index, u)
  BY <1>1, UnfiledNow
<1>4. PICK e \in 0 .. g_index.cap - 1 : ~Full(g_index, e)
  BY RoomLeft
<1>5. /\ g_index \in TableType /\ Chained(g_index) /\ Single(g_index)
      /\ table \in Seq(TableType) /\ table # <<>>
  BY RoomLeft DEF Types
<1> HIDE DEF u
<1>6. ChainEnd(g_index, u, s)
  BY <1>2, <1>3, <1>4, <1>5, PutSlotEnd
<1>7. s \in 0 .. g_index.cap - 1 /\ ~Full(g_index, s)
  BY <1>6 DEF ChainEnd
<1>8. table' = [table EXCEPT ![Len(table)].slot[s].unit = u]
  BY DEF PutUnit, u
<1> HIDE DEF s
<1>9. Prepared(g_index, new, s, u)
  BY <1>2, <1>5, <1>7, UnitPrepared
<1>10. new \in TableType
  BY <1>9 DEF Prepared
<1>11. Replaced(new)
  BY <1>5, <1>8, <1>10, UnitReplaced
<1> QED
  BY <1>7, <1>9, <1>11 DEF TxPutUnit, u

TxPutSpan(a, new, s) ==
  /\ Replaced(new) /\ ChainEnd(g_index, proc[a].u, s)
  /\ EntryAt(g_index, new, s, proc[a].u, proc[a].d) /\ EntryMade(g_index, new, s, proc[a].u, proc[a].d)

LEMMA PutsSpan ==
  ASSUME Types, Custody, Mappings, Index, NEW a \in Arenas, PutSpan(a)
  PROVE  \E new, s : TxPutSpan(a, new, s)
<1> DEFINE u == proc[a].u
           d == proc[a].d
           s == PutSlot(g_index, u)
           new == index_put(g_index, u, d)
<1>1. proc[a].pc = "span" /\ proc[a].pc \in Busy
  BY DEF PutSpan, At, Busy
<1>2. u \in 1 .. Units /\ u \in Nat /\ d \in Nat \ {0}
  BY <1>1, AtUnit, WhenBusy
<1>3. Unfiled(g_index, u)
  BY <1>1, UnfiledNow
<1>4. PICK e \in 0 .. g_index.cap - 1 : ~Full(g_index, e)
  BY RoomLeft
<1>5. /\ g_index \in TableType /\ Chained(g_index) /\ Single(g_index)
      /\ table \in Seq(TableType) /\ table # <<>>
  BY RoomLeft DEF Types
<1>6. table' = [table EXCEPT ![Len(table)] = new]
  BY DEF PutSpan, g_index
<1> HIDE DEF u, d
<1>7. ChainEnd(g_index, u, s)
  BY <1>2, <1>3, <1>4, <1>5, PutSlotEnd
<1>8. s \in 0 .. g_index.cap - 1
  BY <1>7 DEF ChainEnd
<1> HIDE DEF s, new
<1>9. EntryAt(g_index, new, s, u, d)
  BY <1>2, <1>5, <1>8, PutEntry DEF s, new
<1>10. EntryMade(g_index, new, s, u, d)
  BY <1>2, <1>3, <1>5, <1>7, <1>9, EntryKept
<1>11. new \in TableType
  BY <1>9 DEF EntryAt
<1>12. Replaced(new)
  BY <1>5, <1>6, <1>11, ReplacedBy
<1> QED
  BY <1>7, <1>9, <1>10, <1>12 DEF TxPutSpan, u, d

TxDel(a, new, i) ==
  /\ Replaced(new) /\ Buried(g_index, new, i) /\ i \in 0 .. g_index.cap - 1 /\ InUse(g_index, i)
  /\ g_index.slot[i].unit = proc[a].u /\ g_index.slot[i].span = proc[a].d
  /\ live' = live - 1 /\ used' = used

LEMMA Deletes ==
  ASSUME Types, Custody, Mappings, Index, NEW a \in Arenas, IndexDel(a)
  PROVE  \E new, i : TxDel(a, new, i)
<1> DEFINE u == proc[a].u
<1>1. proc[a].pc \in {"undo", "del"} /\ index_del(u)
  BY DEF IndexDel
<1>2. PICK i \in 0 .. g_index.cap - 1 :
        /\ InUse(g_index, i) /\ g_index.slot[i].unit = proc[a].u /\ g_index.slot[i].span = proc[a].d
  BY <1>1, FiledNow
<1>3. /\ g_index \in TableType /\ Chained(g_index) /\ Single(g_index)
      /\ table \in Seq(TableType) /\ table # <<>>
  BY RoomLeft DEF Types
<1>4. DelSlots(u) = {i}
  BY <1>2, <1>3, DelFinds
<1> DEFINE new == Tombstone(g_index, i)
<1>5. (CHOOSE j \in DelSlots(u) : TRUE) = i /\ DelSlots(u) # {}
  BY <1>4
<1>6. /\ table' = [table EXCEPT ![Len(table)] = Tombstone(@, CHOOSE j \in DelSlots(u) : TRUE)]
      /\ live' = live - 1 /\ used' = used
  BY <1>1, <1>5 DEF index_del
<1>7. table' = [table EXCEPT ![Len(table)] = new]
  BY <1>5, <1>6 DEF g_index
<1> HIDE DEF new
<1>8. Buried(g_index, new, i)
  BY <1>2, <1>3, TombstoneKept DEF new
<1>9. new \in TableType
  BY <1>8 DEF Buried
<1>10. Replaced(new)
  BY <1>3, <1>7, <1>9, ReplacedBy
<1> QED
  BY <1>2, <1>6, <1>8, <1>10 DEF TxDel

-------------------------------------------------------------------------------
(***************************************************************************)
(* The types.                                                              *)
(***************************************************************************)
TableGrows == table' \in Seq(TableType) /\ table' # <<>> /\ Len(table') >= Len(table)

LEMMA TypesStep ==
  ASSUME Types, NEW a \in Arenas, TableGrows, used' \in Nat, live' \in Nat,
         lock' \in Arenas \cup {none}, desc' \in Seq(DescType), pool' \in Seq(Nat),
         mapped' \subseteq 1 .. Units, spans' \in [Arenas -> Seq(Nat)],
         cache' \in [Arenas -> Nat \cup {none}], proc' \in [Arenas -> ProcType], Others(a),
         proc'[a].pc \in {"slot", "unit", "again"} => proc'[a].t \in DOMAIN table'
  PROVE  Types'
<1>1. DOMAIN table \subseteq DOMAIN table'
  <2>1. table \in Seq(TableType) /\ table' \in Seq(TableType) /\ Len(table') >= Len(table)
    BY DEF Types, TableGrows
  <2>2. Len(table) \in Nat /\ Len(table') \in Nat /\ DOMAIN table = 1 .. Len(table) /\ DOMAIN table' = 1 .. Len(table')
    BY <2>1, LenProperties
  <2> QED
    BY <2>1, <2>2
<1>2. ASSUME NEW b \in Arenas, proc'[b].pc \in {"slot", "unit", "again"}
      PROVE  proc'[b].t \in DOMAIN table'
  <2>1. CASE b = a
    BY <2>1, <1>2
  <2>2. CASE b # a
    <3>1. proc'[b] = proc[b]
      BY <2>2 DEF Others
    <3> QED
      BY <3>1, <1>1, <1>2 DEF Types
  <2> QED
    BY <2>1, <2>2
<1> QED
  BY <1>2 DEF Types, TableGrows

LEMMA TableStays ==
  ASSUME Types, UNCHANGED indexVars
  PROVE  TableGrows /\ used' \in Nat /\ live' \in Nat
<1>1. table \in Seq(TableType) /\ table # <<>> /\ used \in Nat /\ live \in Nat
      /\ table' = table /\ used' = used /\ live' = live
  BY DEF Types, indexVars
<1>2. Len(table) \in Nat
  BY <1>1, LenProperties
<1> QED
  BY <1>1, <1>2 DEF TableGrows

LEMMA TableReplaced ==
  ASSUME Types, NEW new, Replaced(new)
  PROVE  TableGrows
<1>1. Len(table) \in Nat
  BY LenProperties DEF Types
<1> QED
  BY <1>1 DEF TableGrows, Replaced

\* A registration or a release is at none of the steps that name a table.
LEMMA TypesBusy ==
  ASSUME Types, NEW a \in Arenas, NEW pc \in Busy, NEW d, NEW n, NEW u, NEW end,
         After(a, pc, d, n, u, end),
         TableGrows, used' \in Nat, live' \in Nat,
         lock' \in Arenas \cup {none}, desc' \in Seq(DescType), pool' \in Seq(Nat),
         mapped' \subseteq 1 .. Units, spans' \in [Arenas -> Seq(Nat)],
         cache' \in [Arenas -> Nat \cup {none}]
  PROVE  Types'
<1>1. proc' \in [Arenas -> ProcType] /\ Others(a) /\ proc'[a].pc = pc
  BY DEF After
<1>2. proc'[a].pc \notin {"slot", "unit", "again"}
  BY <1>1 DEF Busy
<1> QED
  BY <1>1, <1>2, TypesStep

LEMMA TypesIdle ==
  ASSUME Types, NEW a \in Arenas, proc' \in [Arenas -> ProcType], Others(a), proc'[a] = Idle,
         TableGrows, used' \in Nat, live' \in Nat,
         lock' \in Arenas \cup {none}, desc' \in Seq(DescType), pool' \in Seq(Nat),
         mapped' \subseteq 1 .. Units, spans' \in [Arenas -> Seq(Nat)],
         cache' \in [Arenas -> Nat \cup {none}]
  PROVE  Types'
<1>2. proc'[a].pc \notin {"slot", "unit", "again"}
  BY DEF Idle
<1> QED
  BY <1>2, TypesStep

LEMMA TypesNext ==
  ASSUME Types, NEW a \in Arenas, NEW d, NEW todo, AfterNext(a, d, todo),
         TableGrows, used' \in Nat, live' \in Nat,
         lock' \in Arenas \cup {none}, desc' \in Seq(DescType), pool' \in Seq(Nat),
         mapped' \subseteq 1 .. Units, spans' \in [Arenas -> Seq(Nat)],
         cache' \in [Arenas -> Nat \cup {none}]
  PROVE  Types'
<1>1. proc' \in [Arenas -> ProcType] /\ Others(a) /\ proc'[a].pc = "unregister"
  BY DEF AfterNext
<1>2. proc'[a].pc \notin {"slot", "unit", "again"}
  BY <1>1
<1> QED
  BY <1>1, <1>2, TypesStep

Labels == /\ "map" \in Busy /\ "register" \in Busy /\ "add" \in Busy /\ "span" \in Busy /\ "undo" \in Busy
          /\ "unregister" \in Busy /\ "del" \in Busy /\ "disown" \in Busy /\ "unmap" \in Busy
          /\ "recycle" \in Busy

LEMMA LabelsHold == Labels
  BY DEF Labels, Busy

LEMMA TypesHold ==
  ASSUME Types
  PROVE  /\ lock \in Arenas \cup {none} /\ desc \in Seq(DescType) /\ pool \in Seq(Nat)
         /\ mapped \subseteq 1 .. Units /\ spans \in [Arenas -> Seq(Nat)]
         /\ cache \in [Arenas -> Nat \cup {none}] /\ used \in Nat /\ live \in Nat
  BY DEF Types

LEMMA TypesRegister ==
  ASSUME IInv, NEW a \in Arenas,
         \/ \E n \in 1 .. 2 : SpanDescAlloc(a, n)
         \/ MapChunk(a) \/ RegisterBegin(a) \/ IndexRehash(a) \/ IndexRehashFails(a)
         \/ PutUnit(a) \/ PutSpan(a)
  PROVE  Types'
<1>0. Labels /\ Types /\ Custody /\ Mappings /\ Index
  BY LabelsHold DEF IInv
<1> USE <1>0
<1>1. ASSUME NEW n \in 1 .. 2, SpanDescAlloc(a, n) PROVE Types'
  <2>1. PICK d \in Nat \ {0} : /\ After(a, "map", d, n, proc[a].u, proc[a].end)
                               /\ desc' \in Seq(DescType) /\ pool' \in Seq(Nat)
    BY <1>1, FxAlloc
  <2>2. UNCHANGED indexVars /\ lock' = lock /\ mapped' = mapped /\ spans' = spans /\ cache' = cache
    BY <1>1 DEF SpanDescAlloc, arenaVars
  <2> QED
    BY <2>1, <2>2, TableStays, TypesHold, TypesBusy DEF Labels
<1>2. CASE MapChunk(a)
  <2>1. UNCHANGED indexVars /\ lock' = lock /\ pool' = pool /\ spans' = spans /\ cache' = cache
    BY <1>2 DEF MapChunk, arenaVars
  <2>2. CASE \E base \in Nat : MapGives(a, base)
    <3>1. PICK base \in Nat : MapGives(a, base)
      BY <2>2
    <3>2. /\ After(a, "register", proc[a].d, proc[a].n, proc[a].u, proc[a].end) /\ desc' \in Seq(DescType)
      BY <3>1 DEF MapGives, DescOnly
    <3>3. mapped' \subseteq 1 .. Units
      <4>1. proc[a].n \in 0 .. 2 /\ Units \in Nat /\ mapped \subseteq 1 .. Units
        BY TypesOf, TypesHold, Constants DEF ProcFields
      <4>2. base \in 1 .. Units - proc[a].n + 1 /\ mapped' = mapped \cup (base .. base + proc[a].n - 1)
        BY <3>1 DEF MapGives
      <4>3. ASSUME NEW x \in base .. base + proc[a].n - 1
            PROVE  x \in 1 .. Units
        <5> DEFINE n == proc[a].n
        <5>1. n \in 0 .. 2 /\ base \in 1 .. Units - n + 1 /\ x \in base .. base + n - 1
          BY <4>1, <4>2
        <5> HIDE DEF n
        <5> QED
          BY <5>1, Constants
      <4> QED
        BY <4>1, <4>2, <4>3
    <3> QED
      BY <2>1, <3>2, <3>3, TableStays, TypesHold, TypesBusy DEF Labels
  <2>3. CASE /\ After(a, "recycle", proc[a].d, proc[a].n, proc[a].u, proc[a].end)
             /\ mapped' = mapped /\ desc' = desc
    BY <2>1, <2>3, TableStays, TypesHold, TypesBusy DEF Labels
  <2> QED
    BY <1>2, <2>2, <2>3, FxMap
<1>3. CASE RegisterBegin(a)
  <2>1. /\ UNCHANGED indexVars /\ lock' = a /\ desc' = desc /\ pool' = pool /\ mapped' = mapped
        /\ spans' = spans /\ cache' = cache
    BY <1>3 DEF RegisterBegin, arenaVars
  <2>2. \E u, end : After(a, "add", proc[a].d, proc[a].n, u, end)
    BY <1>3, FxRegister
  <2> QED
    BY <2>1, <2>2, TableStays, TypesHold, TypesBusy DEF Labels
<1>4. CASE IndexRehash(a)
  <2>1. /\ lock' = lock /\ desc' = desc /\ pool' = pool /\ mapped' = mapped
        /\ spans' = spans /\ cache' = cache /\ proc' = proc /\ proc[a].pc = "add"
    BY <1>4 DEF IndexRehash, arenaVars, At
  <2>2. TxRehash(Rehashed)
    BY <1>4, Rehashes
  <2>3. TableGrows /\ used' \in Nat /\ live' \in Nat
    <3>1. Len(table) \in Nat
      BY LenProperties DEF Types
    <3> QED
      BY <2>2, <3>1, TypesHold DEF TableGrows, TxRehash
  <2>4. Others(a) /\ proc' \in [Arenas -> ProcType]
    BY <2>1, TypesOf DEF Others
  <2> QED
    BY <2>1, <2>3, <2>4, TypesHold, TypesStep
<1>5. CASE IndexRehashFails(a)
  <2>1. /\ UNCHANGED indexVars /\ desc' = desc /\ pool' = pool /\ mapped' = mapped
        /\ spans' = spans /\ cache' = cache
    BY <1>5 DEF IndexRehashFails, arenaVars
  <2>2. lock' \in Arenas \cup {none} /\ \E pc \in Busy : \E u, end : After(a, pc, proc[a].d, proc[a].n, u, end)
    BY <1>5, FxFails, TypesHold DEF Labels
  <2> QED
    BY <2>1, <2>2, TableStays, TypesHold, TypesBusy
<1>6. CASE PutUnit(a)
  <2>1. /\ used' = used /\ live' = live /\ lock' = lock /\ desc' = desc /\ pool' = pool /\ mapped' = mapped
        /\ spans' = spans /\ cache' = cache
    BY <1>6 DEF PutUnit, arenaVars
  <2>2. After(a, "span", proc[a].d, proc[a].n, proc[a].u, proc[a].end)
    BY <1>6, FxPutUnit
  <2>3. PICK new, s : TxPutUnit(a, new, s)
    BY <1>6, PutsUnit
  <2>4. TableGrows
    BY <2>3, TableReplaced DEF TxPutUnit
  <2> QED
    BY <2>1, <2>2, <2>4, TypesHold, TypesBusy DEF Labels
<1>7. CASE PutSpan(a)
  <2>1. /\ used' = used + 1 /\ live' = live + 1 /\ desc' = desc /\ pool' = pool /\ mapped' = mapped
        /\ cache' = cache
    BY <1>7 DEF PutSpan
  <2>2. used' \in Nat /\ live' \in Nat
    BY <2>1, TypesHold
  <2>3. PICK new, s : TxPutSpan(a, new, s)
    BY <1>7, PutsSpan
  <2>4. TableGrows
    BY <2>3, TableReplaced DEF TxPutSpan
  <2>5. CASE /\ lock' = lock /\ spans' = spans
             /\ After(a, "add", proc[a].d, proc[a].n, proc[a].u + 1, proc[a].end)
    BY <2>1, <2>2, <2>4, <2>5, TypesHold, TypesBusy DEF Labels
  <2>6. CASE PutLast(a)
    BY <2>1, <2>2, <2>4, <2>6, TypesHold, TypesIdle DEF PutLast
  <2> QED
    BY <1>7, <2>5, <2>6, FxPutSpan
<1> QED
  BY <1>1, <1>2, <1>3, <1>4, <1>5, <1>6, <1>7

LEMMA TypesRelease ==
  ASSUME IInv, NEW a \in Arenas,
         \/ \E d \in DOMAIN desc : ReleaseSpan(a, d)
         \/ ArenaReset(a) \/ UnregisterBegin(a) \/ IndexDel(a) \/ Disown(a) \/ Unmap(a) \/ SpanDescFree(a)
  PROVE  Types'
<1>0. Labels /\ Types /\ Custody /\ Mappings /\ Index
  BY LabelsHold DEF IInv
<1> USE <1>0
<1>1. ASSUME NEW d \in DOMAIN desc, ReleaseSpan(a, d) PROVE Types'
  <2>1. /\ UNCHANGED indexVars /\ lock' = lock /\ desc' = desc /\ pool' = pool /\ mapped' = mapped
        /\ spans' = spans /\ cache' = cache
    BY <1>1 DEF ReleaseSpan, arenaVars
  <2>2. After(a, "unregister", d, proc[a].n, proc[a].u, proc[a].end)
    BY <1>1, FxRelease
  <2> QED
    BY <2>1, <2>2, TableStays, TypesHold, TypesBusy DEF Labels
<1>2. CASE ArenaReset(a)
  <2>1. /\ UNCHANGED indexVars /\ lock' = lock /\ desc' = desc /\ pool' = pool /\ mapped' = mapped
        /\ spans' = spans /\ cache' = cache
    BY <1>2 DEF ArenaReset, arenaVars
  <2>2. AfterNext(a, Head(spans[a]), Tail(spans[a]))
    BY <1>2, FxReset
  <2> QED
    BY <2>1, <2>2, TableStays, TypesHold, TypesNext
<1>3. CASE UnregisterBegin(a)
  <2>1. /\ UNCHANGED indexVars /\ lock' = a /\ desc' = desc /\ pool' = pool /\ mapped' = mapped
        /\ spans' = spans
    BY <1>3 DEF UnregisterBegin
  <2>2. (\E u, end : After(a, "del", proc[a].d, proc[a].n, u, end)) /\ cache' \in [Arenas -> Nat \cup {none}]
    BY <1>3, FxUnregister
  <2> QED
    BY <2>1, <2>2, TableStays, TypesHold, TypesBusy DEF Labels
<1>4. CASE IndexDel(a)
  <2>1. /\ desc' = desc /\ pool' = pool /\ mapped' = mapped
        /\ spans' = spans /\ cache' = cache /\ proc[a].pc \in Busy
    BY <1>4 DEF IndexDel, arenaVars, Busy
  <2>2. PICK new, i : TxDel(a, new, i)
    BY <1>4, Deletes
  <2>3. TableGrows
    BY <2>2, TableReplaced DEF TxDel
  <2>4. used' \in Nat /\ live' \in Nat
    <3>1. i \in Files(g_index) /\ live = Cardinality(Files(g_index))
      BY <2>2 DEF TxDel, Files, Index, Counted
    <3>2. IsFiniteSet(Files(g_index))
      BY CellsFinite, TableNow DEF Types
    <3>3. live # 0
      BY <3>1, <3>2, FS_EmptySet
    <3> QED
      BY <2>2, <3>3, TypesHold DEF TxDel
  <2>5. lock' \in Arenas \cup {none} /\ \E pc \in Busy : \E u, end : After(a, pc, proc[a].d, proc[a].n, u, end)
    BY <1>4, <2>1, FxDel, TypesHold DEF Labels
  <2> QED
    BY <2>1, <2>3, <2>4, <2>5, TypesHold, TypesBusy
<1>5. CASE Disown(a)
  <2>1. /\ UNCHANGED indexVars /\ lock' = lock /\ pool' = pool /\ mapped' = mapped /\ cache' = cache
    BY <1>5 DEF Disown
  <2>2. /\ After(a, "unmap", proc[a].d, proc[a].n, proc[a].u, proc[a].end)
        /\ desc' \in Seq(DescType) /\ spans' \in [Arenas -> Seq(Nat)]
    BY <1>5, FxDisown DEF Disowned, DescOnly
  <2> QED
    BY <2>1, <2>2, TableStays, TypesHold, TypesBusy DEF Labels
<1>6. CASE Unmap(a)
  <2>1. /\ UNCHANGED indexVars /\ lock' = lock /\ pool' = pool /\ cache' = cache /\ desc' = desc
        /\ spans' = spans /\ mapped' \subseteq mapped
    BY <1>6 DEF Unmap, arenaVars
  <2>2. After(a, "recycle", proc[a].d, proc[a].n, proc[a].u, proc[a].end)
    BY <1>6, FxUnmap
  <2>3. mapped' \subseteq 1 .. Units
    BY <2>1, TypesHold
  <2> QED
    BY <2>1, <2>2, <2>3, TableStays, TypesHold, TypesBusy DEF Labels
<1>7. CASE SpanDescFree(a)
  <2>1. /\ UNCHANGED indexVars /\ lock' = lock /\ desc' = desc /\ mapped' = mapped /\ proc[a].pc = "recycle"
        /\ pool' = <<proc[a].d>> \o pool
    BY <1>7 DEF SpanDescFree, At
  <2>2. pool' \in Seq(Nat)
    <3>1. proc[a].d \in Nat
      BY <2>1, WhenBusy DEF Labels
    <3> QED
      BY <2>1, <3>1, TypesHold, PushList
  <2>3. CASE /\ spans' = spans /\ cache' = cache
             /\ AfterNext(a, Head(proc[a].todo), Tail(proc[a].todo))
    BY <2>1, <2>2, <2>3, TableStays, TypesHold, TypesNext
  <2>4. CASE Freed(a)
    BY <2>1, <2>2, <2>4, TableStays, TypesHold, TypesIdle DEF Freed
  <2> QED
    BY <1>7, <2>3, <2>4, FxFree
<1> QED
  BY <1>1, <1>2, <1>3, <1>4, <1>5, <1>6, <1>7

LEMMA TypesQuiet ==
  ASSUME Types, NEW a \in Arenas, Quiet(a), cache' \in [Arenas -> Nat \cup {none}],
         proc' \in [Arenas -> ProcType], Others(a),
         proc'[a].pc \in {"slot", "unit", "again"} => proc'[a].t \in DOMAIN table
  PROVE  Types'
<1>1. UNCHANGED indexVars /\ lock' = lock /\ desc' = desc /\ pool' = pool /\ mapped' = mapped /\ spans' = spans
      /\ DOMAIN table' = DOMAIN table
  BY DEF Quiet, indexVars
<1> QED
  BY <1>1, TableStays, TypesHold, TypesStep

LEMMA TypesLooks ==
  ASSUME IInv, NEW a \in Arenas,
         \/ \E p \in Addresses, keep \in BOOLEAN : Lookup(a, p, keep)
         \/ LoadIndex(a) \/ LoadSpan(a) \/ LoadUnit(a) \/ MissAgain(a)
         \/ CheckDescriptor(a) \/ Answer(a)
  PROVE  Types'
<1>0. Types /\ Custody /\ Lookups /\ cache \in [Arenas -> Nat \cup {none}]
  BY TypesHold DEF IInv
<1> USE <1>0
<1>1. ASSUME NEW p \in Addresses, NEW keep \in BOOLEAN, Lookup(a, p, keep) PROVE Types'
  <2>1. Quiet(a) /\ cache' = cache
    BY <1>1, FxLookup
  <2>2. proc' \in [Arenas -> ProcType] /\ Others(a) /\ proc'[a].pc \in {"load", "answer"}
    BY <1>1, FxLookup DEF Looks
  <2> QED
    BY <2>1, <2>2, TypesQuiet
<1>2. CASE LoadIndex(a)
  <2>1. Quiet(a) /\ cache' = cache
    BY <1>2, FxLoadIndex
  <2>2. proc' \in [Arenas -> ProcType] /\ Others(a) /\ proc'[a].t = Len(table)
    BY <1>2, FxLoadIndex DEF Looks
  <2>3. Len(table) \in DOMAIN table
    BY TableNow DEF Types
  <2> QED
    BY <2>1, <2>2, <2>3, TypesQuiet
<1>3. CASE LoadSpan(a)
  <2>1. Quiet(a) /\ cache' = cache /\ proc[a].pc = "slot"
    BY <1>3, FxLoadSpan DEF LoadSpan, At
  <2>2. proc' \in [Arenas -> ProcType] /\ Others(a) /\ proc'[a].t = proc[a].t
    BY <1>3, FxLoadSpan DEF Looks
  <2>3. proc[a].t \in DOMAIN table
    BY <2>1 DEF Types
  <2> QED
    BY <2>1, <2>2, <2>3, TypesQuiet
<1>4. CASE LoadUnit(a)
  <2>1. Quiet(a) /\ cache' = cache /\ proc[a].pc = "unit"
    BY <1>4, FxLoadUnit DEF LoadUnit, At
  <2>2. proc' \in [Arenas -> ProcType] /\ Others(a) /\ proc'[a].t = proc[a].t
    BY <1>4, FxLoadUnit DEF Looks
  <2>3. proc[a].t \in DOMAIN table
    BY <2>1 DEF Types
  <2> QED
    BY <2>1, <2>2, <2>3, TypesQuiet
<1>5. CASE MissAgain(a)
  <2>1. Quiet(a) /\ cache' = cache
    BY <1>5, FxMissAgain
  <2>2. proc' \in [Arenas -> ProcType] /\ Others(a) /\ proc'[a].pc \in {"load", "answer"}
    BY <1>5, FxMissAgain DEF Looks
  <2> QED
    BY <2>1, <2>2, TypesQuiet
<1>6. CASE CheckDescriptor(a)
  <2>1. Quiet(a) /\ cache' \in [Arenas -> Nat \cup {none}]
    BY <1>6, FxCheck
  <2>2. proc' \in [Arenas -> ProcType] /\ Others(a) /\ proc'[a].pc = "answer"
    BY <1>6, FxCheck DEF Looks
  <2> QED
    BY <2>1, <2>2, TypesQuiet
<1>7. CASE Answer(a)
  <2>1. Quiet(a) /\ cache' = cache /\ proc' \in [Arenas -> ProcType] /\ Others(a) /\ proc'[a].pc = "idle"
    BY <1>7, FxAnswer DEF Idle
  <2> QED
    BY <2>1, TypesQuiet
<1> QED
  BY <1>1, <1>2, <1>3, <1>4, <1>5, <1>6, <1>7

-------------------------------------------------------------------------------
(***************************************************************************)
(* Custody is kept.                                                        *)
(***************************************************************************)
LockMoves(a) == lock' = lock \/ (lock = none /\ lock' = a) \/ (lock = a /\ lock' = none)

LEMMA CustodyStep ==
  ASSUME Custody, NEW a \in Arenas, Others(a), LockMoves(a), ProcShape(a)', Owned'
  PROVE  Custody'
<1>1. ASSUME NEW b \in Arenas \ {a}
      PROVE  ProcShape(b)'
  <2>1. proc'[b] = proc[b] /\ ProcShape(b)
    BY DEF Others, Custody
  <2>2. lock' = b <=> lock = b
    BY Constants DEF LockMoves
  <2> QED
    BY <2>1, <2>2 DEF ProcShape
<1> QED
  BY <1>1 DEF Custody

LEMMA ShapeBusy ==
  ASSUME NEW a \in Arenas, ProcShape(a), NEW pc \in Busy, NEW d, NEW n, NEW u, NEW end,
         After(a, pc, d, n, u, end), proc[a].p = 0,
         proc[a].reset => pc \in {"unregister", "del", "disown", "unmap", "recycle"},
         lock' = a <=> pc \in {"add", "span", "undo", "del"}
  PROVE  ProcShape(a)'
<1>1. /\ proc'[a].pc = pc /\ proc'[a].todo = proc[a].todo /\ (proc'[a].reset <=> proc[a].reset)
      /\ proc'[a].p = proc[a].p
  BY DEF After
<1>2. pc # "idle" /\ pc \notin Looking
  BY DEF Busy, Looking
<1> QED
  BY <1>1, <1>2 DEF ProcShape

LEMMA ShapeNext ==
  ASSUME NEW a \in Arenas, NEW d, NEW todo, AfterNext(a, d, todo), proc[a].p = 0, lock' # a
  PROVE  ProcShape(a)'
<1>1. proc'[a].pc = "unregister" /\ proc'[a].reset /\ proc'[a].p = 0
  BY DEF AfterNext
<1> QED
  BY <1>1 DEF ProcShape, Looking

LEMMA ShapeIdle ==
  ASSUME NEW a \in Arenas, proc'[a] = Idle, lock' # a
  PROVE  ProcShape(a)'
<1>1. proc'[a].pc = "idle" /\ ~proc'[a].reset /\ proc'[a].todo = <<>> /\ proc'[a].p = 0
  BY DEF Idle
<1> QED
  BY <1>1 DEF ProcShape, Looking

LEMMA ApartFrom ==
  ASSUME NEW a \in Arenas, Others(a), \A b \in Arenas \ {a} : spans'[b] = spans[b]
  PROVE  Apart(a)
  BY DEF Apart, Others

\* An operation that goes on with the descriptor it has.
LEMMA CustodyOn ==
  ASSUME Types, Custody, NEW a \in Arenas, proc[a].pc \in Busy,
         NEW pc \in Busy, NEW n, NEW u, NEW end, After(a, pc, proc[a].d, n, u, end),
         proc[a].reset => pc \in {"unregister", "del", "disown", "unmap", "recycle"},
         lock' = a <=> pc \in {"add", "span", "undo", "del"}, LockMoves(a),
         pc \in {"unregister", "del", "disown"} <=> proc[a].pc \in {"unregister", "del", "disown"},
         DOMAIN desc' = DOMAIN desc, pool' = pool, spans' = spans
  PROVE  Custody'
<1>1. ProcShape(a) /\ proc[a].p = 0 /\ Owned
  BY WhenBusy DEF Custody
<1>2. ProcShape(a)'
  BY <1>1, ShapeBusy
<1>3. /\ proc'[a].pc = pc /\ proc'[a].todo = proc[a].todo /\ (proc'[a].reset <=> proc[a].reset)
      /\ proc'[a].d = proc[a].d /\ Others(a)
  BY DEF After
<1>4. List(a)' = List(a)
  BY <1>3 DEF List
<1>5. Hand(a)' = Hand(a)
  BY <1>3 DEF Hand
<1>6. Listed(a)' <=> Listed(a)
  BY <1>3 DEF Listed
<1>7. Apart(a)
  BY <1>3, ApartFrom
<1>8. Owned'
  BY <1>1, <1>4, <1>5, <1>6, <1>7, OwnedSame
<1> QED
  BY <1>2, <1>3, <1>8, CustodyStep

LEMMA CustodyAlloc ==
  ASSUME Types, Custody, NEW a \in Arenas, NEW n \in 1 .. 2, SpanDescAlloc(a, n)
  PROVE  Custody'
<1>1. PICK d \in Nat \ {0} :
           /\ After(a, "map", d, n, proc[a].u, proc[a].end)
           /\ d \in DOMAIN desc' /\ DOMAIN desc \subseteq DOMAIN desc'
           /\ pool' \in Seq(Nat) /\ OneToOne(pool') /\ Range(pool') = Range(pool) \ {d}
           /\ d \in Range(pool) \/ d \notin DOMAIN desc
  BY FxAlloc
<1>2. At(a, "idle") /\ lock' = lock /\ spans' = spans
  BY DEF SpanDescAlloc, arenaVars
<1>3. /\ Hand(a) = {} /\ List(a) = spans[a] /\ Has(a) = Stock(a) /\ proc[a].p = 0 /\ ~proc[a].reset /\ lock # a
      /\ ProcShape(a) /\ Handles(a) /\ Owned /\ Range(pool) \subseteq DOMAIN desc
  BY <1>2, WhenIdle, OwnedIs DEF Custody
<1>4. "map" \in Busy /\ "map" \notin {"add", "span", "undo", "del"} /\ "map" \notin {"unregister", "del", "disown"}
  BY DEF Busy
<1>5. ProcShape(a)'
  BY <1>1, <1>2, <1>3, <1>4, ShapeBusy
<1>6. Others(a) /\ proc'[a].pc = "map" /\ proc'[a].d = d /\ ~proc'[a].reset
  BY <1>1, <1>3 DEF After
<1>7. List(a)' = List(a) /\ Hand(a)' = {d} /\ ~Listed(a)'
  BY <1>2, <1>3, <1>4, <1>6 DEF List, Hand, Listed
<1>8. Stock(a)' = Stock(a)
  BY <1>7 DEF Stock
<1>9. d \notin Stock(a) /\ Stock(a) \cap Range(pool) = {} /\ Stock(a) \subseteq DOMAIN desc
  BY <1>1, <1>3 DEF Handles, Has
<1>10. Handles(a)'
  <2>1. Has(a)' = Stock(a) \cup {d}
    BY <1>7, <1>8 DEF Has
  <2>2. Has(a)' \subseteq DOMAIN desc' /\ Has(a)' \cap Range(pool)' = {}
    BY <1>1, <1>9, <2>1
  <2>3. OneToOne(List(a))'
    BY <1>3, <1>7 DEF Handles
  <2> QED
    BY <2>2, <2>3, <1>7, <1>8, <1>9 DEF Handles
<1>11. Apart(a)
  BY <1>2, <1>6, ApartFrom
<1>12. \A x \in Has(a)' \cup Range(pool)' : x \in Has(a) \/ x \in Range(pool) \/ x \notin DOMAIN desc
  BY <1>1, <1>3, <1>7, <1>8 DEF Has
<1>13. OneToOne(pool)' /\ Range(pool)' \subseteq DOMAIN desc'
  BY <1>1, <1>3
<1>14. Owned'
  BY <1>1, <1>3, <1>10, <1>11, <1>12, <1>13, OwnedStep
<1> QED
  BY <1>2, <1>5, <1>6, <1>14, CustodyStep DEF LockMoves

LEMMA CustodyRegister ==
  ASSUME IInv, NEW a \in Arenas,
         \/ \E n \in 1 .. 2 : SpanDescAlloc(a, n)
         \/ MapChunk(a) \/ RegisterBegin(a) \/ IndexRehash(a) \/ IndexRehashFails(a)
         \/ PutUnit(a) \/ PutSpan(a)
  PROVE  Custody'
<1>0. Labels /\ Types /\ Custody
  BY LabelsHold DEF IInv
<1>shape. ProcShape(a)
  BY <1>0 DEF Custody
<1> USE <1>0
<1>1. ASSUME NEW n \in 1 .. 2, SpanDescAlloc(a, n) PROVE Custody'
  BY <1>1, CustodyAlloc
<1>2. CASE MapChunk(a)
  <2>1. lock' = lock /\ pool' = pool /\ spans' = spans /\ proc[a].pc = "map"
    BY <1>2 DEF MapChunk, arenaVars, At
  <2>2. ~proc[a].reset /\ lock # a
    BY <1>shape, <2>1 DEF ProcShape
  <2>3. PICK pc \in {"register", "recycle"} :
          After(a, pc, proc[a].d, proc[a].n, proc[a].u, proc[a].end) /\ DOMAIN desc' = DOMAIN desc
    BY <1>2, FxMap DEF MapGives, DescOnly
  <2> QED
    BY <2>1, <2>2, <2>3, CustodyOn DEF Labels, LockMoves
<1>3. CASE RegisterBegin(a)
  <2>1. lock = none /\ lock' = a /\ desc' = desc /\ pool' = pool /\ spans' = spans /\ proc[a].pc = "register"
    BY <1>3 DEF RegisterBegin, arenaVars, At
  <2>2. ~proc[a].reset
    BY <1>shape, <2>1 DEF ProcShape
  <2>3. \E u, end : After(a, "add", proc[a].d, proc[a].n, u, end)
    BY <1>3, FxRegister
  <2> QED
    BY <2>1, <2>2, <2>3, CustodyOn DEF Labels, LockMoves
<1>4. CASE IndexRehash(a)
  <2>1. lock' = lock /\ desc' = desc /\ pool' = pool /\ spans' = spans /\ proc' = proc
    BY <1>4 DEF IndexRehash, arenaVars
  <2>2. ProcShape(a)' /\ Others(a)
    BY <1>shape, <2>1 DEF ProcShape, Others
  <2>3. List(a)' = List(a) /\ Hand(a)' = Hand(a) /\ (Listed(a)' <=> Listed(a))
    BY <2>1 DEF List, Hand, Listed
  <2>4. Apart(a)
    BY <2>1, <2>2, ApartFrom
  <2>5. Owned'
    BY <2>1, <2>3, <2>4, OwnedSame DEF Custody
  <2> QED
    BY <2>1, <2>2, <2>5, CustodyStep DEF LockMoves
<1>5. CASE IndexRehashFails(a)
  <2>1. desc' = desc /\ pool' = pool /\ spans' = spans /\ proc[a].pc = "add"
    BY <1>5 DEF IndexRehashFails, arenaVars, At
  <2>2. ~proc[a].reset /\ lock = a
    BY <1>shape, <2>1 DEF ProcShape
  <2>3. CASE lock' = none /\ After(a, "unmap", proc[a].d, proc[a].n, proc[a].u, proc[a].end)
    BY <2>1, <2>2, <2>3, CustodyOn, Constants DEF Labels, LockMoves
  <2>4. CASE lock' = lock /\ \E u, end : After(a, "undo", proc[a].d, proc[a].n, u, end)
    BY <2>1, <2>2, <2>4, CustodyOn DEF Labels, LockMoves
  <2> QED
    BY <1>5, <2>3, <2>4, FxFails
<1>6. CASE PutUnit(a)
  <2>1. lock' = lock /\ desc' = desc /\ pool' = pool /\ spans' = spans /\ proc[a].pc = "add"
    BY <1>6 DEF PutUnit, arenaVars, At
  <2>2. ~proc[a].reset /\ lock = a
    BY <1>shape, <2>1 DEF ProcShape
  <2>3. After(a, "span", proc[a].d, proc[a].n, proc[a].u, proc[a].end)
    BY <1>6, FxPutUnit
  <2> QED
    BY <2>1, <2>2, <2>3, CustodyOn DEF Labels, LockMoves
<1>7. CASE PutSpan(a)
  <2>1. desc' = desc /\ pool' = pool /\ proc[a].pc = "span" /\ proc[a].pc \in Busy
    BY <1>7 DEF PutSpan, At, Busy
  <2>2. ~proc[a].reset /\ lock = a
    BY <1>shape, <2>1 DEF ProcShape
  <2>3. CASE /\ lock' = lock /\ spans' = spans
             /\ After(a, "add", proc[a].d, proc[a].n, proc[a].u + 1, proc[a].end)
    BY <2>1, <2>2, <2>3, CustodyOn DEF Labels, LockMoves
  <2>4. CASE PutLast(a)
    <3> DEFINE d == proc[a].d
    <3>1. /\ lock' = none /\ Others(a) /\ proc'[a] = Idle
          /\ spans'[a] = <<d>> \o spans[a] /\ \A b \in Arenas \ {a} : spans'[b] = spans[b]
      BY <2>4 DEF PutLast
    <3>2. ProcShape(a)' /\ Apart(a)
      BY <3>1, ShapeIdle, ApartFrom, Constants
    <3>3. Handles(a) /\ Owned /\ OneToOne(pool) /\ Range(pool) \subseteq DOMAIN desc /\ Hand(a) = {d} /\ d \in Nat
      BY <2>1, OwnedIs, WhenBusy DEF Custody
    <3>4. List(a) = spans[a] /\ ~Listed(a) /\ spans[a] \in Seq(Nat)
      BY <2>1, <2>2, TypesOf DEF List, Listed
    <3>5. d \notin Range(spans[a]) /\ OneToOne(spans[a])
      BY <3>3, <3>4 DEF Handles, Stock
    <3>6. List(a)' = spans'[a] /\ Hand(a)' = {} /\ ~Listed(a)'
      BY <3>1 DEF List, Hand, Listed, Idle, Busy
    <3>7. OneToOne(List(a))' /\ Stock(a)' = Stock(a) \cup {d}
      BY <3>1, <3>3, <3>4, <3>5, <3>6, PushList DEF Stock
    <3>8. Has(a)' = Has(a)
      BY <3>3, <3>6, <3>7 DEF Has
    <3>9. Handles(a)'
      BY <2>1, <3>3, <3>6, <3>7, <3>8 DEF Handles
    <3>10. Owned'
      BY <2>1, <3>2, <3>3, <3>8, <3>9, OwnedStep
    <3> QED
      BY <2>2, <3>1, <3>2, <3>10, CustodyStep DEF LockMoves
  <2> QED
    BY <1>7, <2>3, <2>4, FxPutSpan
<1> QED
  BY <1>1, <1>2, <1>3, <1>4, <1>5, <1>6, <1>7

\* A step of a lookup.
LEMMA CustodyLook ==
  ASSUME Types, Custody, NEW a \in Arenas, Quiet(a), Hand(a) = {}, lock # a, ~proc[a].reset,
         NEW pc \in Looking, NEW d, NEW p \in Addresses, NEW t, NEW i, NEW k, Looks(a, pc, d, p, t, i, k)
  PROVE  Custody'
<1>1. /\ proc'[a].pc = pc /\ proc'[a].p = p /\ proc'[a].todo = proc[a].todo /\ ~proc'[a].reset /\ Others(a)
  BY DEF Looks
<1>2. desc' = desc /\ pool' = pool /\ spans' = spans /\ lock' = lock
  BY DEF Quiet
<1>3. pc # "idle" /\ pc \notin Busy /\ pc \notin {"unregister", "del", "disown"}
      /\ pc \notin {"add", "span", "undo", "del"} /\ p # 0
  BY UnitOf DEF Looking, Busy
<1>4. ProcShape(a)'
  BY <1>1, <1>2, <1>3 DEF ProcShape, Custody
<1>5. List(a)' = List(a) /\ Hand(a)' = Hand(a)
  BY <1>1, <1>2, <1>3 DEF List, Hand
<1>6. Apart(a)
  BY <1>1, <1>2, ApartFrom
<1>7. Owned'
  BY <1>2, <1>5, <1>6, OwnedSame DEF Custody
<1> QED
  BY <1>1, <1>2, <1>4, <1>7, CustodyStep DEF LockMoves

LEMMA CustodyLooks ==
  ASSUME IInv, NEW a \in Arenas,
         \/ \E p \in Addresses, keep \in BOOLEAN : Lookup(a, p, keep)
         \/ LoadIndex(a) \/ LoadSpan(a) \/ LoadUnit(a) \/ MissAgain(a)
         \/ CheckDescriptor(a) \/ Answer(a)
  PROVE  Custody'
<1>0. Types /\ Custody /\ Lookups
  BY DEF IInv
<1>looks. {"load", "slot", "unit", "check", "again", "answer"} \subseteq Looking
  BY DEF Looking
<1> USE <1>0
<1>a. ASSUME proc[a].pc \in Looking
      PROVE  Hand(a) = {} /\ lock # a /\ ~proc[a].reset /\ proc[a].p \in Addresses
  <2>1. ProcShape(a)
    BY DEF Custody
  <2>2. lock # a
    BY <1>a, <2>1 DEF ProcShape, Looking
  <2> QED
    BY <1>a, <2>2, WhenLooking
<1>1. ASSUME NEW p \in Addresses, NEW keep \in BOOLEAN, Lookup(a, p, keep) PROVE Custody'
  <2>1. At(a, "idle")
    BY <1>1 DEF Lookup
  <2>2. Hand(a) = {} /\ lock # a /\ ~proc[a].reset
    BY <2>1, WhenIdle
  <2>3. Quiet(a) /\ \E pc \in Looking : \E d, t, i, k : Looks(a, pc, d, p, t, i, k)
    BY <1>1, <1>looks, FxLookup
  <2> QED
    BY <2>2, <2>3, CustodyLook
<1>2. ASSUME proc[a].pc \in Looking, Quiet(a), NEW pc \in Looking, NEW d, NEW t, NEW i, NEW k,
             Looks(a, pc, d, proc[a].p, t, i, k)
      PROVE  Custody'
  BY <1>a, <1>2, CustodyLook
<1>3. CASE LoadIndex(a)
  <2>1. proc[a].pc \in Looking
    BY <1>3, <1>looks DEF LoadIndex, At
  <2> QED
    BY <1>2, <1>3, <1>looks, <2>1, FxLoadIndex
<1>4. CASE LoadSpan(a)
  <2>1. proc[a].pc \in Looking
    BY <1>4, <1>looks DEF LoadSpan, At
  <2>2. Quiet(a) /\ \E pc \in Looking : \E d, t, i, k : Looks(a, pc, d, proc[a].p, t, i, k)
    BY <1>4, <1>looks, FxLoadSpan
  <2> QED
    BY <1>2, <2>1, <2>2
<1>5. CASE LoadUnit(a)
  <2>1. proc[a].pc \in Looking
    BY <1>5, <1>looks DEF LoadUnit, At
  <2>2. Quiet(a) /\ \E pc \in Looking : \E d, t, i, k : Looks(a, pc, d, proc[a].p, t, i, k)
    BY <1>5, <1>looks, FxLoadUnit
  <2> QED
    BY <1>2, <2>1, <2>2
<1>6. CASE MissAgain(a)
  <2>1. proc[a].pc \in Looking
    BY <1>6, <1>looks DEF MissAgain, At
  <2>2. Quiet(a) /\ \E pc \in Looking : \E d, t, i, k : Looks(a, pc, d, proc[a].p, t, i, k)
    BY <1>6, <1>looks, FxMissAgain
  <2> QED
    BY <1>2, <2>1, <2>2
<1>7. CASE CheckDescriptor(a)
  <2>1. proc[a].pc \in Looking
    BY <1>7, <1>looks DEF CheckDescriptor, At
  <2>2. Quiet(a) /\ \E pc \in Looking : \E d, t, i, k : Looks(a, pc, d, proc[a].p, t, i, k)
    BY <1>7, <1>looks, FxCheck
  <2> QED
    BY <1>2, <2>1, <2>2
<1>8. CASE Answer(a)
  <2>1. Quiet(a) /\ proc[a].pc = "answer" /\ Others(a) /\ proc'[a] = Idle
    BY <1>8, FxAnswer
  <2>2. Hand(a) = {} /\ lock # a /\ ~proc[a].reset
    BY <1>a, <1>looks, <2>1
  <2>3. desc' = desc /\ pool' = pool /\ spans' = spans /\ lock' = lock
    BY <2>1 DEF Quiet
  <2>4. ProcShape(a)' /\ Apart(a)
    BY <2>1, <2>2, <2>3, ShapeIdle, ApartFrom
  <2>5. List(a)' = List(a) /\ Hand(a)' = Hand(a)
    BY <2>1, <2>2, <2>3 DEF List, Hand, Idle, Busy
  <2>6. Owned'
    BY <2>2, <2>3, <2>4, <2>5, OwnedSame DEF Custody
  <2> QED
    BY <2>1, <2>3, <2>4, <2>6, CustodyStep DEF LockMoves
<1> QED
  BY <1>1, <1>3, <1>4, <1>5, <1>6, <1>7, <1>8

\* The head of a list is taken into hand: the rest is the list.
LEMMA HandsNext ==
  ASSUME Types, Custody, NEW a \in Arenas, NEW s \in Seq(Nat), s # <<>>, OneToOne(s), Apart(a),
         List(a) = s, AfterNext(a, Head(s), Tail(s)), DOMAIN desc' = DOMAIN desc,
         Hand(a) \cap Stock(a) = {}, pool' \in Seq(Nat), OneToOne(pool'),
         Range(pool') = Range(pool) \cup Hand(a)
  PROVE  Owned'
<1>1. /\ Head(s) \in Range(s) /\ Range(s) = Range(Tail(s)) \cup {Head(s)}
      /\ OneToOne(Tail(s)) /\ Head(s) \notin Range(Tail(s))
  BY PopList
<1>2. proc'[a].pc = "unregister" /\ proc'[a].d = Head(s) /\ proc'[a].todo = Tail(s) /\ proc'[a].reset
  BY DEF AfterNext
<1>3. Stock(a) = Range(s)
  BY DEF Stock
<1>4. List(a)' = Tail(s) /\ Hand(a)' = {Head(s)} /\ ~Listed(a)'
  BY <1>2 DEF List, Hand, Listed, Busy
<1>5. Stock(a)' = Range(Tail(s))
  BY <1>4 DEF Stock
<1>6. Has(a)' = Stock(a)
  BY <1>1, <1>3, <1>4, <1>5 DEF Has
<1>7. Handles(a) /\ Owned /\ Range(pool) \subseteq DOMAIN desc
  BY OwnedIs DEF Custody
<1>8. Handles(a)'
  <2>1. OneToOne(List(a))' /\ Has(a)' \subseteq DOMAIN desc'
    BY <1>1, <1>4, <1>6, <1>7 DEF Handles, Has
  <2>2. Has(a)' \cap Range(pool)' = {}
    BY <1>6, <1>7 DEF Handles, Has
  <2>3. Hand(a)' \cap Stock(a)' = {}
    BY <1>1, <1>4, <1>5
  <2> QED
    BY <2>1, <2>2, <2>3, <1>4 DEF Handles
<1>9. Range(pool)' \subseteq DOMAIN desc' /\ OneToOne(pool)'
  BY <1>7 DEF Handles, Has
<1>10. \A x \in Has(a)' \cup Range(pool)' : x \in Has(a) \/ x \in Range(pool)
  BY <1>6 DEF Has
<1> QED
  BY <1>7, <1>8, <1>9, <1>10, OwnedStep

LEMMA CustodyRelease ==
  ASSUME IInv, NEW a \in Arenas,
         \/ \E d \in DOMAIN desc : ReleaseSpan(a, d)
         \/ ArenaReset(a) \/ UnregisterBegin(a) \/ IndexDel(a) \/ Disown(a) \/ Unmap(a) \/ SpanDescFree(a)
  PROVE  Custody'
<1>0. Labels /\ Types /\ Custody
  BY LabelsHold DEF IInv
<1>shape. ProcShape(a) /\ Handles(a) /\ Owned /\ OneToOne(pool) /\ Range(pool) \subseteq DOMAIN desc
  BY <1>0, OwnedIs DEF Custody
<1> USE <1>0
<1>1. ASSUME NEW d \in DOMAIN desc, ReleaseSpan(a, d) PROVE Custody'
  <2>1. /\ lock' = lock /\ desc' = desc /\ pool' = pool /\ spans' = spans
        /\ At(a, "idle") /\ d \in Range(spans[a])
    BY <1>1 DEF ReleaseSpan, arenaVars
  <2>2. After(a, "unregister", d, proc[a].n, proc[a].u, proc[a].end)
    BY <1>1, FxRelease
  <2>3. /\ Hand(a) = {} /\ List(a) = spans[a] /\ Has(a) = Stock(a) /\ proc[a].p = 0 /\ ~proc[a].reset /\ lock # a
        /\ Stock(a) = Range(spans[a])
    BY <2>1, WhenIdle
  <2>4. ProcShape(a)'
    BY <1>shape, <2>1, <2>2, <2>3, ShapeBusy DEF Labels
  <2>5. Others(a) /\ proc'[a].pc = "unregister" /\ proc'[a].d = d /\ ~proc'[a].reset
    BY <2>2, <2>3 DEF After
  <2>6. List(a)' = List(a) /\ Hand(a)' = {d} /\ Listed(a)'
    BY <2>1, <2>3, <2>5 DEF List, Hand, Listed, Busy
  <2>7. Stock(a)' = Stock(a) /\ Has(a)' = Has(a)
    BY <2>1, <2>3, <2>6 DEF Stock, Has
  <2>8. Handles(a)'
    <3>1. Hand(a)' \cap Stock(a)' = Hand(a)'
      BY <2>1, <2>3, <2>6, <2>7
    <3> QED
      BY <1>shape, <2>1, <2>6, <2>7, <3>1 DEF Handles
  <2>9. Apart(a)
    BY <2>1, <2>5, ApartFrom
  <2>10. Owned'
    BY <1>shape, <2>1, <2>7, <2>8, <2>9, OwnedStep
  <2> QED
    BY <2>1, <2>4, <2>5, <2>10, CustodyStep DEF LockMoves
<1>2. CASE ArenaReset(a)
  <2> DEFINE s == spans[a]
  <2>1. lock' = lock /\ desc' = desc /\ pool' = pool /\ spans' = spans /\ At(a, "idle") /\ s # <<>>
    BY <1>2 DEF ArenaReset, arenaVars
  <2>2. AfterNext(a, Head(s), Tail(s))
    BY <1>2, FxReset
  <2>3. Hand(a) = {} /\ List(a) = s /\ proc[a].p = 0 /\ lock # a /\ s \in Seq(Nat)
    BY <2>1, WhenIdle, TypesOf
  <2>4. ProcShape(a)'
    BY <2>1, <2>2, <2>3, ShapeNext
  <2>5. Others(a) /\ Apart(a)
    BY <2>1, <2>2, ApartFrom DEF AfterNext
  <2>6. OneToOne(s) /\ pool' \in Seq(Nat) /\ OneToOne(pool') /\ Range(pool') = Range(pool) \cup Hand(a)
    BY <1>shape, <2>1, <2>3, TypesHold DEF Handles
  <2> HIDE DEF s
  <2>7. Owned'
    BY <2>1, <2>2, <2>3, <2>5, <2>6, HandsNext
  <2> QED
    BY <2>1, <2>4, <2>5, <2>7, CustodyStep DEF LockMoves
<1>3. CASE UnregisterBegin(a)
  <2>1. lock = none /\ lock' = a /\ desc' = desc /\ pool' = pool /\ spans' = spans /\ proc[a].pc = "unregister"
    BY <1>3 DEF UnregisterBegin, At
  <2>2. \E u, end : After(a, "del", proc[a].d, proc[a].n, u, end)
    BY <1>3, FxUnregister
  <2> QED
    BY <2>1, <2>2, CustodyOn DEF Labels, LockMoves
<1>4. CASE IndexDel(a)
  <2>1. desc' = desc /\ pool' = pool /\ spans' = spans /\ proc[a].pc \in {"del", "undo"}
    BY <1>4 DEF IndexDel, arenaVars
  <2>2. lock = a /\ (proc[a].pc = "undo" => ~proc[a].reset) /\ none # a
    BY <1>shape, <2>1, Constants DEF ProcShape
  <2>3. CASE /\ lock' = lock
             /\ After(a, proc[a].pc, proc[a].d, proc[a].n, proc[a].u + 1, proc[a].end)
    BY <2>1, <2>2, <2>3, CustodyOn DEF Labels, LockMoves
  <2>4. CASE /\ lock' = none
             /\ After(a, IF proc[a].pc = "del" THEN "disown" ELSE "unmap",
                      proc[a].d, proc[a].n, proc[a].u, proc[a].end)
    <3>1. CASE proc[a].pc = "del"
      <4>1. After(a, "disown", proc[a].d, proc[a].n, proc[a].u, proc[a].end)
        BY <2>4, <3>1
      <4> QED
        BY <2>1, <2>2, <2>4, <3>1, <4>1, CustodyOn DEF Labels, LockMoves
    <3>2. CASE proc[a].pc = "undo"
      <4>1. After(a, "unmap", proc[a].d, proc[a].n, proc[a].u, proc[a].end)
        BY <2>4, <3>2
      <4> QED
        BY <2>1, <2>2, <2>4, <3>2, <4>1, CustodyOn DEF Labels, LockMoves
    <3> QED
      BY <2>1, <3>1, <3>2
  <2> QED
    BY <1>4, <2>3, <2>4, FxDel
<1>5. CASE Disown(a)
  <2> DEFINE d == proc[a].d
  <2>1. lock' = lock /\ pool' = pool /\ proc[a].pc = "disown"
    BY <1>5 DEF Disown, At
  <2>2. Disowned(a)
    BY <1>5, FxDisown
  <2>3. lock # a /\ proc[a].p = 0 /\ Hand(a) = {d}
    BY <1>shape, <2>1, WhenBusy DEF ProcShape, Labels
  <2>4. After(a, "unmap", d, proc[a].n, proc[a].u, proc[a].end) /\ DOMAIN desc' = DOMAIN desc
    BY <2>2 DEF Disowned, DescOnly
  <2>5. ProcShape(a)'
    BY <1>shape, <2>1, <2>3, <2>4, ShapeBusy DEF Labels
  <2>6. Others(a) /\ proc'[a].pc = "unmap" /\ proc'[a].d = d /\ (proc'[a].reset <=> proc[a].reset)
        /\ proc'[a].todo = proc[a].todo
    BY <2>4 DEF After
  <2>7. Apart(a)
    BY <2>2, <2>6, ApartFrom DEF Disowned
  <2>8. Hand(a)' = Hand(a) /\ ~Listed(a)'
    BY <2>1, <2>3, <2>6 DEF Hand, Listed, Labels
  <2>9. OneToOne(List(a))' /\ Stock(a)' = Stock(a) \ {d}
    <3>1. CASE proc[a].reset
      <4>1. List(a)' = List(a) /\ ~Listed(a)
        BY <2>6, <3>1 DEF List, Listed
      <4>2. d \notin Stock(a)
        BY <1>shape, <2>3, <4>1 DEF Handles
      <4> QED
        BY <1>shape, <4>1, <4>2 DEF Handles, Stock
    <3>2. CASE ~proc[a].reset
      <4>1. List(a)' = spans'[a] /\ List(a) = spans[a]
        BY <2>6, <3>2 DEF List
      <4>2. OneToOne(spans'[a]) /\ Range(spans'[a]) = Range(spans[a]) \ {d}
        BY <2>2, <3>2 DEF Disowned
      <4> QED
        BY <4>1, <4>2 DEF Stock
    <3> QED
      BY <3>1, <3>2
  <2>10. Has(a)' = Has(a)
    BY <2>3, <2>8, <2>9 DEF Has
  <2>11. Handles(a)'
    <3>1. Hand(a)' \cap Stock(a)' = {}
      BY <2>3, <2>8, <2>9
    <3> QED
      BY <1>shape, <2>1, <2>4, <2>8, <2>9, <2>10, <3>1 DEF Handles
  <2>12. Owned'
    BY <1>shape, <2>1, <2>4, <2>7, <2>10, <2>11, OwnedStep
  <2> QED
    BY <2>1, <2>5, <2>6, <2>12, CustodyStep DEF LockMoves
<1>6. CASE Unmap(a)
  <2>1. lock' = lock /\ desc' = desc /\ pool' = pool /\ spans' = spans /\ proc[a].pc = "unmap"
    BY <1>6 DEF Unmap, arenaVars, At
  <2>2. After(a, "recycle", proc[a].d, proc[a].n, proc[a].u, proc[a].end)
    BY <1>6, FxUnmap
  <2>3. lock # a
    BY <1>shape, <2>1 DEF ProcShape
  <2> QED
    BY <2>1, <2>2, <2>3, CustodyOn DEF Labels, LockMoves
<1>7. CASE SpanDescFree(a)
  <2> DEFINE d == proc[a].d
  <2>1. lock' = lock /\ desc' = desc /\ proc[a].pc = "recycle" /\ pool' = <<d>> \o pool
    BY <1>7 DEF SpanDescFree, At
  <2>2. lock # a /\ proc[a].p = 0 /\ Hand(a) = {d} /\ d \in Nat /\ d \in DOMAIN desc
    BY <1>shape, <2>1, WhenBusy DEF ProcShape, Labels
  <2>3. Hand(a) \cap Stock(a) = {} /\ OneToOne(List(a))
    BY <1>shape, <2>1 DEF Handles, Listed
  <2>4. pool' \in Seq(Nat) /\ Range(pool') = Range(pool) \cup {d} /\ OneToOne(pool')
    <3>1. d \notin Range(pool)
      BY <1>shape, <2>2 DEF Handles, Has
    <3> QED
      BY <1>shape, <2>1, <2>2, <3>1, TypesHold, PushList
  <2>5. CASE /\ proc[a].todo # <<>> /\ proc[a].reset /\ spans' = spans
             /\ AfterNext(a, Head(proc[a].todo), Tail(proc[a].todo))
    <3> DEFINE s == proc[a].todo
    <3>1. List(a) = s /\ s \in Seq(Nat) /\ s # <<>>
      BY <2>5, TypesOf DEF List, ProcFields
    <3>2. AfterNext(a, Head(s), Tail(s))
      BY <2>5
    <3>3. ProcShape(a)'
      BY <2>1, <2>2, <3>2, ShapeNext
    <3>4. Others(a) /\ Apart(a)
      BY <2>5, <3>2, ApartFrom DEF AfterNext
    <3> HIDE DEF s
    <3>5. OneToOne(s)
      BY <2>3, <3>1
    <3>6. Owned'
      BY <2>1, <2>2, <2>3, <2>4, <3>1, <3>2, <3>4, <3>5, HandsNext
    <3> QED
      BY <2>1, <3>3, <3>4, <3>6, CustodyStep DEF LockMoves
  <2>6. CASE Freed(a)
    <3>1. Others(a) /\ proc'[a] = Idle /\ spans'[a] = List(a) /\ \A b \in Arenas \ {a} : spans'[b] = spans[b]
      BY <2>6 DEF Freed
    <3>2. ProcShape(a)' /\ Apart(a)
      BY <2>1, <2>2, <3>1, ShapeIdle, ApartFrom
    <3>3. List(a)' = List(a) /\ Hand(a)' = {} /\ ~Listed(a)'
      BY <3>1 DEF List, Hand, Listed, Idle, Busy
    <3>4. Stock(a)' = Stock(a) /\ Has(a)' = Stock(a)
      BY <3>3 DEF Stock, Has
    <3>5. Handles(a)'
      <4>1. Has(a)' \cap Range(pool)' = {}
        BY <1>shape, <2>2, <2>3, <2>4, <3>4 DEF Handles, Has
      <4>2. Has(a)' \subseteq DOMAIN desc'
        BY <1>shape, <2>1, <3>4 DEF Handles, Has
      <4> QED
        BY <2>3, <3>3, <3>4, <4>1, <4>2 DEF Handles
    <3>6. Range(pool)' \subseteq DOMAIN desc' /\ OneToOne(pool)'
      BY <1>shape, <2>1, <2>2, <2>4
    <3>7. \A x \in Has(a)' \cup Range(pool)' : x \in Has(a) \/ x \in Range(pool)
      BY <2>2, <2>4, <3>4 DEF Has
    <3>8. Owned'
      BY <1>shape, <2>1, <3>2, <3>5, <3>6, <3>7, OwnedStep
    <3> QED
      BY <2>1, <3>1, <3>2, <3>8, CustodyStep DEF LockMoves
  <2> QED
    BY <1>7, <2>5, <2>6, FxFree
<1> QED
  BY <1>1, <1>2, <1>3, <1>4, <1>5, <1>6, <1>7

-------------------------------------------------------------------------------
(***************************************************************************)
(* The mappings.                                                           *)
(***************************************************************************)
AtSpan == Busy \ {"map", "recycle"}
AtMark == {"register", "add", "span", "unregister", "del", "disown"}

\* An operation goes on; the lists stay.
LEMMA AfterList ==
  ASSUME NEW a \in Arenas, NEW pc, NEW d, NEW n, NEW u, NEW end, After(a, pc, d, n, u, end), spans' = spans
  PROVE  /\ Others(a) /\ Apart(a) /\ List(a)' = List(a) /\ Stock(a)' = Stock(a)
         /\ Hand(a)' = IF pc \in Busy THEN {d} ELSE {}
         /\ Standing(a)' = Stock(a) \cup (IF pc \in AtSpan THEN {d} ELSE {})
         /\ Marked(a)' = Stock(a) \cup (IF pc \in AtMark THEN {d} ELSE {})
<1>1. /\ proc'[a].pc = pc /\ proc'[a].todo = proc[a].todo /\ (proc'[a].reset <=> proc[a].reset)
      /\ proc'[a].d = d /\ Others(a)
  BY DEF After
<1>2. List(a)' = List(a)
  BY <1>1 DEF List
<1>3. Stock(a)' = Stock(a)
  BY <1>2 DEF Stock
<1> QED
  BY <1>1, <1>2, <1>3, ApartFrom DEF Hand, Standing, Marked, AtSpan, AtMark

LEMMA StandingIs ==
  ASSUME NEW a \in Arenas
  PROVE  /\ Standing(a) = Stock(a) \cup (IF proc[a].pc \in AtSpan THEN {proc[a].d} ELSE {})
         /\ Marked(a) = Stock(a) \cup (IF proc[a].pc \in AtMark THEN {proc[a].d} ELSE {})
         /\ Standing(a) \subseteq Has(a) /\ Marked(a) \subseteq Has(a)
<1>1. AtSpan \subseteq Busy /\ AtMark \subseteq Busy
  BY DEF AtSpan, AtMark, Busy
<1> QED
  BY <1>1 DEF Standing, Marked, AtSpan, AtMark, Has, Hand

\* Nobody touches what the other arenas have.
DescKept(a) == \A b \in Arenas \ {a} : \A d \in Has(b) : desc'[d] = desc[d]

LEMMA DescKeptBy ==
  ASSUME Types, Custody, NEW a \in Arenas, NEW d \in Has(a), DescOnly(d)
  PROVE  DescKept(a)
<1> SUFFICES ASSUME NEW b \in Arenas \ {a}, NEW e \in Has(b) PROVE desc'[e] = desc[e]
  BY DEF DescKept
<1>1. Handles(b) /\ Has(a) \cap Has(b) = {}
  BY OwnedIs DEF Custody
<1>2. e \in DOMAIN desc /\ e # d
  BY <1>1 DEF Handles
<1> QED
  BY <1>2 DEF DescOnly

LEMMA MappingsStep ==
  ASSUME Mappings, NEW a \in Arenas, Apart(a), DescKept(a),
         \A b \in Arenas \ {a} : \A d \in Standing(b) : UnitsOf(d) \subseteq mapped',
         \A d \in Standing(a)' : SpanMapped(d)',
         \A d \in Standing(a)' : \A b \in Arenas \ {a} : \A e \in Standing(b) :
           d # e => UnitsOf(d)' \cap UnitsOf(e) = {},
         \A d, e \in Standing(a)' : d # e => UnitsOf(d)' \cap UnitsOf(e)' = {},
         \A d \in Marked(a)' : SpanMarked(a, d)',
         Phase(a)'
  PROVE  Mappings'
<1>1. ASSUME NEW b \in Arenas \ {a}
      PROVE  /\ Standing(b)' = Standing(b) /\ Marked(b)' = Marked(b) /\ proc'[b] = proc[b]
             /\ \A d \in Has(b) : desc'[d] = desc[d] /\ UnitsOf(d)' = UnitsOf(d)
             /\ Standing(b) \subseteq Has(b) /\ Marked(b) \subseteq Has(b)
  BY OthersKeep, StandingIs DEF DescKept, UnitsOf, Apart
<1>2. ASSUME NEW b \in Arenas, NEW d \in Standing(b)' PROVE SpanMapped(d)'
  <2>1. CASE b = a
    BY <2>1, <1>2
  <2>2. CASE b # a
    <3>1. d \in Standing(b) /\ desc'[d] = desc[d] /\ UnitsOf(d)' = UnitsOf(d) /\ UnitsOf(d) \subseteq mapped'
      BY <1>1, <1>2, <2>2
    <3>2. SpanMapped(d)
      BY <3>1 DEF Mappings
    <3> QED
      BY <3>1, <3>2 DEF SpanMapped
  <2> QED
    BY <2>1, <2>2
<1>3. ASSUME NEW b \in Arenas, NEW c \in Arenas, NEW d \in Standing(b)', NEW e \in Standing(c)', d # e
      PROVE  UnitsOf(d)' \cap UnitsOf(e)' = {}
  <2>1. CASE b = a /\ c = a
    BY <2>1, <1>3
  <2>2. CASE b = a /\ c # a
    <3>1. e \in Standing(c) /\ UnitsOf(e)' = UnitsOf(e)
      BY <1>1, <1>3, <2>2
    <3> QED
      BY <3>1, <2>2, <1>3
  <2>3. CASE b # a /\ c = a
    <3>1. d \in Standing(b) /\ UnitsOf(d)' = UnitsOf(d)
      BY <1>1, <1>3, <2>3
    <3> QED
      BY <3>1, <2>3, <1>3
  <2>4. CASE b # a /\ c # a
    <3>1. e \in Standing(c) /\ UnitsOf(e)' = UnitsOf(e) /\ d \in Standing(b) /\ UnitsOf(d)' = UnitsOf(d)
      BY <1>1, <1>3, <2>4
    <3> QED
      BY <3>1, <1>3 DEF Mappings
  <2> QED
    BY <2>1, <2>2, <2>3, <2>4
<1>4. ASSUME NEW b \in Arenas, NEW d \in Marked(b)' PROVE SpanMarked(b, d)'
  <2>1. CASE b = a
    BY <2>1, <1>4
  <2>2. CASE b # a
    <3>1. d \in Marked(b) /\ desc'[d] = desc[d]
      BY <1>1, <1>4, <2>2
    <3>2. SpanMarked(b, d)
      BY <3>1 DEF Mappings
    <3> QED
      BY <3>1, <3>2 DEF SpanMarked
  <2> QED
    BY <2>1, <2>2
<1>5. ASSUME NEW b \in Arenas PROVE Phase(b)'
  <2>1. CASE b = a
    BY <2>1
  <2>2. CASE b # a
    <3>1. Phase(b) /\ proc'[b] = proc[b]
      BY <1>1, <2>2 DEF Mappings
    <3>2. CASE proc[b].pc \in Busy
      <4>1. proc[b].d \in Has(b)
        BY <3>2 DEF Has, Hand
      <4>2. desc'[proc[b].d] = desc[proc[b].d]
        BY <4>1, <1>1, <2>2
      <4> QED
        BY <3>1, <4>2 DEF Phase
    <3>3. CASE proc[b].pc \notin Busy
      <4>1. proc[b].pc \notin {"map", "register", "add", "span", "undo", "del"}
        BY <3>3 DEF Busy
      <4> QED
        BY <3>1, <4>1 DEF Phase
    <3> QED
      BY <3>2, <3>3
  <2> QED
    BY <2>1, <2>2
<1> QED
  BY <1>2, <1>3, <1>4, <1>5 DEF Mappings

\* An operation that stands by no more than it did.
LEMMA MappingsOn ==
  ASSUME Mappings, NEW a \in Arenas, Apart(a), DescKept(a), Standing(a)' \subseteq Standing(a),
         Marked(a)' \subseteq Marked(a),
         \A d \in Standing(a)' : desc'[d].base = desc[d].base /\ desc'[d].size = desc[d].size,
         \A d \in Marked(a)' : desc'[d] = desc[d],
         \A b \in Arenas \ {a} : \A d \in Standing(b) : UnitsOf(d) \subseteq mapped',
         \A d \in Standing(a)' : UnitsOf(d) \subseteq mapped', Phase(a)'
  PROVE  Mappings'
<1>1. \A d \in Standing(a)' : UnitsOf(d)' = UnitsOf(d)
  BY DEF UnitsOf
<1>2. ASSUME NEW d \in Standing(a)' PROVE SpanMapped(d)'
  <2>1. SpanMapped(d)
    BY DEF Mappings
  <2> QED
    BY <1>1, <2>1 DEF SpanMapped
<1>3. ASSUME NEW d \in Marked(a)' PROVE SpanMarked(a, d)'
  <2>1. SpanMarked(a, d) /\ desc'[d] = desc[d]
    BY DEF Mappings
  <2> QED
    BY <2>1 DEF SpanMarked
<1>4. ASSUME NEW d \in Standing(a)', NEW b \in Arenas \ {a}, NEW e \in Standing(b), d # e
      PROVE  UnitsOf(d)' \cap UnitsOf(e) = {}
  <2>1. UnitsOf(d) \cap UnitsOf(e) = {}
    BY <1>4 DEF Mappings
  <2> QED
    BY <1>1, <2>1
<1>5. ASSUME NEW d \in Standing(a)', NEW e \in Standing(a)', d # e
      PROVE  UnitsOf(d)' \cap UnitsOf(e)' = {}
  <2>1. UnitsOf(d) \cap UnitsOf(e) = {}
    BY <1>5 DEF Mappings
  <2> QED
    BY <1>1, <2>1
<1> QED
  BY <1>2, <1>3, <1>4, <1>5, MappingsStep

\* No descriptor changes, and nothing is unmapped.
LEMMA MappingsSame ==
  ASSUME Mappings, NEW a \in Arenas, Apart(a), Standing(a)' \subseteq Standing(a),
         Marked(a)' \subseteq Marked(a), desc' = desc, mapped' = mapped, Phase(a)'
  PROVE  Mappings'
<1>1. DescKept(a)
  BY DEF DescKept
<1>2. \A b \in Arenas : \A d \in Standing(b) : UnitsOf(d) \subseteq mapped'
  BY DEF Mappings, SpanMapped
<1> QED
  BY <1>1, <1>2, MappingsOn

LEMMA PhaseNone ==
  ASSUME NEW a \in Arenas, proc'[a].pc \notin {"map", "register", "add", "span", "undo", "del"}
  PROVE  Phase(a)'
  BY DEF Phase

\* Where an operation is among the units of its span.
LEMMA PhaseAt ==
  ASSUME Types, Custody, Mappings, NEW a \in Arenas, proc[a].pc \in AtSpan, desc' = desc,
         NEW pc \in {"add", "span", "undo", "del"}, NEW n, NEW u \in Nat, NEW end \in Int,
         After(a, pc, proc[a].d, n, u, end),
         desc[proc[a].d].base <= u, u <= end, end <= desc[proc[a].d].base + desc[proc[a].d].size - 1,
         pc # "undo" => end = desc[proc[a].d].base + desc[proc[a].d].size - 1
  PROVE  Phase(a)'
<1>1. proc'[a].pc = pc /\ proc'[a].d = proc[a].d /\ proc'[a].u = u /\ proc'[a].end = end
  BY DEF After
<1> QED
  BY <1>1 DEF Phase

\* The span at hand, in its bounds.
LEMMA AtHand ==
  ASSUME Types, Custody, Mappings, NEW a \in Arenas, proc[a].pc \in AtSpan
  PROVE  /\ proc[a].d \in Standing(a) /\ desc[proc[a].d].base \in Nat /\ desc[proc[a].d].size \in Nat
         /\ desc[proc[a].d].base >= 1 /\ desc[proc[a].d].size >= 1 /\ Phase(a)
<1>1. proc[a].pc \in Busy
  BY DEF AtSpan
<1>2. DescFields(desc[proc[a].d])
  BY <1>1, WhenBusy
<1>3. proc[a].d \in Standing(a)
  BY StandingIs
<1>4. SpanMapped(proc[a].d) /\ Phase(a)
  BY <1>3 DEF Mappings
<1> QED
  BY <1>2, <1>3, <1>4 DEF SpanMapped, DescFields

LEMMA MappingsAlloc ==
  ASSUME Types, Custody, Mappings, NEW a \in Arenas, NEW n \in 1 .. 2, SpanDescAlloc(a, n)
  PROVE  Mappings'
<1>1. PICK d \in Nat \ {0} :
           /\ After(a, "map", d, n, proc[a].u, proc[a].end)
           /\ \A e \in DOMAIN desc : e # d => desc'[e] = desc[e]
           /\ d \in Range(pool) \/ d \notin DOMAIN desc
  BY FxAlloc
<1>2. At(a, "idle") /\ mapped' = mapped /\ spans' = spans
  BY DEF SpanDescAlloc, arenaVars
<1>3. Standing(a) = Stock(a) /\ Marked(a) = Stock(a)
  BY <1>2, WhenIdle
<1>4. Standing(a)' = Stock(a) /\ Marked(a)' = Stock(a) /\ Apart(a)
  BY <1>1, <1>2, AfterList DEF AtSpan, AtMark
<1>5. ASSUME NEW b \in Arenas, NEW e \in Has(b) PROVE desc'[e] = desc[e]
  <2>1. Handles(b)
    BY OwnedIs DEF Custody
  <2>2. e \in DOMAIN desc /\ e # d
    BY <1>1, <2>1 DEF Handles
  <2> QED
    BY <1>1, <2>2
<1>6. DescKept(a) /\ \A e \in Stock(a) : desc'[e] = desc[e]
  BY <1>5 DEF DescKept, Has
<1>7. \A b \in Arenas : \A e \in Standing(b) : UnitsOf(e) \subseteq mapped'
  BY <1>2 DEF Mappings, SpanMapped
<1>8. Phase(a)'
  <2>1. proc'[a].pc = "map" /\ proc'[a].n = n
    BY <1>1 DEF After
  <2> QED
    BY <2>1 DEF Phase
<1> QED
  BY <1>3, <1>4, <1>6, <1>7, <1>8, MappingsOn

\* A new mapping meets no other.
LEMMA MappingsMap ==
  ASSUME Types, Custody, Mappings, NEW a \in Arenas, proc[a].pc = "map", NEW base \in Nat,
         MapGives(a, base), spans' = spans
  PROVE  Mappings'
<1>d. PICK d, n : d = proc[a].d /\ n = proc[a].n
  OBVIOUS
<1> DEFINE new == base .. base + n - 1
<1>1. /\ base \in 1 .. Units - n + 1 /\ new \cap mapped = {} /\ mapped' = mapped \cup new
      /\ After(a, "register", d, n, proc[a].u, proc[a].end) /\ DescOnly(d)
      /\ desc'[d].owner = a /\ desc'[d].lo = 2 * base + 1
      /\ desc'[d].hi = 2 * (base + n) /\ desc'[d].base = base /\ desc'[d].size = n
  BY <1>d DEF MapGives
<1>2. desc'[d].magic
  BY <1>d DEF MapGives
<1>3. n \in 1 .. 2 /\ base >= 1
  <2>1. n \in 0 .. 2 /\ n >= 1
    BY <1>d, TypesOf DEF Mappings, Phase, ProcFields
  <2> QED
    BY <1>1, <2>1, Constants
<1>4. proc[a].pc \in Busy /\ proc[a].pc \notin AtSpan /\ proc[a].pc \notin AtMark /\ "register" \in AtSpan /\ "register" \in AtMark
  BY DEF Busy, AtSpan, AtMark
<1>5. Standing(a) = Stock(a) /\ Marked(a) = Stock(a)
  BY <1>4, StandingIs
<1>6. Standing(a)' = Stock(a) \cup {d} /\ Marked(a)' = Stock(a) \cup {d} /\ Apart(a)
  BY <1>1, <1>4, AfterList
<1>7. Handles(a) /\ d \in Has(a) /\ Hand(a) = {d} /\ ~Listed(a)
  BY <1>d, <1>4, WhenBusy, OwnedIs DEF Custody, Has, Listed
<1>8. d \notin Stock(a) /\ Stock(a) \subseteq DOMAIN desc
  BY <1>7 DEF Handles, Has
<1>9. DescKept(a)
  BY <1>1, <1>7, DescKeptBy
<1>10. \A e \in Stock(a) : desc'[e] = desc[e]
  BY <1>1, <1>8 DEF DescOnly
<1>11. \A e \in Stock(a) : UnitsOf(e)' = UnitsOf(e)
  BY <1>10 DEF UnitsOf
<1>12. UnitsOf(d)' = new
  BY <1>1 DEF UnitsOf
<1>13. \A b \in Arenas : \A e \in Standing(b) : UnitsOf(e) \subseteq mapped
  BY DEF Mappings, SpanMapped
<1>14. ASSUME NEW e \in Standing(a)' PROVE SpanMapped(e)'
  <2>1. CASE e = d
    <3>1. UnitsOf(d)' \subseteq mapped'
      BY <1>1, <1>12
    <3> QED
      BY <1>1, <1>3, <2>1, <3>1 DEF SpanMapped
  <2>2. CASE e # d
    <3>1. e \in Stock(a) /\ e \in Standing(a)
      BY <1>5, <1>6, <1>14, <2>2
    <3>2. SpanMapped(e)
      BY <3>1 DEF Mappings
    <3>3. UnitsOf(e)' \subseteq mapped'
      BY <1>1, <1>11, <3>1, <3>2 DEF SpanMapped
    <3> QED
      BY <1>10, <3>1, <3>2, <3>3 DEF SpanMapped
  <2> QED
    BY <2>1, <2>2
<1>15. ASSUME NEW e \in Marked(a)' PROVE SpanMarked(a, e)'
  <2>1. CASE e = d
    BY <1>1, <1>2, <2>1 DEF SpanMarked
  <2>2. CASE e # d
    <3>1. e \in Stock(a) /\ e \in Marked(a)
      BY <1>5, <1>6, <1>15, <2>2
    <3>2. SpanMarked(a, e) /\ desc'[e] = desc[e]
      BY <1>10, <3>1 DEF Mappings
    <3> QED
      BY <3>2 DEF SpanMarked
  <2> QED
    BY <2>1, <2>2
<1>16. ASSUME NEW e \in Standing(a)', NEW b \in Arenas \ {a}, NEW f \in Standing(b), e # f
       PROVE  UnitsOf(e)' \cap UnitsOf(f) = {}
  <2>1. CASE e = d
    BY <1>1, <1>12, <1>13, <2>1
  <2>2. CASE e # d
    <3>1. e \in Stock(a) /\ e \in Standing(a)
      BY <1>5, <1>6, <1>16, <2>2
    <3>2. UnitsOf(e) \cap UnitsOf(f) = {}
      BY <1>16, <3>1 DEF Mappings
    <3> QED
      BY <1>11, <3>1, <3>2
  <2> QED
    BY <2>1, <2>2
<1>17. ASSUME NEW e \in Standing(a)', NEW f \in Standing(a)', e # f
       PROVE  UnitsOf(e)' \cap UnitsOf(f)' = {}
  <2>1. \A g \in Stock(a) : new \cap UnitsOf(g)' = {}
    BY <1>1, <1>5, <1>11, <1>13
  <2>2. CASE e = d
    <3>1. f \in Stock(a)
      BY <1>6, <1>17, <2>2
    <3> QED
      BY <1>12, <2>1, <2>2, <3>1
  <2>3. CASE f = d
    <3>1. e \in Stock(a)
      BY <1>6, <1>17, <2>3
    <3> QED
      BY <1>12, <2>1, <2>3, <3>1
  <2>4. CASE e # d /\ f # d
    <3>1. e \in Stock(a) /\ f \in Stock(a) /\ e \in Standing(a) /\ f \in Standing(a)
      BY <1>5, <1>6, <1>17, <2>4
    <3>2. UnitsOf(e) \cap UnitsOf(f) = {}
      BY <1>17, <3>1 DEF Mappings
    <3> QED
      BY <1>11, <3>1, <3>2
  <2> QED
    BY <2>2, <2>3, <2>4
<1>18. \A b \in Arenas \ {a} : \A e \in Standing(b) : UnitsOf(e) \subseteq mapped'
  BY <1>1, <1>13
<1>19. Phase(a)'
  <2>1. proc'[a].pc = "register" /\ proc'[a].n = n /\ proc'[a].d = d
    BY <1>1 DEF After
  <2> QED
    BY <1>1, <2>1 DEF Phase
<1> HIDE DEF new
<1> QED
  BY <1>6, <1>9, <1>14, <1>15, <1>16, <1>17, <1>18, <1>19, MappingsStep

LEMMA MappingsRegister ==
  ASSUME IInv, NEW a \in Arenas,
         \/ \E n \in 1 .. 2 : SpanDescAlloc(a, n)
         \/ MapChunk(a) \/ RegisterBegin(a) \/ IndexRehash(a) \/ IndexRehashFails(a)
         \/ PutUnit(a) \/ PutSpan(a)
  PROVE  Mappings'
<1>0. Types /\ Custody /\ Mappings /\ ProcFields(proc[a])
  BY TypesOf DEF IInv
<1>at. /\ "register" \in AtSpan /\ "add" \in AtSpan /\ "span" \in AtSpan /\ "undo" \in AtSpan /\ "unmap" \in AtSpan
       /\ "register" \in AtMark /\ "add" \in AtMark /\ "span" \in AtMark /\ "undo" \notin AtMark
       /\ "unmap" \notin AtMark /\ "recycle" \notin AtSpan /\ "recycle" \notin AtMark
  BY DEF AtSpan, AtMark, Busy
<1> DEFINE lo == desc[proc[a].d].base
           hi == desc[proc[a].d].base + desc[proc[a].d].size - 1
<1> USE <1>0
<1>1. ASSUME NEW n \in 1 .. 2, SpanDescAlloc(a, n) PROVE Mappings'
  BY <1>1, MappingsAlloc
<1>2. CASE MapChunk(a)
  <2>1. spans' = spans /\ proc[a].pc = "map"
    BY <1>2 DEF MapChunk, arenaVars, At
  <2>2. CASE \E base \in Nat : MapGives(a, base)
    BY <2>1, <2>2, MappingsMap
  <2>3. CASE /\ After(a, "recycle", proc[a].d, proc[a].n, proc[a].u, proc[a].end)
             /\ mapped' = mapped /\ desc' = desc
    <3>1. Standing(a)' = Stock(a) /\ Marked(a)' = Stock(a) /\ Apart(a)
      BY <1>at, <2>1, <2>3, AfterList
    <3>2. proc'[a].pc = "recycle"
      BY <2>3 DEF After
    <3>3. Phase(a)'
      BY <3>2, PhaseNone
    <3> QED
      BY <2>3, <3>1, <3>3, StandingIs, MappingsSame
  <2> QED
    BY <1>2, <2>2, <2>3, FxMap
<1>3. CASE RegisterBegin(a)
  <2>1. desc' = desc /\ mapped' = mapped /\ spans' = spans /\ proc[a].pc = "register"
    BY <1>3 DEF RegisterBegin, arenaVars, At
  <2>2. After(a, "add", proc[a].d, proc[a].n, lo, desc[proc[a].d].base + proc[a].n - 1)
    BY <1>3, FxRegister
  <2>3. lo \in Nat /\ desc[proc[a].d].size \in Nat /\ desc[proc[a].d].size >= 1 /\ Phase(a)
    BY <1>at, <2>1, AtHand
  <2>4. proc[a].n = desc[proc[a].d].size
    BY <2>1, <2>3 DEF Phase
  <2>5. After(a, "add", proc[a].d, proc[a].n, lo, hi) /\ hi \in Int /\ lo <= lo /\ lo <= hi /\ hi <= hi
    BY <2>2, <2>3, <2>4
  <2>6. Phase(a)'
    BY <1>at, <2>1, <2>3, <2>5, PhaseAt
  <2>7. Standing(a)' = Standing(a) /\ Marked(a)' = Marked(a) /\ Apart(a)
    <3> HIDE DEF lo, hi
    <3>1. Standing(a)' = Stock(a) \cup {proc[a].d} /\ Marked(a)' = Stock(a) \cup {proc[a].d} /\ Apart(a)
      BY <1>at, <2>1, <2>5, AfterList
    <3> QED
      BY <1>at, <2>1, <3>1, StandingIs
  <2> QED
    BY <2>1, <2>6, <2>7, MappingsSame
<1>4. CASE IndexRehash(a)
  <2>1. desc' = desc /\ mapped' = mapped /\ spans' = spans /\ proc' = proc
    BY <1>4 DEF IndexRehash, arenaVars
  <2>2. List(a)' = List(a) /\ Apart(a)
    BY <2>1 DEF List, Apart
  <2>3. Stock(a)' = Stock(a)
    BY <2>2 DEF Stock
  <2>4. Standing(a)' = Standing(a) /\ Marked(a)' = Marked(a)
    BY <2>1, <2>3 DEF Standing, Marked
  <2>5. Phase(a)'
    BY <2>1 DEF Mappings, Phase
  <2> QED
    BY <2>1, <2>2, <2>4, <2>5, MappingsSame
<1>5. CASE IndexRehashFails(a)
  <2>1. desc' = desc /\ mapped' = mapped /\ spans' = spans /\ proc[a].pc = "add"
    BY <1>5 DEF IndexRehashFails, arenaVars, At
  <2>2. CASE After(a, "unmap", proc[a].d, proc[a].n, proc[a].u, proc[a].end)
    <3>1. proc'[a].pc = "unmap"
      BY <2>2 DEF After
    <3>2. Phase(a)'
      BY <3>1, PhaseNone
    <3>3. Standing(a)' = Standing(a) /\ Marked(a)' \subseteq Marked(a) /\ Apart(a)
      BY <1>at, <2>1, <2>2, AfterList, StandingIs
    <3> QED
      BY <2>1, <3>2, <3>3, MappingsSame
  <2>3. CASE /\ proc[a].u # desc[proc[a].d].base
             /\ After(a, "undo", proc[a].d, proc[a].n, desc[proc[a].d].base, proc[a].u - 1)
    <3>1. lo \in Nat /\ desc[proc[a].d].size \in Nat /\ Phase(a)
      BY <1>at, <2>1, AtHand
    <3>2. lo <= proc[a].u /\ proc[a].u <= proc[a].end /\ proc[a].end = hi /\ proc[a].u \in Nat
      BY <2>1, <3>1 DEF Phase, ProcFields
    <3> DEFINE e == proc[a].u - 1
    <3>3. e \in Int /\ lo <= lo /\ lo <= e /\ e <= hi /\ After(a, "undo", proc[a].d, proc[a].n, lo, e)
      BY <2>3, <3>1, <3>2
    <3> HIDE DEF e
    <3>4. Phase(a)'
      BY <1>at, <2>1, <3>1, <3>3, PhaseAt
    <3>5. Standing(a)' = Standing(a) /\ Marked(a)' \subseteq Marked(a) /\ Apart(a)
      BY <1>at, <2>1, <2>3, AfterList, StandingIs
    <3> QED
      BY <2>1, <3>4, <3>5, MappingsSame
  <2> QED
    BY <1>5, <2>2, <2>3, FxFails
<1>6. CASE PutUnit(a)
  <2>1. desc' = desc /\ mapped' = mapped /\ spans' = spans /\ proc[a].pc = "add"
    BY <1>6 DEF PutUnit, arenaVars, At
  <2>2. After(a, "span", proc[a].d, proc[a].n, proc[a].u, proc[a].end)
    BY <1>6, FxPutUnit
  <2>3. Phase(a) /\ proc[a].u \in Nat /\ proc[a].end \in Int
    BY DEF Mappings, ProcFields
  <2>4. lo <= proc[a].u /\ proc[a].u <= proc[a].end /\ proc[a].end = hi /\ proc[a].end <= hi
    BY <2>1, <2>3 DEF Phase
  <2>5. Phase(a)'
    BY <1>at, <2>1, <2>2, <2>3, <2>4, PhaseAt
  <2>6. Standing(a)' = Standing(a) /\ Marked(a)' = Marked(a) /\ Apart(a)
    BY <1>at, <2>1, <2>2, AfterList, StandingIs
  <2> QED
    BY <2>1, <2>5, <2>6, MappingsSame
<1>7. CASE PutSpan(a)
  <2>1. desc' = desc /\ mapped' = mapped /\ proc[a].pc = "span"
    BY <1>7 DEF PutSpan, At
  <2>2. Standing(a) = Stock(a) \cup {proc[a].d} /\ Marked(a) = Stock(a) \cup {proc[a].d}
    BY <1>at, <2>1, StandingIs
  <2>3. CASE /\ proc[a].u < proc[a].end /\ spans' = spans
             /\ After(a, "add", proc[a].d, proc[a].n, proc[a].u + 1, proc[a].end)
    <3>1. Phase(a) /\ proc[a].u \in Nat /\ proc[a].end \in Int /\ lo \in Nat
      BY <1>at, <2>1, AtHand DEF ProcFields
    <3>2. lo <= proc[a].u /\ proc[a].end = hi /\ proc[a].end <= hi
      BY <2>1, <3>1 DEF Phase
    <3>3. proc[a].u + 1 \in Nat /\ lo <= proc[a].u + 1 /\ proc[a].u + 1 <= proc[a].end
      BY <2>3, <3>1, <3>2
    <3>4. Phase(a)'
      BY <1>at, <2>1, <2>3, <3>1, <3>2, <3>3, PhaseAt
    <3>5. Standing(a)' = Standing(a) /\ Marked(a)' = Marked(a) /\ Apart(a)
      BY <1>at, <2>1, <2>2, <2>3, AfterList
    <3> QED
      BY <2>1, <3>4, <3>5, MappingsSame
  <2>4. CASE PutLast(a)
    <3>1. /\ Others(a) /\ proc'[a] = Idle
          /\ spans'[a] = <<proc[a].d>> \o spans[a] /\ \A b \in Arenas \ {a} : spans'[b] = spans[b]
      BY <2>4 DEF PutLast
    <3>2. proc'[a].pc = "idle" /\ ~proc'[a].reset
      BY <3>1 DEF Idle
    <3>3. ~proc[a].reset /\ spans[a] \in Seq(Nat) /\ proc[a].d \in Nat
      BY <2>1, TypesOf, WhenBusy DEF Custody, ProcShape, Busy
    <3>4. Stock(a)' = Stock(a) \cup {proc[a].d}
      BY <3>1, <3>2, <3>3, PushList DEF Stock, List
    <3>5. Standing(a)' = Stock(a)' /\ Marked(a)' = Stock(a)'
      BY <3>2 DEF Standing, Marked, Busy
    <3>6. Phase(a)' /\ Apart(a)
      BY <3>1, <3>2, PhaseNone, ApartFrom
    <3> QED
      BY <2>1, <2>2, <3>4, <3>5, <3>6, MappingsSame
  <2> QED
    BY <1>7, <2>3, <2>4, FxPutSpan
<1> QED
  BY <1>1, <1>2, <1>3, <1>4, <1>5, <1>6, <1>7

LEMMA MappingsRelease ==
  ASSUME IInv, NEW a \in Arenas,
         \/ \E d \in DOMAIN desc : ReleaseSpan(a, d)
         \/ ArenaReset(a) \/ UnregisterBegin(a) \/ IndexDel(a) \/ Disown(a) \/ Unmap(a) \/ SpanDescFree(a)
  PROVE  Mappings'
<1>0. Types /\ Custody /\ Mappings /\ ProcFields(proc[a]) /\ Handles(a)
  BY TypesOf, OwnedIs DEF IInv, Custody
<1>at. /\ "unregister" \in AtSpan /\ "del" \in AtSpan /\ "undo" \in AtSpan /\ "disown" \in AtSpan /\ "unmap" \in AtSpan
       /\ "unregister" \in AtMark /\ "del" \in AtMark /\ "undo" \notin AtMark /\ "disown" \in AtMark
       /\ "unmap" \notin AtMark /\ "recycle" \notin AtSpan /\ "recycle" \notin AtMark
  BY DEF AtSpan, AtMark, Busy
<1> DEFINE lo == desc[proc[a].d].base
           hi == desc[proc[a].d].base + desc[proc[a].d].size - 1
<1> USE <1>0
<1>next. ASSUME NEW s \in Seq(Nat), s # <<>>, AfterNext(a, Head(s), Tail(s)), Stock(a) = Range(s)
         PROVE  Standing(a)' \subseteq Standing(a) /\ Marked(a)' \subseteq Marked(a) /\ Phase(a)' /\ Others(a)
  <2>1. proc'[a].pc = "unregister" /\ proc'[a].d = Head(s) /\ proc'[a].todo = Tail(s) /\ proc'[a].reset /\ Others(a)
    BY <1>next DEF AfterNext
  <2>2. Range(s) = Range(Tail(s)) \cup {Head(s)}
    BY <1>next, PopList
  <2>3. Stock(a)' = Range(Tail(s))
    BY <2>1 DEF Stock, List
  <2>4. Standing(a)' = Stock(a) /\ Marked(a)' = Stock(a)
    BY <1>next, <2>1, <2>2, <2>3 DEF Standing, Marked, Busy
  <2>5. Phase(a)'
    BY <2>1, PhaseNone
  <2> QED
    BY <2>1, <2>4, <2>5, StandingIs
<1>1. ASSUME NEW d \in DOMAIN desc, ReleaseSpan(a, d) PROVE Mappings'
  <2>1. desc' = desc /\ mapped' = mapped /\ spans' = spans /\ At(a, "idle") /\ d \in Range(spans[a])
    BY <1>1 DEF ReleaseSpan, arenaVars
  <2>2. After(a, "unregister", d, proc[a].n, proc[a].u, proc[a].end)
    BY <1>1, FxRelease
  <2>3. d \in Stock(a) /\ Standing(a) = Stock(a) /\ Marked(a) = Stock(a)
    BY <2>1, WhenIdle
  <2>4. Standing(a)' = Stock(a) /\ Marked(a)' = Stock(a) /\ Apart(a)
    BY <1>at, <2>1, <2>2, <2>3, AfterList
  <2>5. proc'[a].pc = "unregister"
    BY <2>2 DEF After
  <2>6. Phase(a)'
    BY <2>5, PhaseNone
  <2> QED
    BY <2>1, <2>3, <2>4, <2>6, MappingsSame
<1>2. CASE ArenaReset(a)
  <2> DEFINE s == spans[a]
  <2>1. desc' = desc /\ mapped' = mapped /\ spans' = spans /\ At(a, "idle") /\ s # <<>>
    BY <1>2 DEF ArenaReset, arenaVars
  <2>2. AfterNext(a, Head(s), Tail(s))
    BY <1>2, FxReset
  <2>3. s \in Seq(Nat) /\ Stock(a) = Range(s)
    BY <2>1, WhenIdle, TypesOf
  <2> HIDE DEF s
  <2>4. Standing(a)' \subseteq Standing(a) /\ Marked(a)' \subseteq Marked(a) /\ Phase(a)' /\ Others(a)
    BY <1>next, <2>1, <2>2, <2>3
  <2>5. Apart(a)
    BY <2>1, <2>4, ApartFrom
  <2> QED
    BY <2>1, <2>4, <2>5, MappingsSame
<1>3. CASE UnregisterBegin(a)
  <2>1. desc' = desc /\ mapped' = mapped /\ spans' = spans /\ proc[a].pc = "unregister"
    BY <1>3 DEF UnregisterBegin, At
  <2>2. After(a, "del", proc[a].d, proc[a].n, lo, hi)
    BY <1>3, FxUnregister
  <2>3. lo \in Nat /\ desc[proc[a].d].size \in Nat /\ desc[proc[a].d].size >= 1
    BY <1>at, <2>1, AtHand
  <2>4. hi \in Int /\ lo <= lo /\ lo <= hi /\ hi <= hi
    BY <2>3
  <2>5. Phase(a)'
    BY <1>at, <2>1, <2>2, <2>3, <2>4, PhaseAt
  <2> HIDE DEF lo, hi
  <2>6. Standing(a)' = Stock(a) \cup {proc[a].d} /\ Marked(a)' = Stock(a) \cup {proc[a].d} /\ Apart(a)
    BY <1>at, <2>1, <2>2, AfterList
  <2>7. Standing(a)' = Standing(a) /\ Marked(a)' = Marked(a)
    BY <1>at, <2>1, <2>6, StandingIs
  <2> QED
    BY <2>1, <2>5, <2>6, <2>7, MappingsSame
<1>4. CASE IndexDel(a)
  <2>1. desc' = desc /\ mapped' = mapped /\ spans' = spans /\ proc[a].pc \in {"del", "undo"}
    BY <1>4 DEF IndexDel, arenaVars
  <2>2. Phase(a) /\ proc[a].u \in Nat /\ proc[a].end \in Int /\ lo \in Nat
    BY <1>at, <2>1, AtHand DEF ProcFields
  <2>3. lo <= proc[a].u /\ proc[a].end <= hi /\ (proc[a].pc = "del" => proc[a].end = hi)
    BY <2>1, <2>2 DEF Phase
  <2>4. CASE /\ proc[a].u < proc[a].end
             /\ After(a, proc[a].pc, proc[a].d, proc[a].n, proc[a].u + 1, proc[a].end)
    <3> DEFINE v == proc[a].u + 1
    <3>1. v \in Nat /\ lo <= v /\ v <= proc[a].end /\ After(a, proc[a].pc, proc[a].d, proc[a].n, v, proc[a].end)
      BY <2>2, <2>3, <2>4
    <3> HIDE DEF v
    <3>2. Phase(a)'
      BY <1>at, <2>1, <2>2, <2>3, <3>1, PhaseAt
    <3>3. Apart(a) /\ Standing(a)' = Standing(a) /\ Marked(a)' = Marked(a)
      BY <2>1, <3>1, AfterList, StandingIs
    <3> QED
      BY <2>1, <3>2, <3>3, MappingsSame
  <2>5. CASE After(a, IF proc[a].pc = "del" THEN "disown" ELSE "unmap",
                   proc[a].d, proc[a].n, proc[a].u, proc[a].end)
    <3>1. PICK pc \in {"disown", "unmap"} :
            /\ After(a, pc, proc[a].d, proc[a].n, proc[a].u, proc[a].end)
            /\ pc = "disown" => proc[a].pc = "del"
      BY <2>5
    <3>2. proc'[a].pc = pc
      BY <3>1 DEF After
    <3>3. Phase(a)'
      BY <3>1, <3>2, PhaseNone
    <3>4. Apart(a) /\ Standing(a)' = Standing(a) /\ Marked(a)' \subseteq Marked(a)
      <4>1. /\ Apart(a) /\ Standing(a)' = Stock(a) \cup {proc[a].d}
            /\ Marked(a)' = Stock(a) \cup (IF pc \in AtMark THEN {proc[a].d} ELSE {})
        BY <1>at, <2>1, <3>1, AfterList
      <4>2. Standing(a) = Stock(a) \cup {proc[a].d}
            /\ Marked(a) = Stock(a) \cup (IF proc[a].pc \in AtMark THEN {proc[a].d} ELSE {})
        BY <1>at, <2>1, StandingIs
      <4>3. pc \in AtMark => proc[a].pc \in AtMark
        BY <1>at, <3>1
      <4> QED
        BY <4>1, <4>2, <4>3
    <3> QED
      BY <2>1, <3>3, <3>4, MappingsSame
  <2> QED
    BY <1>4, <2>4, <2>5, FxDel
<1>5. CASE Disown(a)
  <2>0. PICK d : d = proc[a].d
    OBVIOUS
  <2>1. mapped' = mapped /\ proc[a].pc = "disown"
    BY <1>5 DEF Disown, At
  <2>2. Disowned(a)
    BY <1>5, FxDisown
  <2>3. /\ After(a, "unmap", d, proc[a].n, proc[a].u, proc[a].end) /\ DescOnly(d)
        /\ desc'[d].base = desc[d].base /\ desc'[d].size = desc[d].size
    BY <2>0, <2>2 DEF Disowned
  <2>4. proc'[a].pc = "unmap" /\ proc'[a].d = d /\ (proc'[a].reset <=> proc[a].reset)
        /\ proc'[a].todo = proc[a].todo /\ Others(a)
    BY <2>3 DEF After
  <2>5. Apart(a)
    BY <2>2, <2>4, ApartFrom DEF Disowned
  <2>6. Hand(a) = {d} /\ d \in Has(a)
    BY <2>0, <2>1, WhenBusy DEF Has, Busy
  <2>7. Stock(a)' = Stock(a) \ {d}
    <3>1. CASE proc[a].reset
      <4>1. List(a)' = List(a) /\ ~Listed(a)
        BY <2>4, <3>1 DEF List, Listed
      <4>2. d \notin Stock(a)
        BY <2>6, <4>1 DEF Handles
      <4> QED
        BY <4>1, <4>2 DEF Stock
    <3>2. CASE ~proc[a].reset
      <4>1. List(a)' = spans'[a] /\ List(a) = spans[a]
        BY <2>4, <3>2 DEF List
      <4>2. Range(spans'[a]) = Range(spans[a]) \ {d}
        BY <2>0, <2>2, <3>2 DEF Disowned
      <4> QED
        BY <4>1, <4>2 DEF Stock
    <3> QED
      BY <3>1, <3>2
  <2>8. Standing(a)' \subseteq Standing(a) /\ Marked(a)' = Stock(a) \ {d} /\ Marked(a)' \subseteq Marked(a)
    <3>1. Standing(a) = Stock(a) \cup {d} /\ Marked(a) = Stock(a) \cup {d}
      BY <1>at, <2>0, <2>1, StandingIs
    <3> QED
      BY <2>4, <2>7, <3>1 DEF Standing, Marked, Busy
  <2>9. DescKept(a)
    BY <2>3, <2>6, DescKeptBy
  <2>10. \A e \in Has(a) : e # d => desc'[e] = desc[e]
    BY <2>3 DEF Handles, DescOnly
  <2>11. \A e \in Standing(a)' : desc'[e].base = desc[e].base /\ desc'[e].size = desc[e].size
    BY <2>3, <2>8, <2>10, StandingIs
  <2>12. \A e \in Marked(a)' : desc'[e] = desc[e]
    BY <2>8, <2>10, StandingIs
  <2>13. \A b \in Arenas : \A e \in Standing(b) : UnitsOf(e) \subseteq mapped'
    BY <2>1 DEF Mappings, SpanMapped
  <2>14. Phase(a)'
    BY <2>4, PhaseNone
  <2> QED
    BY <2>5, <2>8, <2>9, <2>11, <2>12, <2>13, <2>14, MappingsOn
<1>6. CASE Unmap(a)
  <2>0. PICK d : d = proc[a].d
    OBVIOUS
  <2>1. desc' = desc /\ mapped' = mapped \ UnitsOf(d) /\ spans' = spans /\ proc[a].pc = "unmap"
    BY <1>6, <2>0 DEF Unmap, arenaVars, At
  <2>2. After(a, "recycle", d, proc[a].n, proc[a].u, proc[a].end)
    BY <1>6, <2>0, FxUnmap
  <2>3. Standing(a) = Stock(a) \cup {d} /\ Marked(a) = Stock(a) /\ Hand(a) = {d} /\ ~Listed(a)
    BY <1>at, <2>0, <2>1, StandingIs, WhenBusy DEF Busy, Listed
  <2>4. Standing(a)' = Stock(a) /\ Marked(a)' = Stock(a) /\ Apart(a)
    BY <1>at, <2>1, <2>2, AfterList
  <2>5. d \notin Stock(a)
    BY <2>3 DEF Handles
  <2>6. ASSUME NEW b \in Arenas, NEW e \in Standing(b), e # d
        PROVE  UnitsOf(e) \subseteq mapped'
    <3>1. UnitsOf(e) \cap UnitsOf(d) = {}
      BY <2>3, <2>6 DEF Mappings
    <3>2. UnitsOf(e) \subseteq mapped
      BY DEF Mappings, SpanMapped
    <3> QED
      BY <2>1, <3>1, <3>2
  <2>7. \A b \in Arenas \ {a} : d \notin Standing(b)
    <3>1. d \in Has(a)
      BY <2>3 DEF Has
    <3> QED
      BY <3>1, OwnedIs, StandingIs DEF Custody
  <2>8. /\ \A b \in Arenas \ {a} : \A e \in Standing(b) : UnitsOf(e) \subseteq mapped'
        /\ \A e \in Standing(a)' : UnitsOf(e) \subseteq mapped'
    BY <2>3, <2>4, <2>5, <2>6, <2>7
  <2>9. proc'[a].pc = "recycle"
    BY <2>2 DEF After
  <2>10. Phase(a)'
    BY <2>9, PhaseNone
  <2>11. DescKept(a)
    BY <2>1 DEF DescKept
  <2> QED
    BY <2>1, <2>3, <2>4, <2>8, <2>10, <2>11, MappingsOn
<1>7. CASE SpanDescFree(a)
  <2>1. desc' = desc /\ mapped' = mapped /\ proc[a].pc = "recycle"
    BY <1>7 DEF SpanDescFree, At
  <2>2. CASE /\ proc[a].todo # <<>> /\ proc[a].reset /\ spans' = spans
             /\ AfterNext(a, Head(proc[a].todo), Tail(proc[a].todo))
    <3> DEFINE s == proc[a].todo
    <3>1. s \in Seq(Nat) /\ s # <<>> /\ Stock(a) = Range(s) /\ AfterNext(a, Head(s), Tail(s))
      BY <2>2 DEF List, Stock, ProcFields
    <3> HIDE DEF s
    <3>2. Standing(a)' \subseteq Standing(a) /\ Marked(a)' \subseteq Marked(a) /\ Phase(a)' /\ Others(a)
      BY <1>next, <3>1
    <3>3. Apart(a)
      BY <2>2, <3>2, ApartFrom
    <3> QED
      BY <2>1, <3>2, <3>3, MappingsSame
  <2>3. CASE Freed(a)
    <3>1. Others(a) /\ proc'[a] = Idle /\ spans'[a] = List(a) /\ \A b \in Arenas \ {a} : spans'[b] = spans[b]
      BY <2>3 DEF Freed
    <3>2. proc'[a].pc = "idle" /\ ~proc'[a].reset
      BY <3>1 DEF Idle
    <3>3. List(a)' = List(a) /\ Apart(a) /\ Phase(a)'
      BY <3>1, <3>2, ApartFrom, PhaseNone DEF List
    <3>4. Stock(a)' = Stock(a)
      BY <3>3 DEF Stock
    <3>5. Standing(a)' = Stock(a) /\ Marked(a)' = Stock(a)
      BY <3>2, <3>4 DEF Standing, Marked, Busy
    <3> QED
      BY <2>1, <3>3, <3>5, StandingIs, MappingsSame
  <2> QED
    BY <1>7, <2>2, <2>3, FxFree
<1> QED
  BY <1>1, <1>2, <1>3, <1>4, <1>5, <1>6, <1>7

\* What all steps of a lookup have in common.
Peek(a) ==
  /\ Quiet(a) /\ Others(a) /\ Apart(a) /\ Hand(a) = {} /\ ~proc[a].reset /\ ~proc'[a].reset
  /\ proc'[a].pc \in Looking \cup {"idle"} /\ proc[a].pc \in Looking \cup {"idle"}
  /\ Hand(a)' = {} /\ List(a)' = List(a) /\ Stock(a)' = Stock(a) /\ List(a) = spans[a]
  /\ Standing(a)' = Standing(a) /\ Marked(a)' = Marked(a)

LEMMA Peeks ==
  ASSUME Types, Custody, Lookups, NEW a \in Arenas,
         \/ \E p \in Addresses, keep \in BOOLEAN : Lookup(a, p, keep)
         \/ LoadIndex(a) \/ LoadSpan(a) \/ LoadUnit(a) \/ MissAgain(a)
         \/ CheckDescriptor(a) \/ Answer(a)
  PROVE  Peek(a)
<1>1. proc[a].pc \in Looking \cup {"idle"}
  BY DEF Lookup, LoadIndex, LoadSpan, LoadUnit, MissAgain, CheckDescriptor, Answer, At, Looking
<1>2. Hand(a) = {} /\ ~proc[a].reset
  <2>1. CASE proc[a].pc \in Looking
    BY <2>1, WhenLooking
  <2>2. CASE proc[a].pc = "idle"
    BY <2>2, WhenIdle DEF At
  <2> QED
    BY <1>1, <2>1, <2>2
<1>3. Quiet(a) /\ Others(a) /\ ~proc'[a].reset /\ proc'[a].pc \in Looking \cup {"idle"}
  <2>1. ASSUME NEW pc \in Looking, NEW d, NEW p, NEW t, NEW i, NEW k, Looks(a, pc, d, p, t, i, k)
        PROVE  Others(a) /\ ~proc'[a].reset /\ proc'[a].pc \in Looking
    BY <1>2, <2>1 DEF Looks
  <2>2. {"load", "slot", "unit", "check", "again", "answer"} \subseteq Looking
    BY DEF Looking
  <2>3. ASSUME NEW p \in Addresses, NEW keep \in BOOLEAN, Lookup(a, p, keep)
        PROVE  Quiet(a) /\ Others(a) /\ ~proc'[a].reset /\ proc'[a].pc \in Looking
    BY <2>1, <2>2, <2>3, FxLookup
  <2>4. CASE LoadIndex(a)
    BY <2>1, <2>2, <2>4, FxLoadIndex
  <2>5. CASE LoadSpan(a)
    BY <2>1, <2>2, <2>5, FxLoadSpan
  <2>6. CASE LoadUnit(a)
    BY <2>1, <2>2, <2>6, FxLoadUnit
  <2>7. CASE MissAgain(a)
    BY <2>1, <2>2, <2>7, FxMissAgain
  <2>8. CASE CheckDescriptor(a)
    BY <2>1, <2>2, <2>8, FxCheck
  <2>9. CASE Answer(a)
    BY <2>9, FxAnswer DEF Idle
  <2> QED
    BY <2>3, <2>4, <2>5, <2>6, <2>7, <2>8, <2>9
<1>4. spans' = spans
  BY <1>3 DEF Quiet
<1>5. proc[a].pc \notin Busy /\ proc'[a].pc \notin Busy /\ proc[a].pc \notin AtSpan /\ proc[a].pc \notin AtMark
      /\ proc'[a].pc \notin AtSpan /\ proc'[a].pc \notin AtMark
  BY <1>1, <1>3 DEF Looking, Busy, AtSpan, AtMark
<1>6. List(a)' = List(a) /\ List(a) = spans[a] /\ Hand(a)' = {} /\ Apart(a)
  BY <1>2, <1>3, <1>4, <1>5, ApartFrom DEF List, Hand
<1>7. Stock(a)' = Stock(a)
  BY <1>6 DEF Stock
<1>8. Standing(a)' = Standing(a) /\ Marked(a)' = Marked(a)
  BY <1>5, <1>7 DEF Standing, Marked, AtSpan, AtMark
<1> QED
  BY <1>1, <1>2, <1>3, <1>6, <1>7, <1>8 DEF Peek

LEMMA MappingsPeek ==
  ASSUME Mappings, NEW a \in Arenas, Peek(a)
  PROVE  Mappings'
<1>1. desc' = desc /\ mapped' = mapped /\ Apart(a) /\ Standing(a)' = Standing(a) /\ Marked(a)' = Marked(a)
  BY DEF Peek, Quiet
<1>2. proc'[a].pc \notin {"map", "register", "add", "span", "undo", "del"}
  BY DEF Peek, Looking
<1>3. Phase(a)'
  BY <1>2, PhaseNone
<1> QED
  BY <1>1, <1>3, MappingsSame

-------------------------------------------------------------------------------
(***************************************************************************)
(* The table and its counters: steps that leave them alone.                *)
(***************************************************************************)
LEMMA DueKept ==
  ASSUME NEW a \in Arenas, Apart(a), DescKept(a), NEW b \in Arenas \ {a}, NEW u, NEW d
  PROVE  Due(b, u, d)' <=> Due(b, u, d)
<1>1. Stock(b)' = Stock(b) /\ Hand(b)' = Hand(b) /\ proc'[b] = proc[b]
  BY OthersKeep DEF Apart
<1>2. \A e \in Has(b) : desc'[e] = desc[e] /\ UnitsOf(e)' = UnitsOf(e)
  BY DEF DescKept, UnitsOf
<1>3. d \in Hand(b) => Filing(b)' = Filing(b)
  <2> SUFFICES ASSUME d \in Hand(b) PROVE Filing(b)' = Filing(b)
    OBVIOUS
  <2>1. d = proc[b].d /\ d \in Has(b)
    BY DEF Hand, Has
  <2>2. desc'[proc[b].d] = desc[proc[b].d] /\ UnitsOf(proc[b].d)' = UnitsOf(proc[b].d)
    BY <1>1, <1>2, <2>1 DEF UnitsOf
  <2> QED
    BY <1>1, <2>2 DEF Filing
<1>4. d \in Stock(b) => UnitsOf(d)' = UnitsOf(d)
  BY <1>2 DEF Has
<1> QED
  BY <1>1, <1>3, <1>4 DEF Due

LEMMA ExactKept ==
  ASSUME Exact, NEW a \in Arenas, Apart(a), DescKept(a),
         \A u \in Nat, d \in Nat \ {0} : Entered(g_index', u, d) <=> Entered(g_index, u, d),
         \A u \in Nat, d \in Nat \ {0} : Due(a, u, d)' <=> Due(a, u, d)
  PROVE  Exact'
<1> SUFFICES ASSUME NEW u \in Nat, NEW d \in Nat \ {0}
             PROVE  Entered(g_index', u, d) <=> \E b \in Arenas : Due(b, u, d)'
  BY DEF Exact
<1>1. \A b \in Arenas : Due(b, u, d)' <=> Due(b, u, d)
  BY DueKept
<1>2. Entered(g_index, u, d) <=> \E b \in Arenas : Due(b, u, d)
  BY DEF Exact
<1> QED
  BY <1>1, <1>2

LEMMA IndexSame ==
  ASSUME Index, NEW a \in Arenas, Apart(a), DescKept(a), UNCHANGED indexVars, proc'[a].pc # "span",
         \A u \in Nat, d \in Nat \ {0} : Due(a, u, d)' <=> Due(a, u, d)
  PROVE  Index'
<1>1. g_index' = g_index /\ used' = used /\ live' = live
  BY DEF indexVars, g_index
<1>2. Exact'
  BY <1>1, ExactKept DEF Index
<1>3. Counted'
  <2>1. \A b \in Arenas : proc'[b].pc = "span" => proc[b].pc = "span"
    BY DEF Apart
  <2>2. Crowded' <=> Crowded
    BY <1>1 DEF Crowded
  <2>3. used' = Cardinality(Cells(g_index')) /\ live' = Cardinality(Files(g_index')) /\ 2 * used' < g_index'.cap
    BY <1>1 DEF Index, Counted
  <2>4. \A b \in Arenas : proc'[b].pc = "span" => ~Crowded'
    BY <2>1, <2>2 DEF Index, Counted
  <2> QED
    BY <2>3, <2>4 DEF Counted
<1>4. Chained(g_index)' /\ Single(g_index)'
  BY <1>1 DEF Index
<1> QED
  BY <1>2, <1>3, <1>4 DEF Index

\* What is due is: the same for what is put away, the same for what is at hand.
LEMMA DueSame ==
  ASSUME NEW a \in Arenas, Stock(a)' \ Hand(a)' = Stock(a) \ Hand(a),
         \A d \in Stock(a) \ Hand(a) : UnitsOf(d)' = UnitsOf(d),
         \A u, d : d \in Hand(a)' /\ u \in Filing(a)' <=> d \in Hand(a) /\ u \in Filing(a)
  PROVE  \A u, d : Due(a, u, d)' <=> Due(a, u, d)
<1> SUFFICES ASSUME NEW u, NEW d PROVE Due(a, u, d)' <=> Due(a, u, d)
  OBVIOUS
<1>1. d \in Hand(a)' /\ u \in Filing(a)' <=> d \in Hand(a) /\ u \in Filing(a)
  OBVIOUS
<1>2. d \in Stock(a)' \ Hand(a)' /\ u \in UnitsOf(d)' <=> d \in Stock(a) \ Hand(a) /\ u \in UnitsOf(d)
  OBVIOUS
<1>3. Due(a, u, d)' <=> (d \in Stock(a)' \ Hand(a)' /\ u \in UnitsOf(d)') \/ (d \in Hand(a)' /\ u \in Filing(a)')
  BY DEF Due
<1> QED
  BY <1>1, <1>2, <1>3 DEF Due

\* An operation with a descriptor in hand goes on with it, and what it has filed
\* stays the same.
LEMMA IndexOn ==
  ASSUME Types, Custody, Index, NEW a \in Arenas, proc[a].pc \in Busy,
         NEW pc \in Busy \ {"span"}, NEW n, NEW u, NEW end, After(a, pc, proc[a].d, n, u, end),
         Apart(a), DescKept(a), UNCHANGED indexVars, Stock(a)' \ {proc[a].d} = Stock(a) \ {proc[a].d},
         \A d \in Stock(a) \ {proc[a].d} : desc'[d] = desc[d],
         Filing(a)' = Filing(a)
  PROVE  Index'
<1>1. Hand(a) = {proc[a].d} /\ proc'[a].pc = pc /\ proc'[a].d = proc[a].d
  BY WhenBusy DEF After
<1>2. Hand(a)' = {proc[a].d}
  BY <1>1 DEF Hand
<1>3. \A d \in Stock(a) \ Hand(a) : UnitsOf(d)' = UnitsOf(d)
  BY <1>1 DEF UnitsOf
<1>4. \A v, d : Due(a, v, d)' <=> Due(a, v, d)
  BY <1>1, <1>2, <1>3, DueSame
<1>5. proc'[a].pc # "span"
  BY <1>1
<1> QED
  BY <1>4, <1>5, IndexSame

LEMMA IndexAlloc ==
  ASSUME Types, Custody, Index, NEW a \in Arenas, NEW n \in 1 .. 2, SpanDescAlloc(a, n)
  PROVE  Index'
<1>1. PICK d \in Nat \ {0} :
           /\ After(a, "map", d, n, proc[a].u, proc[a].end)
           /\ \A e \in DOMAIN desc : e # d => desc'[e] = desc[e]
           /\ d \in Range(pool) \/ d \notin DOMAIN desc
  BY FxAlloc
<1>2. At(a, "idle") /\ spans' = spans /\ UNCHANGED indexVars
  BY DEF SpanDescAlloc, arenaVars
<1>3. Hand(a) = {}
  BY <1>2, WhenIdle
<1>4. Stock(a)' = Stock(a) /\ Apart(a) /\ Hand(a)' = {d}
  BY <1>1, <1>2, AfterList DEF Busy
<1>5. ASSUME NEW b \in Arenas, NEW e \in Has(b) PROVE e # d /\ desc'[e] = desc[e]
  <2>1. Handles(b)
    BY OwnedIs DEF Custody
  <2>2. e \in DOMAIN desc /\ e # d
    BY <1>1, <2>1 DEF Handles
  <2> QED
    BY <1>1, <2>2
<1>6. DescKept(a) /\ d \notin Stock(a)
  BY <1>5 DEF DescKept, Has
<1>7. \A e \in Stock(a) : UnitsOf(e)' = UnitsOf(e)
  BY <1>5 DEF Has, UnitsOf
<1>8. proc'[a].pc = "map"
  BY <1>1 DEF After
<1>9. Filing(a)' = {}
  BY <1>8 DEF Filing
<1>10. \A v, e : Due(a, v, e)' <=> Due(a, v, e)
  BY <1>3, <1>4, <1>6, <1>7, <1>9, DueSame
<1> QED
  BY <1>2, <1>4, <1>6, <1>8, <1>10, IndexSame

LEMMA EmptyFiling ==
  ASSUME NEW a \in Arenas, proc[a].pc \notin {"add", "span", "undo", "del", "unregister"}
  PROVE  Filing(a) = {}
  BY DEF Filing

\* A span of the list is taken in hand, with all its units in the table.
LEMMA IndexTakes ==
  ASSUME Types, Index, NEW a \in Arenas, Hand(a) \cap Stock(a) = {}, Hand(a) = {} \/ Filing(a) = {},
         Apart(a), UNCHANGED indexVars, desc' = desc, NEW d \in Stock(a),
         proc'[a].pc = "unregister", proc'[a].d = d, Stock(a)' \cup {d} = Stock(a)
  PROVE  Index'
<1>1. Hand(a)' = {d} /\ UnitsOf(d)' = UnitsOf(d)
  BY DEF Hand, Busy, UnitsOf
<1>2. Filing(a)' = UnitsOf(d)
  BY <1>1 DEF Filing, UnitsOf
<1>3. DescKept(a)
  BY DEF DescKept
<1>4. ASSUME NEW v, NEW e PROVE Due(a, v, e)' <=> Due(a, v, e)
  <2>1. UnitsOf(e)' = UnitsOf(e)
    BY DEF UnitsOf
  <2>2. Due(a, v, e) <=> e \in Stock(a) /\ v \in UnitsOf(e)
    BY DEF Due
  <2>3. Due(a, v, e)' <=> (e \in Stock(a)' \ {d} /\ v \in UnitsOf(e)) \/ (e = d /\ v \in UnitsOf(d))
    BY <1>1, <1>2, <2>1 DEF Due
  <2> QED
    BY <2>2, <2>3
<1> QED
  BY <1>3, <1>4, IndexSame

LEMMA IndexRegisterStays ==
  ASSUME IInv, NEW a \in Arenas, MapChunk(a) \/ RegisterBegin(a) \/ IndexRehashFails(a)
  PROVE  Index'
<1>0. Types /\ Custody /\ Mappings /\ Index /\ ProcFields(proc[a]) /\ Handles(a) /\ Labels
  BY TypesOf, OwnedIs, LabelsHold DEF IInv, Custody
<1> USE <1>0
<1>d. PICK d : d = proc[a].d
  OBVIOUS
<1>1. CASE MapChunk(a)
  <2>1. spans' = spans /\ proc[a].pc = "map" /\ UNCHANGED indexVars
    BY <1>1 DEF MapChunk, arenaVars, At
  <2>2. Filing(a) = {} /\ d \in Has(a) /\ proc[a].pc \in Busy
    BY <1>d, <2>1, EmptyFiling, WhenBusy DEF Labels, Has
  <2>3. PICK pc \in {"register", "recycle"} :
          After(a, pc, d, proc[a].n, proc[a].u, proc[a].end) /\ (DescOnly(d) \/ desc' = desc)
    BY <1>1, <1>d, FxMap DEF MapGives
  <2>4. Apart(a) /\ Stock(a)' = Stock(a) /\ proc'[a].pc = pc
    BY <2>1, <2>3, AfterList DEF After
  <2>5. Filing(a)' = {}
    BY <2>4 DEF Filing
  <2>6. DescKept(a)
    BY <2>2, <2>3, DescKeptBy DEF DescKept
  <2>7. \A e \in Stock(a) \ {d} : desc'[e] = desc[e]
    BY <2>3 DEF DescOnly, Handles, Has
  <2>8. pc \in Busy \ {"span"}
    BY DEF Busy
  <2> QED
    BY <1>d, <2>1, <2>2, <2>3, <2>4, <2>5, <2>6, <2>7, <2>8, IndexOn
<1>2. CASE RegisterBegin(a)
  <2>1. spans' = spans /\ desc' = desc /\ proc[a].pc = "register" /\ UNCHANGED indexVars
    BY <1>2 DEF RegisterBegin, arenaVars, At
  <2>2. PICK end : After(a, "add", d, proc[a].n, desc[d].base, end)
    BY <1>2, <1>d, FxRegister
  <2>3. Filing(a) = {} /\ proc[a].pc \in Busy /\ desc[d].base \in Nat
    BY <1>d, <2>1, EmptyFiling, WhenBusy DEF Labels, DescFields
  <2>4. Apart(a) /\ Stock(a)' = Stock(a)
    BY <2>1, <2>2, AfterList
  <2>5. proc'[a].pc = "add" /\ proc'[a].d = d /\ proc'[a].u = desc[d].base
    BY <2>2 DEF After
  <2>6. Filing(a)' = {}
    <3>1. Filing(a)' = desc[d].base .. desc[d].base - 1
      BY <2>1, <2>5 DEF Filing
    <3> QED
      BY <2>3, <3>1
  <2>7. DescKept(a) /\ \A e \in Stock(a) \ {d} : desc'[e] = desc[e]
    BY <2>1 DEF DescKept
  <2>8. "add" \in Busy \ {"span"}
    BY DEF Busy
  <2> QED
    BY <1>d, <2>1, <2>2, <2>3, <2>4, <2>6, <2>7, <2>8, IndexOn
<1>3. CASE IndexRehashFails(a)
  <2>1. spans' = spans /\ desc' = desc /\ proc[a].pc = "add" /\ UNCHANGED indexVars
    BY <1>3 DEF IndexRehashFails, arenaVars, At
  <2>2. Filing(a) = desc[d].base .. proc[a].u - 1 /\ proc[a].pc \in Busy /\ desc[d].base \in Nat /\ proc[a].u \in Nat
    BY <1>d, <2>1, WhenBusy DEF Labels, DescFields, Filing, ProcFields
  <2>3. DescKept(a) /\ \A e \in Stock(a) \ {d} : desc'[e] = desc[e]
    BY <2>1 DEF DescKept
  <2>4. CASE proc[a].u = desc[d].base /\ After(a, "unmap", d, proc[a].n, proc[a].u, proc[a].end)
    <3>1. Filing(a) = {}
      BY <2>2, <2>4
    <3>2. Apart(a) /\ Stock(a)' = Stock(a) /\ proc'[a].pc = "unmap"
      BY <2>1, <2>4, AfterList DEF After
    <3>3. Filing(a)' = {}
      BY <3>2 DEF Filing
    <3>4. "unmap" \in Busy \ {"span"}
      BY DEF Busy
    <3> QED
      BY <1>d, <2>1, <2>2, <2>3, <2>4, <3>1, <3>2, <3>3, <3>4, IndexOn
  <2>5. CASE After(a, "undo", d, proc[a].n, desc[d].base, proc[a].u - 1)
    <3>1. PICK e : e = proc[a].u - 1
      OBVIOUS
    <3>2. After(a, "undo", d, proc[a].n, desc[d].base, e)
      BY <2>5, <3>1
    <3>3. Apart(a) /\ Stock(a)' = Stock(a)
      BY <2>1, <3>2, AfterList
    <3>4. proc'[a].pc = "undo" /\ proc'[a].u = desc[d].base /\ proc'[a].end = e
      BY <3>2 DEF After
    <3>5. Filing(a)' = Filing(a)
      BY <2>2, <3>1, <3>4 DEF Filing
    <3>6. "undo" \in Busy \ {"span"}
      BY DEF Busy
    <3> QED
      BY <1>d, <2>1, <2>2, <2>3, <3>2, <3>3, <3>5, <3>6, IndexOn
  <2> QED
    BY <1>3, <1>d, <2>4, <2>5, FxFails
<1> QED
  BY <1>1, <1>2, <1>3

LEMMA IndexReleaseStays ==
  ASSUME IInv, NEW a \in Arenas,
         \/ \E d \in DOMAIN desc : ReleaseSpan(a, d)
         \/ ArenaReset(a) \/ UnregisterBegin(a) \/ Disown(a) \/ Unmap(a) \/ SpanDescFree(a)
  PROVE  Index'
<1>0. Types /\ Custody /\ Mappings /\ Index /\ ProcFields(proc[a]) /\ Handles(a) /\ Labels
  BY TypesOf, OwnedIs, LabelsHold DEF IInv, Custody
<1> USE <1>0
<1>d. PICK d : d = proc[a].d
  OBVIOUS
<1>next. ASSUME NEW s \in Seq(Nat), s # <<>>, AfterNext(a, Head(s), Tail(s)), Stock(a) = Range(s),
                spans' = spans, desc' = desc, UNCHANGED indexVars,
                Hand(a) \cap Stock(a) = {}, Hand(a) = {} \/ Filing(a) = {}
         PROVE  Index'
  <2>1. proc'[a].pc = "unregister" /\ proc'[a].d = Head(s) /\ proc'[a].todo = Tail(s) /\ proc'[a].reset /\ Others(a)
    BY <1>next DEF AfterNext
  <2>2. Range(s) = Range(Tail(s)) \cup {Head(s)}
    BY <1>next, PopList
  <2>3. Stock(a)' = Range(Tail(s))
    BY <2>1 DEF Stock, List
  <2>4. PICK h : h = Head(s)
    OBVIOUS
  <2>5. Apart(a) /\ h \in Stock(a) /\ Stock(a)' \cup {h} = Stock(a) /\ proc'[a].d = h
    BY <1>next, <2>1, <2>2, <2>3, <2>4, ApartFrom
  <2> QED
    BY <1>next, <2>1, <2>5, IndexTakes
<1>1. ASSUME NEW e \in DOMAIN desc, ReleaseSpan(a, e) PROVE Index'
  <2>1. desc' = desc /\ spans' = spans /\ UNCHANGED indexVars /\ At(a, "idle") /\ e \in Range(spans[a])
    BY <1>1 DEF ReleaseSpan, arenaVars
  <2>2. After(a, "unregister", e, proc[a].n, proc[a].u, proc[a].end)
    BY <1>1, FxRelease
  <2>3. e \in Stock(a) /\ Hand(a) = {}
    BY <2>1, WhenIdle
  <2>4. Stock(a)' = Stock(a) /\ Apart(a) /\ proc'[a].pc = "unregister" /\ proc'[a].d = e
    BY <2>1, <2>2, AfterList DEF After
  <2> QED
    BY <2>1, <2>3, <2>4, IndexTakes
<1>2. CASE ArenaReset(a)
  <2> DEFINE s == spans[a]
  <2>1. desc' = desc /\ spans' = spans /\ UNCHANGED indexVars /\ At(a, "idle") /\ s # <<>>
    BY <1>2 DEF ArenaReset, arenaVars
  <2>2. AfterNext(a, Head(s), Tail(s))
    BY <1>2, FxReset
  <2>3. s \in Seq(Nat) /\ Stock(a) = Range(s) /\ Hand(a) = {}
    BY <2>1, WhenIdle, TypesOf
  <2> HIDE DEF s
  <2> QED
    BY <1>next, <2>1, <2>2, <2>3
<1>3. CASE UnregisterBegin(a)
  <2>1. spans' = spans /\ desc' = desc /\ proc[a].pc = "unregister" /\ UNCHANGED indexVars
    BY <1>3 DEF UnregisterBegin, At
  <2>2. PICK e : e = desc[d].base + desc[d].size - 1
    OBVIOUS
  <2>3. After(a, "del", d, proc[a].n, desc[d].base, e)
    BY <1>3, <1>d, <2>2, FxUnregister
  <2>4. Filing(a) = desc[d].base .. e /\ proc[a].pc \in Busy
    BY <1>d, <2>1, <2>2 DEF Labels, Filing, UnitsOf
  <2>5. Apart(a) /\ Stock(a)' = Stock(a)
    BY <2>1, <2>3, AfterList
  <2>6. proc'[a].pc = "del" /\ proc'[a].u = desc[d].base /\ proc'[a].end = e
    BY <2>3 DEF After
  <2>7. Filing(a)' = Filing(a)
    BY <2>4, <2>6 DEF Filing
  <2>8. DescKept(a) /\ \A x \in Stock(a) \ {d} : desc'[x] = desc[x]
    BY <2>1 DEF DescKept
  <2>9. "del" \in Busy \ {"span"}
    BY DEF Busy
  <2> QED
    BY <1>d, <2>1, <2>3, <2>4, <2>5, <2>7, <2>8, <2>9, IndexOn
<1>4. CASE Disown(a)
  <2>1. proc[a].pc = "disown" /\ UNCHANGED indexVars
    BY <1>4 DEF Disown, At
  <2>2. Disowned(a)
    BY <1>4, FxDisown
  <2>3. After(a, "unmap", d, proc[a].n, proc[a].u, proc[a].end) /\ DescOnly(d)
    BY <1>d, <2>2 DEF Disowned
  <2>4. proc'[a].pc = "unmap" /\ (proc'[a].reset <=> proc[a].reset)
        /\ proc'[a].todo = proc[a].todo /\ Others(a)
    BY <2>3 DEF After
  <2>5. Apart(a)
    BY <2>2, <2>4, ApartFrom DEF Disowned
  <2>6. d \in Has(a) /\ proc[a].pc \in Busy
    BY <1>d, <2>1, WhenBusy DEF Has, Labels
  <2>7. Stock(a)' \ {d} = Stock(a) \ {d}
    <3>1. CASE proc[a].reset
      <4>1. List(a)' = List(a)
        BY <2>4, <3>1 DEF List
      <4> QED
        BY <4>1 DEF Stock
    <3>2. CASE ~proc[a].reset
      <4>1. List(a)' = spans'[a] /\ List(a) = spans[a]
        BY <2>4, <3>2 DEF List
      <4>2. Range(spans'[a]) = Range(spans[a]) \ {d}
        BY <1>d, <2>2, <3>2 DEF Disowned
      <4> QED
        BY <4>1, <4>2 DEF Stock
    <3> QED
      BY <3>1, <3>2
  <2>8. Filing(a)' = Filing(a)
    BY <2>1, <2>4 DEF Filing
  <2>9. DescKept(a)
    BY <2>3, <2>6, DescKeptBy
  <2>10. \A e \in Stock(a) \ {d} : desc'[e] = desc[e]
    BY <2>3 DEF DescOnly, Handles, Has
  <2>11. "unmap" \in Busy \ {"span"}
    BY DEF Busy
  <2> QED
    BY <1>d, <2>1, <2>3, <2>5, <2>6, <2>7, <2>8, <2>9, <2>10, <2>11, IndexOn
<1>5. CASE Unmap(a)
  <2>1. desc' = desc /\ spans' = spans /\ proc[a].pc = "unmap" /\ UNCHANGED indexVars
    BY <1>5 DEF Unmap, arenaVars, At
  <2>2. After(a, "recycle", d, proc[a].n, proc[a].u, proc[a].end)
    BY <1>5, <1>d, FxUnmap
  <2>3. Apart(a) /\ Stock(a)' = Stock(a) /\ proc'[a].pc = "recycle"
    BY <2>1, <2>2, AfterList DEF After
  <2>4. Filing(a)' = Filing(a)
    BY <2>1, <2>3 DEF Filing
  <2>5. DescKept(a) /\ \A x \in Stock(a) \ {d} : desc'[x] = desc[x]
    BY <2>1 DEF DescKept
  <2>6. "recycle" \in Busy \ {"span"} /\ proc[a].pc \in Busy
    BY <2>1 DEF Busy
  <2> QED
    BY <1>d, <2>1, <2>2, <2>3, <2>4, <2>5, <2>6, IndexOn
<1>6. CASE SpanDescFree(a)
  <2>1. desc' = desc /\ proc[a].pc = "recycle" /\ UNCHANGED indexVars
    BY <1>6 DEF SpanDescFree, At
  <2>2. Filing(a) = {} /\ Hand(a) \cap Stock(a) = {}
    BY <2>1, EmptyFiling DEF Handles, Listed
  <2>3. CASE /\ proc[a].todo # <<>> /\ proc[a].reset /\ spans' = spans
             /\ AfterNext(a, Head(proc[a].todo), Tail(proc[a].todo))
    <3> DEFINE s == proc[a].todo
    <3>1. s \in Seq(Nat) /\ s # <<>> /\ Stock(a) = Range(s) /\ AfterNext(a, Head(s), Tail(s))
      BY <2>3 DEF List, Stock, ProcFields
    <3> HIDE DEF s
    <3> QED
      BY <1>next, <2>1, <2>2, <2>3, <3>1
  <2>4. CASE Freed(a)
    <3>1. Others(a) /\ proc'[a] = Idle /\ spans'[a] = List(a) /\ \A b \in Arenas \ {a} : spans'[b] = spans[b]
      BY <2>4 DEF Freed
    <3>2. proc'[a].pc = "idle" /\ ~proc'[a].reset
      BY <3>1 DEF Idle
    <3>3. List(a)' = List(a) /\ Apart(a) /\ Hand(a)' = {} /\ Filing(a)' = {}
      BY <3>1, <3>2, ApartFrom DEF List, Hand, Busy, Filing
    <3>4. Stock(a)' = Stock(a)
      BY <3>3 DEF Stock
    <3>5. \A x : UnitsOf(x)' = UnitsOf(x)
      BY <2>1 DEF UnitsOf
    <3>6. \A v, e : Due(a, v, e)' <=> Due(a, v, e)
      BY <2>2, <3>3, <3>4, <3>5, DueSame
    <3>7. DescKept(a)
      BY <2>1 DEF DescKept
    <3> QED
      BY <2>1, <3>2, <3>3, <3>6, <3>7, IndexSame
  <2> QED
    BY <1>6, <2>3, <2>4, FxFree
<1> QED
  BY <1>1, <1>2, <1>3, <1>4, <1>5, <1>6

LEMMA IndexPeek ==
  ASSUME Index, NEW a \in Arenas, Peek(a)
  PROVE  Index'
<1>1. desc' = desc /\ UNCHANGED indexVars /\ Apart(a) /\ Hand(a) = {} /\ Hand(a)' = {} /\ Stock(a)' = Stock(a)
  BY DEF Peek, Quiet, indexVars
<1>2. proc'[a].pc # "span"
  BY DEF Peek, Looking
<1>3. DescKept(a) /\ \A x : UnitsOf(x)' = UnitsOf(x)
  BY <1>1 DEF DescKept, UnitsOf
<1>4. \A v, e : Due(a, v, e)' <=> Due(a, v, e)
  BY <1>1, <1>3, DueSame
<1> QED
  BY <1>1, <1>2, <1>3, <1>4, IndexSame

-------------------------------------------------------------------------------
(***************************************************************************)
(* The table and its counters: steps that change them.                     *)
(***************************************************************************)
LEMMA CountedStep ==
  ASSUME Custody, NEW a \in Arenas, Others(a), lock = a,
         used' = Cardinality(Cells(g_index')), live' = Cardinality(Files(g_index')),
         2 * used' < g_index'.cap, proc'[a].pc = "span" => ~Crowded'
  PROVE  Counted'
<1>1. ASSUME NEW b \in Arenas, proc'[b].pc = "span" PROVE ~Crowded'
  <2>1. CASE b = a
    BY <1>1, <2>1
  <2>2. CASE b # a
    <3>1. proc'[b] = proc[b] /\ ProcShape(b)
      BY <2>2 DEF Others, Custody
    <3> QED
      BY <1>1, <2>2, <3>1 DEF ProcShape
  <2> QED
    BY <2>1, <2>2
<1> QED
  BY <1>1 DEF Counted

LEMMA IndexRehashKeeps ==
  ASSUME Types, Custody, Mappings, Index, NEW a \in Arenas, IndexRehash(a)
  PROVE  Index'
<1>1. desc' = desc /\ spans' = spans /\ proc' = proc /\ proc[a].pc = "add"
  BY DEF IndexRehash, arenaVars, At
<1>2. PICK new : TxRehash(new)
  BY Rehashes
<1>3. /\ g_index' = new /\ Rebuilt(g_index, new) /\ new.cap >= 4 * (live + 1) /\ used' = live /\ live' = live
  BY <1>2 DEF TxRehash
<1>4. /\ new \in TableType /\ Chained(new) /\ Single(new) /\ Cells(new) = Files(new)
      /\ Cardinality(Files(new)) = Cardinality(Files(g_index))
      /\ \A v \in Nat, e \in Nat \ {0} : Entered(new, v, e) <=> Entered(g_index, v, e)
  BY <1>3 DEF Rebuilt
<1>5. Apart(a) /\ DescKept(a) /\ Others(a) /\ lock = a
  BY <1>1 DEF Apart, DescKept, Others, Custody, ProcShape
<1>6. ASSUME NEW u, NEW d PROVE Due(a, u, d)' <=> Due(a, u, d)
  BY <1>1 DEF Due, Stock, Hand, List, UnitsOf, Filing
<1>7. Exact'
  BY <1>3, <1>4, <1>5, <1>6, ExactKept DEF Index
<1>8. Counted'
  <2>1. live = Cardinality(Files(g_index)) /\ live \in Nat
    BY DEF Index, Counted, Types
  <2>2. new.cap \in Nat
    BY <1>4, TableFields
  <2>3. 2 * live < new.cap
    BY <1>3, <2>1, <2>2
  <2>4. used' = Cardinality(Cells(g_index')) /\ live' = Cardinality(Files(g_index')) /\ 2 * used' < g_index'.cap
    BY <1>3, <1>4, <2>1, <2>3
  <2> QED
    BY <1>1, <1>5, <2>4, CountedStep
<1> QED
  BY <1>3, <1>4, <1>7, <1>8 DEF Index

LEMMA IndexPutUnit ==
  ASSUME Types, Custody, Mappings, Index, NEW a \in Arenas, PutUnit(a)
  PROVE  Index'
<1>d. PICK d : d = proc[a].d
  OBVIOUS
<1>1. desc' = desc /\ spans' = spans /\ proc[a].pc = "add" /\ used' = used /\ live' = live
  BY DEF PutUnit, arenaVars, At
<1>c. ~Crowded
  BY DEF PutUnit
<1>2. PICK new, s : TxPutUnit(a, new, s)
  BY PutsUnit
<1>3. g_index' = new /\ Prepared(g_index, new, s, proc[a].u)
  BY <1>2 DEF TxPutUnit, Replaced
<1>4. /\ new.cap = g_index.cap /\ Chained(new) /\ Single(new)
      /\ Cells(new) = Cells(g_index) /\ Files(new) = Files(g_index)
      /\ \A v \in Nat, e \in Nat \ {0} : Entered(new, v, e) <=> Entered(g_index, v, e)
  BY <1>3 DEF Prepared
<1>5. After(a, "span", d, proc[a].n, proc[a].u, proc[a].end)
  BY <1>d, FxPutUnit
<1>6. /\ Apart(a) /\ Others(a) /\ Stock(a)' = Stock(a) /\ Hand(a)' = {d}
  BY <1>1, <1>5, AfterList DEF Busy
<1>7. DescKept(a) /\ lock = a /\ Hand(a) = {d}
  BY <1>d, <1>1, WhenBusy DEF DescKept, Custody, ProcShape, Busy
<1>8. proc'[a].pc = "span" /\ proc'[a].u = proc[a].u /\ proc'[a].d = d
  BY <1>5 DEF After
<1>9. Filing(a)' = Filing(a)
  BY <1>d, <1>1, <1>8 DEF Filing
<1>10. \A x : UnitsOf(x)' = UnitsOf(x)
  BY <1>1 DEF UnitsOf
<1>11. \A v, e : Due(a, v, e)' <=> Due(a, v, e)
  BY <1>6, <1>7, <1>9, <1>10, DueSame
<1>12. Exact'
  BY <1>3, <1>4, <1>6, <1>7, <1>11, ExactKept DEF Index
<1>13. Counted'
  <2>1. used' = Cardinality(Cells(g_index')) /\ live' = Cardinality(Files(g_index')) /\ 2 * used' < g_index'.cap
    BY <1>1, <1>3, <1>4 DEF Index, Counted
  <2>2. ~Crowded'
    BY <1>c, <1>1, <1>3, <1>4 DEF Crowded
  <2> QED
    BY <1>6, <1>7, <2>1, <2>2, CountedStep
<1> QED
  BY <1>3, <1>4, <1>12, <1>13 DEF Index

LEMMA IndexPutSpan ==
  ASSUME Types, Custody, Mappings, Index, NEW a \in Arenas, PutSpan(a)
  PROVE  Index'
<1>d. PICK d, u : d = proc[a].d /\ u = proc[a].u
  OBVIOUS
<1>1. desc' = desc /\ proc[a].pc = "span" /\ used' = used + 1 /\ live' = live + 1
  BY DEF PutSpan, At
<1>2. PICK new, s : TxPutSpan(a, new, s)
  BY PutsSpan
<1>3. g_index' = new /\ EntryMade(g_index, new, s, u, d) /\ EntryAt(g_index, new, s, u, d)
  BY <1>d, <1>2 DEF TxPutSpan, Replaced
<1>4. /\ new.cap = g_index.cap /\ Chained(new) /\ Single(new) /\ s \notin Cells(g_index)
      /\ Cells(new) = Cells(g_index) \cup {s} /\ Files(new) = Files(g_index) \cup {s}
      /\ \A v \in Nat, e \in Nat : Entered(new, v, e) <=> (Entered(g_index, v, e) \/ (v = u /\ e = d))
  BY <1>3 DEF EntryMade, EntryAt
<1>5. lock = a /\ Hand(a) = {d} /\ d \in Nat \ {0} /\ DescKept(a) /\ Handles(a)
  BY <1>d, <1>1, WhenBusy, OwnedIs DEF DescKept, Custody, ProcShape, Busy
<1>6. u \in Nat /\ proc[a].end \in Nat /\ u <= proc[a].end
  BY <1>d, <1>1, AtUnit
<1>7. desc[d].base \in Nat /\ desc[d].size \in Nat /\ Phase(a)
  BY <1>d, <1>1, AtHand DEF AtSpan, Busy
<1>8. desc[d].base <= u /\ proc[a].end = desc[d].base + desc[d].size - 1
  BY <1>d, <1>1, <1>7 DEF Phase
<1>9. Filing(a) = desc[d].base .. u - 1
  BY <1>d, <1>1 DEF Filing
<1>10. \A x : UnitsOf(x)' = UnitsOf(x)
  BY <1>1 DEF UnitsOf
<1>11. d \notin Stock(a)
  BY <1>1, <1>5 DEF Handles, Listed
<1>12. /\ Others(a) /\ Apart(a) /\ proc'[a].pc # "span"
       /\ \A v, e : Due(a, v, e)' <=> (Due(a, v, e) \/ (v = u /\ e = d))
  <2>1. CASE /\ spans' = spans
             /\ After(a, "add", proc[a].d, proc[a].n, proc[a].u + 1, proc[a].end)
    <3>0. After(a, "add", d, proc[a].n, u + 1, proc[a].end)
      BY <2>1, <1>d
    <3>1. Others(a) /\ Apart(a) /\ Stock(a)' = Stock(a) /\ Hand(a)' = {d}
      BY <2>1, <1>d, AfterList DEF Busy
    <3>2. proc'[a].pc = "add" /\ proc'[a].d = d /\ proc'[a].u = u + 1
      BY <3>0 DEF After
    <3>3. Filing(a)' = desc[d].base .. (u + 1) - 1
      BY <1>1, <3>2 DEF Filing
    <3>4. \A v : v \in Filing(a)' <=> v \in Filing(a) \/ v = u
      BY <1>6, <1>7, <1>8, <1>9, <3>3
    <3>5. ASSUME NEW v, NEW e PROVE Due(a, v, e)' <=> (Due(a, v, e) \/ (v = u /\ e = d))
      <4>1. Due(a, v, e)' <=> (e \in Stock(a) \ {d} /\ v \in UnitsOf(e)) \/ (e = d /\ v \in Filing(a)')
        BY <1>10, <3>1 DEF Due
      <4>2. Due(a, v, e) <=> (e \in Stock(a) \ {d} /\ v \in UnitsOf(e)) \/ (e = d /\ v \in Filing(a))
        BY <1>5 DEF Due
      <4> QED
        BY <3>4, <4>1, <4>2
    <3> QED
      BY <3>1, <3>2, <3>5
  <2>2. CASE PutLast(a)
    <3>1. /\ ~(u < proc[a].end) /\ Others(a) /\ proc'[a] = Idle
          /\ spans'[a] = <<d>> \o spans[a] /\ \A b \in Arenas \ {a} : spans'[b] = spans[b]
      BY <1>d, <2>2 DEF PutLast
    <3>2. proc'[a].pc = "idle" /\ ~proc'[a].reset
      BY <3>1 DEF Idle
    <3>3. ~proc[a].reset /\ spans[a] \in Seq(Nat)
      BY <1>1, TypesOf DEF Custody, ProcShape
    <3>4. Stock(a)' = Stock(a) \cup {d} /\ Hand(a)' = {}
      BY <1>5, <3>1, <3>2, <3>3, PushList DEF Stock, List, Hand, Busy
    <3>5. \A v : v \in UnitsOf(d) <=> v \in Filing(a) \/ v = u
      <4>1. u = desc[d].base + desc[d].size - 1
        BY <1>6, <1>8, <3>1
      <4>2. UnitsOf(d) = desc[d].base .. u
        BY <4>1 DEF UnitsOf
      <4> QED
        BY <1>6, <1>7, <1>8, <1>9, <4>2
    <3>6. ASSUME NEW v, NEW e PROVE Due(a, v, e)' <=> (Due(a, v, e) \/ (v = u /\ e = d))
      <4>1. Due(a, v, e)' <=> e \in Stock(a) \cup {d} /\ v \in UnitsOf(e)
        BY <1>10, <3>4 DEF Due
      <4>2. Due(a, v, e) <=> (e \in Stock(a) \ {d} /\ v \in UnitsOf(e)) \/ (e = d /\ v \in Filing(a))
        BY <1>5 DEF Due
      <4> QED
        BY <1>11, <3>5, <4>1, <4>2
    <3>7. Apart(a)
      BY <3>1, ApartFrom
    <3> QED
      BY <3>1, <3>2, <3>6, <3>7
  <2> QED
    BY <2>1, <2>2, FxPutSpan
<1>13. Exact'
  <2> SUFFICES ASSUME NEW v \in Nat, NEW e \in Nat \ {0}
               PROVE  Entered(g_index', v, e) <=> \E b \in Arenas : Due(b, v, e)'
    BY DEF Exact
  <2>1. \A b \in Arenas \ {a} : Due(b, v, e)' <=> Due(b, v, e)
    BY <1>5, <1>12, DueKept
  <2>2. Due(a, v, e)' <=> (Due(a, v, e) \/ (v = u /\ e = d))
    BY <1>12
  <2>3. Entered(g_index, v, e) <=> \E b \in Arenas : Due(b, v, e)
    BY DEF Index, Exact
  <2>4. Entered(new, v, e) <=> (Entered(g_index, v, e) \/ (v = u /\ e = d))
    BY <1>4
  <2> QED
    BY <1>3, <2>1, <2>2, <2>3, <2>4
<1>14. Counted'
  <2>1. /\ used = Cardinality(Cells(g_index)) /\ live = Cardinality(Files(g_index)) /\ ~Crowded
        /\ used \in Nat /\ live \in Nat
    BY <1>1 DEF Index, Counted, Types
  <2>2. /\ IsFiniteSet(Cells(g_index)) /\ IsFiniteSet(Files(g_index)) /\ s \notin Files(g_index)
        /\ g_index.cap \in Nat
    BY <1>4, RoomLeft, CellsFinite, TableFields
  <2>3. Cardinality(Cells(new)) = used + 1 /\ Cardinality(Files(new)) = live + 1
    BY <1>4, <2>1, <2>2, FS_AddElement
  <2>4. 2 * (used + 1) < g_index.cap
    BY <2>1, <2>2 DEF Crowded
  <2>5. used' = Cardinality(Cells(g_index')) /\ live' = Cardinality(Files(g_index')) /\ 2 * used' < g_index'.cap
    BY <1>1, <1>3, <1>4, <2>3, <2>4
  <2> QED
    BY <1>5, <1>12, <2>5, CountedStep
<1> QED
  BY <1>3, <1>4, <1>13, <1>14 DEF Index

LEMMA IndexDelKeeps ==
  ASSUME Types, Custody, Mappings, Index, NEW a \in Arenas, IndexDel(a)
  PROVE  Index'
<1>d. PICK d, u, end : d = proc[a].d /\ u = proc[a].u /\ end = proc[a].end
  OBVIOUS
<1>1. desc' = desc /\ spans' = spans /\ proc[a].pc \in {"undo", "del"}
  BY DEF IndexDel, arenaVars
<1>2. PICK new, i : TxDel(a, new, i)
  BY Deletes
<1>3. g_index' = new /\ Buried(g_index, new, i) /\ i \in Files(g_index) /\ live' = live - 1 /\ used' = used
      /\ g_index.slot[i].unit = u
  BY <1>d, <1>2 DEF TxDel, Replaced, Files
<1>4. /\ new.cap = g_index.cap /\ Chained(new) /\ Single(new)
      /\ Cells(new) = Cells(g_index) /\ Files(new) = Files(g_index) \ {i}
      /\ \A v \in Nat, e \in Nat \ {0} : Entered(new, v, e) <=> Entered(g_index, v, e) /\ v # u
  BY <1>3 DEF Buried
<1>5. lock = a /\ Hand(a) = {d} /\ d \in Nat \ {0} /\ DescKept(a) /\ Handles(a) /\ proc[a].pc \in Busy
  BY <1>d, <1>1, WhenBusy, OwnedIs DEF DescKept, Custody, ProcShape, Busy
<1>6. u \in Nat /\ end \in Nat /\ u <= end /\ d \in Standing(a) /\ u \in UnitsOf(d)
  BY <1>d, <1>1, AtUnit
<1>7. Filing(a) = u .. end
  BY <1>d, <1>1 DEF Filing
<1>8. \A x : UnitsOf(x)' = UnitsOf(x)
  BY <1>1 DEF UnitsOf
<1>9. /\ Others(a) /\ Apart(a) /\ proc'[a].pc # "span" /\ Stock(a)' = Stock(a) /\ Hand(a)' = {d}
      /\ \A v : v \in Filing(a)' <=> v \in Filing(a) /\ v # u
  <2>1. CASE /\ u < end
             /\ After(a, proc[a].pc, proc[a].d, proc[a].n, proc[a].u + 1, proc[a].end)
    <3>0. After(a, proc[a].pc, d, proc[a].n, u + 1, end)
      BY <2>1, <1>d
    <3>1. Others(a) /\ Apart(a) /\ Stock(a)' = Stock(a) /\ Hand(a)' = {d}
      BY <1>1, <1>5, <2>1, <1>d, AfterList
    <3>2. proc'[a].pc = proc[a].pc /\ proc'[a].u = u + 1 /\ proc'[a].end = end
      BY <3>0 DEF After
    <3>3. Filing(a)' = (u + 1) .. end
      BY <1>1, <3>2 DEF Filing
    <3>4. \A v : v \in Filing(a)' <=> v \in Filing(a) /\ v # u
      BY <1>6, <1>7, <3>3
    <3> QED
      BY <1>1, <3>1, <3>2, <3>4
  <2>2. CASE /\ ~(u < end)
             /\ After(a, IF proc[a].pc = "del" THEN "disown" ELSE "unmap",
                      proc[a].d, proc[a].n, proc[a].u, proc[a].end)
    <3>1. PICK pc \in {"disown", "unmap"} : After(a, pc, d, proc[a].n, u, end)
      BY <2>2, <1>d
    <3>2. Others(a) /\ Apart(a) /\ Stock(a)' = Stock(a) /\ Hand(a)' = {d}
      BY <1>1, <3>1, AfterList DEF Busy
    <3>3. proc'[a].pc = pc
      BY <3>1 DEF After
    <3>4. Filing(a)' = {}
      BY <3>3 DEF Filing
    <3>5. \A v : v \in Filing(a) => v = u
      BY <1>6, <1>7, <2>2
    <3> QED
      BY <3>2, <3>3, <3>4, <3>5
  <2> QED
    BY <1>d, <2>1, <2>2, FxDel
<1>10. Exact'
  <2> SUFFICES ASSUME NEW v \in Nat, NEW e \in Nat \ {0}
               PROVE  Entered(g_index', v, e) <=> \E b \in Arenas : Due(b, v, e)'
    BY DEF Exact
  <2>1. \A b \in Arenas \ {a} : Due(b, v, e)' <=> Due(b, v, e)
    BY <1>5, <1>9, DueKept
  <2>2. Due(a, v, e)' <=> (e \in Stock(a) \ {d} /\ v \in UnitsOf(e)) \/ (e = d /\ v \in Filing(a)')
    BY <1>8, <1>9 DEF Due
  <2>3. Due(a, v, e) <=> (e \in Stock(a) \ {d} /\ v \in UnitsOf(e)) \/ (e = d /\ v \in Filing(a))
    BY <1>5 DEF Due
  <2>4. ASSUME NEW b \in Arenas, Due(b, v, e), v = u PROVE b = a /\ e = d
    <3>1. e \in Standing(b) /\ v \in UnitsOf(e)
      BY <2>4, DueUnits
    <3> QED
      BY <1>6, <2>4, <3>1, OneStanding
  <2>5. v = u => ~(e \in Stock(a) \ {d} /\ v \in UnitsOf(e))
    <3>1. e \in Stock(a) \ {d} /\ v \in UnitsOf(e) => Due(a, v, e)
      BY <2>3
    <3> QED
      BY <2>4, <3>1
  <2>6. Due(a, v, e)' <=> Due(a, v, e) /\ v # u
    BY <1>9, <2>2, <2>3, <2>5
  <2>7. \A b \in Arenas \ {a} : Due(b, v, e) => v # u
    BY <2>4
  <2>8. Entered(g_index, v, e) <=> \E b \in Arenas : Due(b, v, e)
    BY DEF Index, Exact
  <2>9. Entered(new, v, e) <=> Entered(g_index, v, e) /\ v # u
    BY <1>4
  <2> QED
    BY <1>3, <2>1, <2>6, <2>7, <2>8, <2>9
<1>11. Counted'
  <2>1. /\ used = Cardinality(Cells(g_index)) /\ live = Cardinality(Files(g_index)) /\ 2 * used < g_index.cap
    BY DEF Index, Counted
  <2>2. IsFiniteSet(Files(g_index))
    BY RoomLeft, CellsFinite
  <2>3. Cardinality(Files(new)) = live - 1
    BY <1>3, <1>4, <2>1, <2>2, FS_RemoveElement
  <2>4. used' = Cardinality(Cells(g_index')) /\ live' = Cardinality(Files(g_index')) /\ 2 * used' < g_index'.cap
    BY <1>3, <1>4, <2>1, <2>3
  <2> QED
    BY <1>5, <1>9, <2>4, CountedStep
<1> QED
  BY <1>3, <1>4, <1>10, <1>11 DEF Index

LEMMA IndexKept ==
  ASSUME IInv, NEW a \in Arenas,
         \/ \E n \in 1 .. 2 : SpanDescAlloc(a, n)
         \/ MapChunk(a) \/ RegisterBegin(a) \/ IndexRehash(a) \/ IndexRehashFails(a)
         \/ PutUnit(a) \/ PutSpan(a)
         \/ \E d \in DOMAIN desc : ReleaseSpan(a, d)
         \/ ArenaReset(a) \/ UnregisterBegin(a) \/ IndexDel(a) \/ Disown(a) \/ Unmap(a) \/ SpanDescFree(a)
  PROVE  Index'
<1>1. Types /\ Custody /\ Mappings /\ Index
  BY DEF IInv
<1> QED
  BY <1>1, IndexAlloc, IndexRegisterStays, IndexReleaseStays, IndexRehashKeeps, IndexPutUnit,
     IndexPutSpan, IndexDelKeeps

-------------------------------------------------------------------------------
(***************************************************************************)
(* The span that covers an address.                                        *)
(***************************************************************************)
Settled(a) == IF proc[a].reset THEN {} ELSE Range(spans[a]) \ Hand(a)

LEMMA SettledIn ==
  ASSUME NEW a \in Arenas
  PROVE  /\ Settled(a) \subseteq Stock(a) /\ Settled(a) \cap Hand(a) = {} /\ Settled(a) \subseteq Has(a)
         /\ Settled(a) \subseteq Standing(a) /\ Settled(a) \subseteq Marked(a)
         /\ (~proc[a].reset => Settled(a) \subseteq Range(spans[a]) /\ Settled(a) = Stock(a) \ Hand(a))
         /\ (proc[a].reset => Settled(a) = {})
<1>1. ~proc[a].reset => Stock(a) = Range(spans[a])
  BY DEF Stock, List
<1>2. Settled(a) \subseteq Stock(a) /\ Settled(a) \cap Hand(a) = {}
  BY <1>1 DEF Settled
<1> QED
  BY <1>1, <1>2 DEF Settled, Has, Standing, Marked

LEMMA CoveringIs ==
  Types /\ Custody => \A p : Covering(p) = {d \in UNION {Settled(b) : b \in Arenas} : Inside(p, d)}
<1> SUFFICES ASSUME Types, Custody, NEW p, NEW d
             PROVE  d \in Covering(p) <=> Inside(p, d) /\ \E b \in Arenas : d \in Settled(b)
  OBVIOUS
<1>1. ASSUME NEW b \in Arenas, ~proc[b].reset, d \in Range(spans[b])
      PROVE  (\A a \in Arenas : proc[a].d = d => At(a, "idle") \/ proc[a].p # 0) <=> d \notin Hand(b)
  <2>1. d \in Stock(b) /\ d \in Has(b) /\ Handles(b)
    BY <1>1, OwnedIs DEF Stock, List, Has, Custody
  <2>2. d \in DOMAIN desc /\ d # none
    BY <2>1, DescHas DEF Handles
  <2>3. ASSUME NEW a \in Arenas, proc[a].d = d, d \in Hand(a)
        PROVE  ~At(a, "idle") /\ proc[a].p = 0
    <3>1. proc[a].pc \in Busy
      BY <2>3 DEF Hand
    <3> QED
      BY <3>1, WhenBusy DEF At, Busy
  <2>4. ASSUME d \in Hand(b) PROVE proc[b].d = d
    BY <2>4 DEF Hand
  <2>5. ASSUME NEW a \in Arenas, proc[a].d = d, ~At(a, "idle"), proc[a].p = 0
        PROVE  d \in Hand(b)
    <3>1. ProcShape(a) /\ ProcFields(proc[a])
      BY TypesOf DEF Custody
    <3>2. proc[a].pc \notin Looking
      BY <2>5, <3>1 DEF ProcShape
    <3>3. proc[a].pc \in Busy
      BY <2>5, <3>1, <3>2 DEF ProcFields, At
    <3>4. d \in Hand(a)
      BY <2>5, <3>3 DEF Hand
    <3>5. a # b => Has(a) \cap Has(b) = {}
      BY OwnedIs DEF Custody
    <3> QED
      BY <2>1, <3>4, <3>5 DEF Has
  <2> QED
    BY <2>3, <2>4, <2>5
<1>2. d \in Covering(p) <=>
        /\ Inside(p, d) /\ \A a \in Arenas : proc[a].d = d => At(a, "idle") \/ proc[a].p # 0
        /\ \E b \in Arenas : ~proc[b].reset /\ d \in Range(spans[b])
  BY DEF Covering
<1>3. \A b \in Arenas : d \in Settled(b) <=> ~proc[b].reset /\ d \in Range(spans[b]) /\ d \notin Hand(b)
  BY DEF Settled
<1> QED
  BY <1>1, <1>2, <1>3

LEMMA CoveringNext ==
  (Types /\ Custody => \A p : Covering(p) = {d \in UNION {Settled(b) : b \in Arenas} : Inside(p, d)})'
  BY CoveringIs, PTL

LEMMA CoveringOf ==
  ASSUME Types, Custody, NEW p, NEW d
  PROVE  d \in Covering(p) <=> Inside(p, d) /\ \E b \in Arenas : d \in Settled(b)
  BY CoveringIs

LEMMA InsideUnit ==
  ASSUME Types, Custody, Mappings, NEW p \in Addresses, NEW a \in Arenas, NEW d \in Marked(a), Inside(p, d)
  PROVE  unit_of(p) \in UnitsOf(d)
<1>1. SpanMarked(a, d) /\ Handles(a) /\ d \in Has(a)
  BY StandingIs, OwnedIs DEF Mappings, Custody
<1>2. DescFields(desc[d])
  BY <1>1, DescHas DEF Handles
<1> DEFINE q == unit_of(p)
           b == desc[d].base
           s == desc[d].size
<1>3. b \in Nat /\ s \in Nat /\ 2 * b + 1 <= p /\ p < 2 * (b + s)
  BY <1>1, <1>2 DEF SpanMarked, Inside, DescFields
<1>4. p \in Nat /\ q \in 1 .. Units /\ 2 * q <= p /\ p <= 2 * q + 1
  BY UnitOf
<1> HIDE DEF q, b, s
<1>5. q \in b .. b + s - 1
  BY <1>3, <1>4, Constants
<1> QED
  BY <1>5 DEF UnitsOf, q, b, s

\* One span covers an address, and stands there.
LEMMA CoveredBy ==
  ASSUME Types, Custody, Mappings, NEW p \in Addresses, NEW d \in Covering(p)
  PROVE  /\ Inside(p, d) /\ unit_of(p) \in UnitsOf(d) /\ unit_of(p) \in mapped /\ Covering(p) = {d}
         /\ d \in Nat \ {0} /\ d # none
         /\ \E b \in Arenas : d \in Settled(b) /\ d \in Standing(b) /\ d \notin Hand(b) /\ SpanMarked(b, d)
<1>1. ASSUME NEW e \in Covering(p)
      PROVE  \E b \in Arenas : /\ e \in Settled(b) /\ e \in Standing(b) /\ e \notin Hand(b) /\ SpanMarked(b, e)
                               /\ Inside(p, e) /\ unit_of(p) \in UnitsOf(e) /\ unit_of(p) \in mapped
                               /\ e \in Has(b)
  <2>1. PICK b \in Arenas : e \in Settled(b)
    BY CoveringOf
  <2>2. Inside(p, e) /\ e \in Standing(b) /\ e \notin Hand(b) /\ e \in Marked(b) /\ e \in Has(b)
    BY <2>1, CoveringOf, SettledIn
  <2>3. unit_of(p) \in UnitsOf(e)
    BY <2>2, InsideUnit
  <2>4. SpanMapped(e) /\ SpanMarked(b, e)
    BY <2>2 DEF Mappings
  <2> QED
    BY <2>1, <2>2, <2>3, <2>4 DEF SpanMapped
<1>2. PICK b \in Arenas : /\ d \in Settled(b) /\ d \in Standing(b) /\ d \notin Hand(b) /\ SpanMarked(b, d)
                          /\ Inside(p, d) /\ unit_of(p) \in UnitsOf(d) /\ unit_of(p) \in mapped /\ d \in Has(b)
  BY <1>1
<1>3. ASSUME NEW e \in Covering(p) PROVE e = d
  <2>1. PICK c \in Arenas : e \in Standing(c) /\ unit_of(p) \in UnitsOf(e)
    BY <1>1
  <2> QED
    BY <1>2, <2>1, OneStanding
<1>4. Handles(b)
  BY OwnedIs DEF Custody
<1>5. d \in Nat \ {0} /\ d # none
  BY <1>2, <1>4, DescHas DEF Handles
<1> QED
  BY <1>2, <1>3, <1>5

\* The step of an arena leaves an address covered as it was if it does so with
\* the arena's own spans.
LEMMA CoverStep ==
  ASSUME Types, Custody, Types', Custody', NEW a \in Arenas, Apart(a), DescKept(a), NEW p,
         \A d : d \in Settled(a)' /\ Inside(p, d)' <=> d \in Settled(a) /\ Inside(p, d)
  PROVE  Covering(p)' = Covering(p)
<1>1. Covering(p)' = {d \in UNION {Settled(b)' : b \in Arenas} : Inside(p, d)'}
  BY CoveringNext
<1>2. Covering(p) = {d \in UNION {Settled(b) : b \in Arenas} : Inside(p, d)}
  BY CoveringIs
<1>3. ASSUME NEW d, NEW b \in Arenas
      PROVE  d \in Settled(b)' /\ Inside(p, d)' <=> d \in Settled(b) /\ Inside(p, d)
  <2>1. CASE b = a
    BY <2>1
  <2>2. CASE b # a
    <3>1. proc'[b] = proc[b] /\ spans'[b] = spans[b] /\ Hand(b)' = Hand(b)
      BY <2>2, OthersKeep DEF Apart
    <3>2. Settled(b)' = Settled(b)
      BY <3>1 DEF Settled
    <3>3. d \in Settled(b) => (Inside(p, d)' <=> Inside(p, d))
      BY <2>2, SettledIn DEF DescKept, Inside
    <3> QED
      BY <3>2, <3>3
  <2> QED
    BY <2>1, <2>2
<1>4. ASSUME NEW d PROVE d \in Covering(p)' <=> d \in Covering(p)
  <2>1. d \in Covering(p)' <=> \E b \in Arenas : d \in Settled(b)' /\ Inside(p, d)'
    BY <1>1
  <2>2. d \in Covering(p) <=> \E b \in Arenas : d \in Settled(b) /\ Inside(p, d)
    BY <1>2
  <2> QED
    BY <1>3, <2>1, <2>2
<1> QED
  BY <1>4

\* The addresses that are looked up.
Sought(p) == \E b \in Arenas : proc[b].pc \in Looking /\ proc[b].p = p

LookKept ==
  \A p \in Addresses : Sought(p) =>
    Covering(p)' = Covering(p) /\ (unit_of(p) \notin mapped => unit_of(p) \notin mapped')

LEMMA SoughtIs ==
  ASSUME Types, Custody, Lookups, NEW p, Sought(p)
  PROVE  unit_of(p) \in LookedUp /\ p \in Addresses /\ (Covering(p) # {} \/ unit_of(p) \notin mapped)
<1>1. PICK b \in Arenas : proc[b].pc \in Looking /\ proc[b].p = p
  BY DEF Sought
<1>2. Seeks(b) /\ proc[b].p # 0
  BY <1>1, WhenLooking DEF Lookups
<1>3. p \in Addresses /\ (Covering(p) # {} \/ unit_of(p) \notin mapped)
  BY <1>1, <1>2 DEF Seeks
<1> QED
  BY <1>1, <1>2, <1>3 DEF LookedUp

\* The spans of the arena that are settled stay so.
LEMMA LookKeptBy ==
  ASSUME Types, Custody, Types', Custody', NEW a \in Arenas, Apart(a), DescKept(a), mapped' \subseteq mapped,
         Settled(a)' = Settled(a), \A d \in Settled(a) : desc'[d] = desc[d]
  PROVE  LookKept /\ \A p : Covering(p)' = Covering(p)
<1>1. ASSUME NEW p PROVE Covering(p)' = Covering(p)
  <2>1. \A d : d \in Settled(a)' /\ Inside(p, d)' <=> d \in Settled(a) /\ Inside(p, d)
    BY DEF Inside
  <2> QED
    BY <2>1, CoverStep
<1> QED
  BY <1>1 DEF LookKept

\* Spans nobody looks up are taken off the settled ones.
LEMMA LookKeptTaking ==
  ASSUME Types, Custody, Mappings, Lookups, Types', Custody', NEW a \in Arenas, Apart(a), desc' = desc,
         mapped' = mapped, Settled(a)' \subseteq Settled(a),
         \A d \in Settled(a) \ Settled(a)' : UnitsOf(d) \cap LookedUp = {}
  PROVE  LookKept
<1> SUFFICES ASSUME NEW p \in Addresses, Sought(p) PROVE Covering(p)' = Covering(p)
  BY DEF LookKept
<1>1. unit_of(p) \in LookedUp
  BY SoughtIs
<1>2. DescKept(a)
  BY DEF DescKept
<1>3. ASSUME NEW d PROVE d \in Settled(a)' /\ Inside(p, d)' <=> d \in Settled(a) /\ Inside(p, d)
  <2>1. Inside(p, d)' <=> Inside(p, d)
    BY DEF Inside
  <2>2. d \in Settled(a) /\ Inside(p, d) => unit_of(p) \in UnitsOf(d)
    BY SettledIn, InsideUnit
  <2> QED
    BY <1>1, <2>1, <2>2
<1> QED
  BY <1>2, <1>3, CoverStep

\* A unit that is looked up is not one of a span at hand.
LEMMA NotAtHand ==
  ASSUME Types, Custody, Mappings, Lookups, NEW p, Sought(p), NEW a \in Arenas,
         proc[a].pc \in AtSpan
  PROVE  unit_of(p) \notin UnitsOf(proc[a].d)
<1> SUFFICES ASSUME unit_of(p) \in UnitsOf(proc[a].d) PROVE FALSE
  OBVIOUS
<1>1. p \in Addresses /\ (Covering(p) # {} \/ unit_of(p) \notin mapped)
  BY SoughtIs
<1>2. proc[a].d \in Standing(a) /\ proc[a].d \in Hand(a)
  BY StandingIs DEF AtSpan, Hand
<1>3. unit_of(p) \in mapped
  BY <1>2 DEF Mappings, SpanMapped
<1>4. PICK e : e \in Covering(p)
  BY <1>1, <1>3
<1>5. PICK b \in Arenas : e \in Standing(b) /\ e \notin Hand(b) /\ unit_of(p) \in UnitsOf(e)
  BY <1>1, <1>4, CoveredBy
<1>6. a = b /\ proc[a].d = e
  BY <1>2, <1>5, OneStanding
<1> QED
  BY <1>2, <1>5, <1>6

LEMMA LookKeptMap ==
  ASSUME Types, Custody, Lookups, Types', Custody', NEW a \in Arenas, proc[a].pc = "map", NEW base \in Nat,
         MapGives(a, base), spans' = spans
  PROVE  LookKept
<1>d. PICK d : d = proc[a].d
  OBVIOUS
<1>1. /\ After(a, "register", d, proc[a].n, proc[a].u, proc[a].end) /\ DescOnly(d)
      /\ (base .. base + proc[a].n - 1) \cap LookedUp = {}
      /\ mapped' = mapped \cup (base .. base + proc[a].n - 1)
  BY <1>d DEF MapGives
<1>2. Hand(a) = {d} /\ d \in Has(a) /\ Handles(a)
  BY <1>d, WhenBusy, OwnedIs DEF Has, Busy, Custody
<1>3. Apart(a) /\ Hand(a)' = {d} /\ (proc'[a].reset <=> proc[a].reset) /\ DescKept(a)
  BY <1>1, <1>2, AfterList, DescKeptBy DEF After, Busy
<1>4. Settled(a)' = Settled(a)
  BY <1>2, <1>3 DEF Settled
<1>5. \A e \in Settled(a) : desc'[e] = desc[e]
  BY <1>1, <1>2, SettledIn DEF DescOnly, Handles
<1> SUFFICES ASSUME NEW p \in Addresses, Sought(p)
             PROVE  Covering(p)' = Covering(p) /\ (unit_of(p) \notin mapped => unit_of(p) \notin mapped')
  BY DEF LookKept
<1>6. unit_of(p) \in LookedUp
  BY SoughtIs
<1>7. \A e : e \in Settled(a)' /\ Inside(p, e)' <=> e \in Settled(a) /\ Inside(p, e)
  BY <1>4, <1>5 DEF Inside
<1>8. Covering(p)' = Covering(p)
  BY <1>3, <1>7, CoverStep
<1> QED
  BY <1>1, <1>6, <1>8

LEMMA LookKeptAlloc ==
  ASSUME Types, Custody, Types', Custody', NEW a \in Arenas, NEW n \in 1 .. 2, SpanDescAlloc(a, n)
  PROVE  LookKept
<1>1. PICK d \in Nat \ {0} :
           /\ After(a, "map", d, n, proc[a].u, proc[a].end)
           /\ \A e \in DOMAIN desc : e # d => desc'[e] = desc[e]
           /\ d \in Range(pool) \/ d \notin DOMAIN desc
  BY FxAlloc
<1>2. At(a, "idle") /\ mapped' = mapped /\ spans' = spans
  BY DEF SpanDescAlloc, arenaVars
<1>3. Hand(a) = {} /\ ~proc[a].reset
  BY <1>2, WhenIdle
<1>4. Apart(a) /\ Hand(a)' = {d} /\ ~proc'[a].reset
  BY <1>1, <1>2, <1>3, AfterList DEF After, Busy
<1>5. ASSUME NEW b \in Arenas, NEW e \in Has(b) PROVE e # d /\ desc'[e] = desc[e]
  <2>1. Handles(b)
    BY OwnedIs DEF Custody
  <2>2. e \in DOMAIN desc /\ e # d
    BY <1>1, <2>1 DEF Handles
  <2> QED
    BY <1>1, <2>2
<1>6. DescKept(a)
  BY <1>5 DEF DescKept
<1>7. Settled(a) = Range(spans[a]) /\ d \notin Settled(a)
  <2>1. Settled(a) = Range(spans[a])
    BY <1>3 DEF Settled
  <2> QED
    BY <1>5, <2>1, SettledIn
<1>8. Settled(a)' = Settled(a)
  BY <1>2, <1>4, <1>7 DEF Settled
<1>9. \A e \in Settled(a) : desc'[e] = desc[e]
  BY <1>5, SettledIn
<1> QED
  BY <1>2, <1>4, <1>6, <1>8, <1>9, LookKeptBy

LEMMA LookKeptPut ==
  ASSUME Types, Custody, Mappings, Lookups, Types', Custody', NEW a \in Arenas, PutSpan(a)
  PROVE  LookKept
<1>d. PICK d : d = proc[a].d
  OBVIOUS
<1>1. desc' = desc /\ mapped' = mapped /\ proc[a].pc = "span"
  BY DEF PutSpan, At
<1>2. DescKept(a) /\ Hand(a) = {d} /\ d \in Nat /\ proc[a].pc \in AtSpan /\ ~proc[a].reset
  BY <1>d, <1>1, WhenBusy DEF DescKept, Busy, AtSpan, Custody, ProcShape
<1>3. CASE /\ spans' = spans
           /\ After(a, "add", proc[a].d, proc[a].n, proc[a].u + 1, proc[a].end)
  <2>1. Apart(a) /\ Hand(a)' = {d} /\ (proc'[a].reset <=> proc[a].reset)
    BY <1>d, <1>3, AfterList DEF After, Busy
  <2>2. Settled(a)' = Settled(a)
    BY <1>2, <1>3, <2>1 DEF Settled
  <2> QED
    BY <1>1, <1>2, <2>1, <2>2, LookKeptBy
<1>4. CASE PutLast(a)
  <2>1. /\ Others(a) /\ proc'[a] = Idle
        /\ spans'[a] = <<d>> \o spans[a] /\ \A b \in Arenas \ {a} : spans'[b] = spans[b]
    BY <1>d, <1>4 DEF PutLast
  <2>2. Apart(a) /\ Hand(a)' = {} /\ ~proc'[a].reset
    BY <2>1, ApartFrom DEF Idle, Hand, Busy
  <2>3. Range(spans'[a]) = Range(spans[a]) \cup {d}
    BY <1>2, <2>1, TypesOf, PushList
  <2>4. Settled(a) \cup {d} = Settled(a)'
    BY <1>2, <2>2, <2>3 DEF Settled
  <2> SUFFICES ASSUME NEW p \in Addresses, Sought(p) PROVE Covering(p)' = Covering(p)
    BY <1>1 DEF LookKept
  <2>5. ~Inside(p, d)
    <3>1. unit_of(p) \notin UnitsOf(d)
      BY <1>d, <1>2, NotAtHand
    <3>2. d \in Marked(a)
      BY <1>d, <1>1, StandingIs DEF AtMark
    <3> QED
      BY <3>1, <3>2, InsideUnit
  <2>6. ASSUME NEW e PROVE e \in Settled(a)' /\ Inside(p, e)' <=> e \in Settled(a) /\ Inside(p, e)
    <3>1. Inside(p, e)' <=> Inside(p, e)
      BY <1>1 DEF Inside
    <3> QED
      BY <2>4, <2>5, <3>1
  <2> QED
    BY <1>2, <2>2, <2>6, CoverStep
<1> QED
  BY <1>3, <1>4, FxPutSpan

\* An operation goes on with the descriptor in hand.
LEMMA LookKeptOn ==
  ASSUME Types, Custody, Types', Custody', NEW a \in Arenas, proc[a].pc \in Busy,
         NEW pc \in Busy, NEW n, NEW u, NEW end, After(a, pc, proc[a].d, n, u, end),
         desc' = desc, mapped' \subseteq mapped, spans' = spans
  PROVE  LookKept
<1>d. PICK d : d = proc[a].d
  OBVIOUS
<1>1. Hand(a) = {d} /\ Hand(a)' = {d} /\ Apart(a) /\ (proc'[a].reset <=> proc[a].reset)
  BY <1>d, WhenBusy, AfterList DEF After
<1>2. Settled(a)' = Settled(a)
  BY <1>1 DEF Settled
<1>3. DescKept(a)
  BY DEF DescKept
<1> QED
  BY <1>1, <1>2, <1>3, LookKeptBy

\* What a reader may count on while another arena works.
Works(a) == Others(a) /\ proc'[a].pc \notin Looking /\ LookKept

LEMMA WorksAfter ==
  ASSUME NEW a \in Arenas, NEW pc \in Busy, NEW d, NEW n, NEW u, NEW end, After(a, pc, d, n, u, end), LookKept
  PROVE  Works(a)
  BY DEF Works, After, Busy, Looking

LEMMA WorksRegister ==
  ASSUME IInv, NEW a \in Arenas,
         \/ \E n \in 1 .. 2 : SpanDescAlloc(a, n)
         \/ MapChunk(a) \/ RegisterBegin(a) \/ IndexRehash(a) \/ IndexRehashFails(a)
         \/ PutUnit(a) \/ PutSpan(a)
  PROVE  Works(a)
<1>0. Types /\ Custody /\ Mappings /\ Lookups /\ Types' /\ Custody' /\ Labels
  BY TypesRegister, CustodyRegister, LabelsHold DEF IInv
<1> USE <1>0
<1>d. PICK d : d = proc[a].d
  OBVIOUS
<1>1. ASSUME NEW n \in 1 .. 2, SpanDescAlloc(a, n) PROVE Works(a)
  <2>1. LookKept
    BY <1>1, LookKeptAlloc
  <2>2. PICK e : After(a, "map", e, n, proc[a].u, proc[a].end)
    BY <1>1, FxAlloc
  <2> QED
    BY <2>1, <2>2, WorksAfter DEF Labels
<1>2. CASE MapChunk(a)
  <2>1. spans' = spans /\ proc[a].pc = "map"
    BY <1>2 DEF MapChunk, arenaVars, At
  <2>2. ASSUME NEW base \in Nat, MapGives(a, base) PROVE Works(a)
    <3>1. LookKept
      BY <2>1, <2>2, LookKeptMap
    <3>2. After(a, "register", d, proc[a].n, proc[a].u, proc[a].end)
      BY <1>d, <2>2 DEF MapGives
    <3> QED
      BY <3>1, <3>2, WorksAfter DEF Labels
  <2>3. CASE /\ After(a, "recycle", d, proc[a].n, proc[a].u, proc[a].end)
             /\ mapped' = mapped /\ desc' = desc
    BY <1>d, <2>1, <2>3, LookKeptOn, WorksAfter DEF Labels
  <2> QED
    BY <1>2, <1>d, <2>2, <2>3, FxMap
<1>3. CASE RegisterBegin(a)
  <2>1. spans' = spans /\ desc' = desc /\ mapped' = mapped /\ proc[a].pc \in Busy
    BY <1>3 DEF RegisterBegin, arenaVars, At, Labels
  <2>2. PICK u, end : After(a, "add", d, proc[a].n, u, end)
    BY <1>3, <1>d, FxRegister
  <2> QED
    BY <1>d, <2>1, <2>2, LookKeptOn, WorksAfter DEF Labels
<1>4. CASE IndexRehash(a)
  <2>1. spans' = spans /\ desc' = desc /\ mapped' = mapped /\ proc' = proc /\ proc[a].pc = "add"
    BY <1>4 DEF IndexRehash, arenaVars, At
  <2>2. Apart(a) /\ DescKept(a) /\ Others(a)
    BY <2>1 DEF Apart, DescKept, Others
  <2>3. Settled(a)' = Settled(a)
    BY <2>1 DEF Settled, Hand
  <2>4. LookKept
    BY <2>1, <2>2, <2>3, LookKeptBy
  <2> QED
    BY <2>1, <2>2, <2>4 DEF Works, Looking
<1>5. CASE IndexRehashFails(a)
  <2>1. spans' = spans /\ desc' = desc /\ mapped' = mapped /\ proc[a].pc \in Busy
    BY <1>5 DEF IndexRehashFails, arenaVars, At, Labels
  <2>2. PICK pc \in Busy : \E u, end : After(a, pc, d, proc[a].n, u, end)
    BY <1>5, <1>d, FxFails DEF Labels
  <2>3. PICK u, end : After(a, pc, d, proc[a].n, u, end)
    BY <2>2
  <2> QED
    BY <1>d, <2>1, <2>3, LookKeptOn, WorksAfter
<1>6. CASE PutUnit(a)
  <2>1. spans' = spans /\ desc' = desc /\ mapped' = mapped /\ proc[a].pc \in Busy
    BY <1>6 DEF PutUnit, arenaVars, At, Labels
  <2>2. After(a, "span", d, proc[a].n, proc[a].u, proc[a].end)
    BY <1>6, <1>d, FxPutUnit
  <2> QED
    BY <1>d, <2>1, <2>2, LookKeptOn, WorksAfter DEF Labels
<1>7. CASE PutSpan(a)
  <2>1. LookKept
    BY <1>7, LookKeptPut
  <2>2. CASE After(a, "add", proc[a].d, proc[a].n, proc[a].u + 1, proc[a].end)
    <3>1. PICK v : v = proc[a].u + 1
      OBVIOUS
    <3>2. After(a, "add", d, proc[a].n, v, proc[a].end)
      BY <1>d, <2>2, <3>1
    <3> QED
      BY <2>1, <3>2, WorksAfter DEF Labels
  <2>3. CASE PutLast(a)
    BY <2>1, <2>3 DEF PutLast, Works, Idle, Looking
  <2> QED
    BY <1>7, <2>2, <2>3, FxPutSpan
<1> QED
  BY <1>1, <1>2, <1>3, <1>4, <1>5, <1>6, <1>7

LEMMA WorksNext ==
  ASSUME NEW a \in Arenas, NEW d, NEW todo, AfterNext(a, d, todo), LookKept
  PROVE  Works(a)
  BY DEF Works, AfterNext, Looking

\* A reset has settled nothing.
LEMMA NextSettled ==
  ASSUME NEW a \in Arenas, NEW d, NEW todo, AfterNext(a, d, todo), spans' = spans
  PROVE  Settled(a)' = {} /\ Apart(a)
<1>1. proc'[a].reset /\ Others(a)
  BY DEF AfterNext
<1> QED
  BY <1>1, ApartFrom DEF Settled

LEMMA WorksRelease ==
  ASSUME IInv, NEW a \in Arenas,
         \/ \E d \in DOMAIN desc : ReleaseSpan(a, d)
         \/ ArenaReset(a) \/ UnregisterBegin(a) \/ IndexDel(a) \/ Disown(a) \/ Unmap(a) \/ SpanDescFree(a)
  PROVE  Works(a)
<1>0. /\ Types /\ Custody /\ Mappings /\ Lookups /\ Types' /\ Custody' /\ Labels
      /\ ProcFields(proc[a]) /\ Handles(a)
  BY TypesRelease, CustodyRelease, LabelsHold, TypesOf, OwnedIs DEF IInv, Custody
<1> USE <1>0
<1>d. PICK d : d = proc[a].d
  OBVIOUS
<1>1. ASSUME NEW e \in DOMAIN desc, ReleaseSpan(a, e) PROVE Works(a)
  <2>1. /\ desc' = desc /\ mapped' = mapped /\ spans' = spans /\ At(a, "idle") /\ UnitsOf(e) \cap LookedUp = {}
    BY <1>1 DEF ReleaseSpan, arenaVars
  <2>2. After(a, "unregister", e, proc[a].n, proc[a].u, proc[a].end)
    BY <1>1, FxRelease
  <2>3. Hand(a) = {} /\ ~proc[a].reset
    BY <2>1, WhenIdle
  <2>4. Hand(a)' = {e} /\ Apart(a) /\ ~proc'[a].reset
    BY <2>1, <2>2, <2>3, AfterList DEF After, Labels
  <2>5. Settled(a)' \subseteq Settled(a) /\ \A x \in Settled(a) \ Settled(a)' : x = e
    BY <2>1, <2>3, <2>4 DEF Settled
  <2>6. LookKept
    BY <2>1, <2>4, <2>5, LookKeptTaking
  <2> QED
    BY <2>2, <2>6, WorksAfter DEF Labels
<1>2. CASE ArenaReset(a)
  <2>1. /\ desc' = desc /\ mapped' = mapped /\ spans' = spans /\ At(a, "idle")
        /\ \A e \in Range(spans[a]) : UnitsOf(e) \cap LookedUp = {}
    BY <1>2 DEF ArenaReset, arenaVars
  <2>2. PICK h, todo : AfterNext(a, h, todo)
    BY <1>2, FxReset
  <2>3. Settled(a)' = {} /\ Apart(a)
    BY <2>1, <2>2, NextSettled
  <2>4. Settled(a) \subseteq Range(spans[a])
    BY DEF Settled
  <2>5. LookKept
    BY <2>1, <2>3, <2>4, LookKeptTaking
  <2> QED
    BY <2>2, <2>5, WorksNext
<1>3. CASE UnregisterBegin(a)
  <2>1. spans' = spans /\ desc' = desc /\ mapped' = mapped /\ proc[a].pc \in Busy
    BY <1>3 DEF UnregisterBegin, At, Labels
  <2>2. PICK u, end : After(a, "del", d, proc[a].n, u, end)
    BY <1>3, <1>d, FxUnregister
  <2> QED
    BY <1>d, <2>1, <2>2, LookKeptOn, WorksAfter DEF Labels
<1>4. CASE IndexDel(a)
  <2>1. spans' = spans /\ desc' = desc /\ mapped' = mapped /\ proc[a].pc \in Busy
    BY <1>4 DEF IndexDel, arenaVars, Labels
  <2>2. PICK pc \in Busy : \E u, end : After(a, pc, d, proc[a].n, u, end)
    BY <1>4, <1>d, <2>1, FxDel DEF Labels
  <2>3. PICK u, end : After(a, pc, d, proc[a].n, u, end)
    BY <2>2
  <2> QED
    BY <1>d, <2>1, <2>3, LookKeptOn, WorksAfter
<1>5. CASE Disown(a)
  <2>1. mapped' = mapped /\ proc[a].pc \in Busy
    BY <1>5 DEF Disown, At, Labels
  <2>2. Disowned(a)
    BY <1>5, FxDisown
  <2>3. After(a, "unmap", d, proc[a].n, proc[a].u, proc[a].end) /\ DescOnly(d)
    BY <1>d, <2>2 DEF Disowned
  <2>4. proc'[a].pc = "unmap" /\ proc'[a].d = d /\ (proc'[a].reset <=> proc[a].reset) /\ Others(a)
    BY <2>3 DEF After
  <2>5. Apart(a) /\ Hand(a)' = {d}
    BY <2>2, <2>4, ApartFrom DEF Disowned, Hand, Labels
  <2>6. Hand(a) = {d} /\ d \in Has(a)
    BY <1>d, <2>1, WhenBusy DEF Has
  <2>7. Settled(a)' = Settled(a)
    BY <1>d, <2>2, <2>4, <2>5, <2>6 DEF Settled, Disowned
  <2>8. \A e \in Settled(a) : desc'[e] = desc[e]
    BY <2>3, <2>6, SettledIn DEF DescOnly, Handles
  <2>9. DescKept(a)
    BY <2>3, <2>6, DescKeptBy
  <2>10. LookKept
    BY <2>1, <2>5, <2>7, <2>8, <2>9, LookKeptBy
  <2> QED
    BY <2>3, <2>10, WorksAfter DEF Labels
<1>6. CASE Unmap(a)
  <2>1. spans' = spans /\ desc' = desc /\ mapped' \subseteq mapped /\ proc[a].pc \in Busy
    BY <1>6 DEF Unmap, arenaVars, At, Labels
  <2>2. After(a, "recycle", d, proc[a].n, proc[a].u, proc[a].end)
    BY <1>6, <1>d, FxUnmap
  <2> QED
    BY <1>d, <2>1, <2>2, LookKeptOn, WorksAfter DEF Labels
<1>7. CASE SpanDescFree(a)
  <2>1. desc' = desc /\ mapped' = mapped /\ proc[a].pc = "recycle"
    BY <1>7 DEF SpanDescFree, At
  <2>2. DescKept(a) /\ Hand(a) = {d}
    BY <1>d, <2>1, WhenBusy DEF DescKept, Labels
  <2>3. CASE /\ proc[a].reset /\ spans' = spans
             /\ AfterNext(a, Head(proc[a].todo), Tail(proc[a].todo))
    <3>1. PICK h, todo : AfterNext(a, h, todo)
      BY <2>3
    <3>2. Settled(a)' = {} /\ Apart(a) /\ Settled(a) = {}
      BY <2>3, <3>1, NextSettled DEF Settled
    <3>3. LookKept
      BY <2>1, <2>2, <3>2, LookKeptBy
    <3> QED
      BY <3>1, <3>3, WorksNext
  <2>4. CASE Freed(a)
    <3>1. /\ Others(a) /\ proc'[a] = Idle /\ spans'[a] = List(a) /\ proc[a].todo = <<>>
          /\ \A b \in Arenas \ {a} : spans'[b] = spans[b]
      BY <2>4 DEF Freed
    <3>2. proc'[a].pc = "idle" /\ ~proc'[a].reset
      BY <3>1 DEF Idle
    <3>3. Apart(a) /\ Hand(a)' = {}
      BY <3>1, <3>2, ApartFrom DEF Hand, Busy
    <3>4. Settled(a)' = Stock(a)
      BY <3>1, <3>2, <3>3 DEF Settled, Stock
    <3>5. Settled(a) = Stock(a)
      <4>1. CASE proc[a].reset
        BY <3>1, <4>1, EmptyList DEF Settled, Stock, List
      <4>2. CASE ~proc[a].reset
        <5>1. d \notin Stock(a)
          BY <2>1, <2>2 DEF Handles, Listed
        <5> QED
          BY <2>2, <4>2, <5>1 DEF Settled, Stock, List
      <4> QED
        BY <4>1, <4>2
    <3>6. LookKept
      BY <2>1, <2>2, <3>3, <3>4, <3>5, LookKeptBy
    <3> QED
      BY <3>1, <3>2, <3>6 DEF Works, Looking
  <2> QED
    BY <1>7, <2>3, <2>4, FxFree
<1> QED
  BY <1>1, <1>2, <1>3, <1>4, <1>5, <1>6, <1>7

-------------------------------------------------------------------------------
(***************************************************************************)
(* A lookup under way, while the table it is in changes.                   *)
(***************************************************************************)
\* What a reader that seeks the unit w may meet: its own entry stays, nothing is
\* entered for it, and other entries come or are struck out.
Passes(ix, new, w) ==
  /\ new.cap = ix.cap
  /\ \A i \in 0 .. ix.cap - 1 :
       /\ InUse(new, i) /\ new.slot[i].unit = w => new.slot[i] = ix.slot[i]
       /\ Filed(ix, i, w) => Filed(new, i, w)
       /\ Full(ix, i) => /\ Full(new, i) /\ new.slot[i].unit = ix.slot[i].unit
                         /\ new.slot[i].span \in {ix.slot[i].span, MM_UNIT_TOMB}

LEMMA PassesSame == \A ix, w : Passes(ix, ix, w)
  BY DEF Passes

LEMMA OnTheWayKept ==
  ASSUME NEW ix \in TableType, NEW new, NEW p \in Addresses, NEW k \in Nat,
         Passes(ix, new, unit_of(p)), Covering(p)' = Covering(p), OnTheWay(ix, p, k)
  PROVE  OnTheWay(new, p, k)'
<1> DEFINE w == unit_of(p)
<1>1. new.cap = ix.cap /\ w \in 1 .. Units
  BY UnitOf DEF Passes
<1>2. \A m : Probe(new, w, m) = Probe(ix, w, m)
  BY <1>1, SameProbe
<1>3. \A m \in Nat : Probe(ix, w, m) \in 0 .. ix.cap - 1
  BY <1>1, ProbeIn
<1>c. ix.cap \in Nat \ {0}
  BY TableFields
<1>p. Passes(ix, new, w)
  OBVIOUS
<1> HIDE DEF w
<1>4. ASSUME NEW i \in 0 .. ix.cap - 1, InUse(new, i), new.slot[i].unit = w
      PROVE  new.slot[i].span \in Covering(p)
  <2>1. new.slot[i] = ix.slot[i]
    BY <1>4, <1>p DEF Passes
  <2>2. InUse(ix, i) /\ ix.slot[i].unit = w
    BY <1>4, <2>1 DEF InUse
  <2> QED
    BY <2>1, <2>2 DEF OnTheWay, Right, w
<1>5. ASSUME Covering(p) # {}
      PROVE  \E m \in k .. ix.cap - 1 :
               /\ Filed(new, Probe(new, w, m), w)
               /\ \A h \in k .. m - 1 : Full(new, Probe(new, w, h))
  <2>1. PICK m \in k .. ix.cap - 1 :
               /\ Filed(ix, Probe(ix, w, m), w)
               /\ \A h \in k .. m - 1 : Full(ix, Probe(ix, w, h))
    BY <1>5 DEF OnTheWay, w
  <2>2. m \in Nat /\ Probe(ix, w, m) \in 0 .. ix.cap - 1
    BY <1>3, <1>c
  <2>3. Filed(new, Probe(ix, w, m), w)
    BY <1>p, <2>1, <2>2 DEF Passes
  <2>4. ASSUME NEW h \in k .. m - 1 PROVE Full(new, Probe(ix, w, h))
    <3>1. h \in Nat /\ Full(ix, Probe(ix, w, h))
      BY <2>1, <2>2
    <3> QED
      BY <1>3, <1>p, <3>1 DEF Passes
  <2> QED
    BY <1>2, <2>3, <2>4
<1>6. /\ \A i \in 0 .. new.cap - 1 : InUse(new, i) /\ new.slot[i].unit = w => new.slot[i].span \in Covering(p)'
      /\ Covering(p)' # {} =>
           \E m \in k .. new.cap - 1 :
             /\ Filed(new, Probe(new, w, m), w)
             /\ \A h \in k .. m - 1 : Full(new, Probe(new, w, h))
  BY <1>1, <1>4, <1>5
<1> QED
  BY <1>6 DEF OnTheWay, Right, w, unit_of, InUse, Filed, Full, Probe, slot_for

LEMMA SeeksKept ==
  ASSUME Types, Custody, Lookups, NEW b \in Arenas, proc'[b] = proc[b], LookKept,
         proc[b].pc \in {"slot", "unit"} =>
           Passes(table[proc[b].t], table'[proc[b].t], unit_of(proc[b].p))
  PROVE  Seeks(b)'
<1>1. CASE proc[b].pc \notin Looking
  BY <1>1 DEF Seeks, Looking
<1>2. CASE proc[b].pc \in Looking
  <2>p. PICK p : p = proc[b].p
    OBVIOUS
  <2>t. PICK t : t = proc[b].t
    OBVIOUS
  <2>k. PICK k : k = proc[b].k
    OBVIOUS
  <2>i. PICK i : i = proc[b].i
    OBVIOUS
  <2>d. PICK d : d = proc[b].d
    OBVIOUS
  <2>new. PICK new : new = table'[t]
    OBVIOUS
  <2>1. Seeks(b) /\ p \in Addresses /\ Sought(p) /\ k \in Nat
    BY <1>2, <2>p, <2>k, WhenLooking DEF Lookups, Sought, ProcFields
  <2>2. Covering(p)' = Covering(p) /\ (unit_of(p) \notin mapped => unit_of(p) \notin mapped')
    BY <2>1 DEF LookKept
  <2>3. Covering(p) # {} \/ unit_of(p) \notin mapped
    BY <1>2, <2>p, <2>1 DEF Seeks
  <2>4. Covering(p)' # {} \/ unit_of(p) \notin mapped'
    BY <2>2, <2>3
  <2>5. proc[b].pc \in {"slot", "unit"} =>
           /\ k \in 0 .. new.cap /\ i = Probe(new, unit_of(p), k)
           /\ OnTheWay(new, p, k)'
    <3> SUFFICES ASSUME proc[b].pc \in {"slot", "unit"}
                 PROVE  /\ k \in 0 .. new.cap /\ i = Probe(new, unit_of(p), k)
                        /\ OnTheWay(new, p, k)'
      OBVIOUS
    <3>ix. PICK ix : ix = table[t]
      OBVIOUS
    <3>1. ix \in TableType
      BY <2>t, <3>ix, TableNow DEF Types
    <3>2. k \in 0 .. ix.cap /\ i = Probe(ix, unit_of(p), k) /\ OnTheWay(ix, p, k)
      BY <2>1, <2>p, <2>t, <2>k, <2>i, <3>ix DEF Seeks
    <3>3. Passes(ix, new, unit_of(p))
      BY <2>p, <2>t, <3>ix, <2>new
    <3>4. OnTheWay(new, p, k)'
      BY <2>1, <2>2, <3>1, <3>2, <3>3, OnTheWayKept
    <3>5. new.cap = ix.cap
      BY <3>3 DEF Passes
    <3>6. Probe(new, unit_of(p), k) = Probe(ix, unit_of(p), k)
      BY <3>5, SameProbe
    <3> QED
      BY <2>new, <3>2, <3>4, <3>5, <3>6
  <2>6. proc[b].pc = "unit" =>
           /\ k < new.cap /\ new.slot[i].span \in {d, MM_UNIT_TOMB}
           /\ d \notin {none, MM_UNIT_TOMB}
           /\ new.slot[i].unit = unit_of(p) => d \in Covering(p)
    <3> SUFFICES ASSUME proc[b].pc = "unit"
                 PROVE  /\ k < new.cap /\ new.slot[i].span \in {d, MM_UNIT_TOMB}
                        /\ d \notin {none, MM_UNIT_TOMB}
                        /\ new.slot[i].unit = unit_of(p) => d \in Covering(p)
      OBVIOUS
    <3>ix. PICK ix : ix = table[t]
      OBVIOUS
    <3>1. ix \in TableType
      BY <2>t, <3>ix, TableNow DEF Types
    <3>2. /\ k < ix.cap /\ ix.slot[i].span \in {d, MM_UNIT_TOMB} /\ d \notin {none, MM_UNIT_TOMB}
          /\ (ix.slot[i].unit = unit_of(p) => d \in Covering(p)) /\ i = Probe(ix, unit_of(p), k)
      BY <2>1, <2>p, <2>t, <2>k, <2>i, <2>d, <3>ix DEF Seeks, Right
    <3>3. Passes(ix, new, unit_of(p))
      BY <2>p, <2>t, <3>ix, <2>new
    <3>4. i \in 0 .. ix.cap - 1
      BY <2>1, <3>1, <3>2, UnitOf, ProbeIn
    <3>5. Full(ix, i)
      BY <3>2, Constants DEF Full, MM_UNIT_TOMB
    <3>6. new.slot[i].unit = ix.slot[i].unit /\ new.slot[i].span \in {ix.slot[i].span, MM_UNIT_TOMB} /\ new.cap = ix.cap
      BY <3>3, <3>4, <3>5 DEF Passes
    <3> QED
      BY <2>new, <3>2, <3>6
  <2>7. /\ proc[b].pc = "check" => d \in Covering(p)
        /\ proc[b].pc = "again" => Covering(p) = {}
        /\ proc[b].pc = "answer" => Covering(p) = IF d = none THEN {} ELSE {d}
    BY <2>1, <2>p, <2>d DEF Seeks, Right
  <2>8. table'[proc'[b].t] = new /\ proc'[b].p = p /\ proc'[b].t = t /\ proc'[b].k = k /\ proc'[b].i = i /\ proc'[b].d = d /\ proc'[b].pc = proc[b].pc
    BY <2>new, <2>p, <2>t, <2>k, <2>i, <2>d
  <2>9. proc[b].pc \in {"slot", "unit"} => OnTheWay(table[proc[b].t], proc[b].p, proc[b].k)'
    BY <2>5, <2>8
  <2> QED
    BY <2>1, <2>2, <2>4, <2>5, <2>6, <2>7, <2>8, <2>9 DEF Seeks, Right, unit_of, Probe, slot_for
<1> QED
  BY <1>1, <1>2

\* Every lookup under way may go on in the table it has.
Passing ==
  \A b \in Arenas : proc[b].pc \in {"slot", "unit"} =>
    Passes(table[proc[b].t], table'[proc[b].t], unit_of(proc[b].p))

LEMMA PassingSame ==
  ASSUME Types, \A t \in 1 .. Len(table) : table'[t] = table[t]
  PROVE  Passing
<1> SUFFICES ASSUME NEW b \in Arenas, proc[b].pc \in {"slot", "unit"}
             PROVE  Passes(table[proc[b].t], table'[proc[b].t], unit_of(proc[b].p))
  BY DEF Passing
<1>1. proc[b].t \in 1 .. Len(table)
  BY TableNow DEF Types
<1> QED
  BY <1>1, PassesSame

\* The table in use is changed in a way every reader may meet.
LEMMA PassingReplaced ==
  ASSUME Types, Custody, Lookups, NEW new, Replaced(new),
         \A p : Sought(p) => Passes(g_index, new, unit_of(p))
  PROVE  Passing
<1> SUFFICES ASSUME NEW b \in Arenas, proc[b].pc \in {"slot", "unit"}
             PROVE  Passes(table[proc[b].t], table'[proc[b].t], unit_of(proc[b].p))
  BY DEF Passing
<1>1. Len(table) \in Nat \ {0} /\ proc[b].t \in 1 .. Len(table)
  BY TableNow DEF Types
<1>2. Sought(proc[b].p)
  BY DEF Sought, Looking
<1>3. CASE proc[b].t = Len(table)
  <2>1. table[proc[b].t] = g_index /\ table'[proc[b].t] = new
    BY <1>3 DEF g_index, Replaced
  <2> QED
    BY <1>2, <2>1
<1>4. CASE proc[b].t # Len(table)
  <2>1. proc[b].t \in 1 .. Len(table) - 1
    BY <1>1, <1>4
  <2>2. table'[proc[b].t] = table[proc[b].t]
    BY <2>1 DEF Replaced
  <2> QED
    BY <2>2, PassesSame
<1> QED
  BY <1>3, <1>4

LEMMA PassingPutUnit ==
  ASSUME Types, Custody, Mappings, Index, Lookups, NEW a \in Arenas, PutUnit(a)
  PROVE  Passing
<1>1. PICK new, s : TxPutUnit(a, new, s)
  BY PutsUnit
<1>2. PICK ix : ix = g_index
  OBVIOUS
<1>3. /\ Replaced(new) /\ new.cap = ix.cap /\ s \in 0 .. ix.cap - 1 /\ ~Full(ix, s)
      /\ \A j \in 0 .. ix.cap - 1 : j # s => new.slot[j] = ix.slot[j]
      /\ \A j \in 0 .. ix.cap - 1 : new.slot[j].span = ix.slot[j].span
  BY <1>1, <1>2 DEF TxPutUnit, Prepared
<1>4. ASSUME NEW w, NEW i \in 0 .. ix.cap - 1
      PROVE  /\ InUse(new, i) /\ new.slot[i].unit = w => new.slot[i] = ix.slot[i]
             /\ Filed(ix, i, w) => Filed(new, i, w)
             /\ Full(ix, i) => /\ Full(new, i) /\ new.slot[i].unit = ix.slot[i].unit
                               /\ new.slot[i].span \in {ix.slot[i].span, MM_UNIT_TOMB}
  BY <1>3 DEF InUse, Filed, Full
<1>5. \A w : Passes(ix, new, w)
  BY <1>3, <1>4 DEF Passes
<1> QED
  BY <1>2, <1>3, <1>5, PassingReplaced

LEMMA PassingPutSpan ==
  ASSUME Types, Custody, Mappings, Index, Lookups, NEW a \in Arenas, PutSpan(a)
  PROVE  Passing
<1>1. PICK new, s : TxPutSpan(a, new, s)
  BY PutsSpan
<1>2. PICK ix : ix = g_index
  OBVIOUS
<1>u. PICK u : u = proc[a].u
  OBVIOUS
<1>d. PICK d : d = proc[a].d
  OBVIOUS
<1>3. /\ Replaced(new) /\ new.cap = ix.cap /\ s \in 0 .. ix.cap - 1 /\ ~Full(ix, s)
      /\ \A i \in 0 .. ix.cap - 1 : new.slot[i] = IF i = s THEN [unit |-> u, span |-> d] ELSE ix.slot[i]
  BY <1>1, <1>2, <1>u, <1>d DEF TxPutSpan, ChainEnd, EntryAt
<1>4. proc[a].pc = "span"
  BY DEF PutSpan, At
<1>5. ASSUME NEW p, Sought(p) PROVE Passes(ix, new, unit_of(p))
  <2>1. unit_of(p) # u
    <3>1. u \in UnitsOf(proc[a].d)
      BY <1>u, <1>4, AtUnit
    <3>2. unit_of(p) \notin UnitsOf(proc[a].d)
      BY <1>4, <1>5, NotAtHand DEF AtSpan, Busy
    <3> QED
      BY <3>1, <3>2
  <2>w. PICK w : w = unit_of(p)
    OBVIOUS
  <2>2. ASSUME NEW i \in 0 .. ix.cap - 1
        PROVE  /\ InUse(new, i) /\ new.slot[i].unit = w => new.slot[i] = ix.slot[i]
               /\ Filed(ix, i, w) => Filed(new, i, w)
               /\ Full(ix, i) => /\ Full(new, i) /\ new.slot[i].unit = ix.slot[i].unit
                                 /\ new.slot[i].span \in {ix.slot[i].span, MM_UNIT_TOMB}
    <3>1. CASE i = s
      <4>1. new.slot[i].unit = u
        BY <1>3, <3>1
      <4> QED
        BY <1>3, <2>1, <2>w, <3>1, <4>1 DEF Filed, Full
    <3>2. CASE i # s
      BY <1>3, <3>2 DEF Filed, Full
    <3> QED
      BY <3>1, <3>2
  <2> QED
    BY <1>3, <2>2, <2>w DEF Passes
<1> QED
  BY <1>2, <1>3, <1>5, PassingReplaced

LEMMA PassingDel ==
  ASSUME Types, Custody, Mappings, Index, Lookups, NEW a \in Arenas, IndexDel(a)
  PROVE  Passing
<1>1. PICK new, s : TxDel(a, new, s)
  BY Deletes
<1>2. PICK ix : ix = g_index
  OBVIOUS
<1>u. PICK u : u = proc[a].u
  OBVIOUS
<1>3. /\ Replaced(new) /\ new.cap = ix.cap /\ s \in 0 .. ix.cap - 1 /\ ix.slot[s].unit = u
      /\ \A j \in 0 .. ix.cap - 1 : j # s => new.slot[j] = ix.slot[j]
      /\ new.slot[s].unit = ix.slot[s].unit /\ new.slot[s].span = MM_UNIT_TOMB
  BY <1>1, <1>2, <1>u DEF TxDel, Buried
<1>4. proc[a].pc \in {"del", "undo"}
  BY DEF IndexDel
<1>5. ASSUME NEW p, Sought(p) PROVE Passes(ix, new, unit_of(p))
  <2>1. unit_of(p) # u
    <3>1. u \in UnitsOf(proc[a].d)
      BY <1>u, <1>4, AtUnit
    <3>2. unit_of(p) \notin UnitsOf(proc[a].d)
      BY <1>4, <1>5, NotAtHand DEF AtSpan, Busy
    <3> QED
      BY <3>1, <3>2
  <2>w. PICK w : w = unit_of(p)
    OBVIOUS
  <2>2. ASSUME NEW i \in 0 .. ix.cap - 1
        PROVE  /\ InUse(new, i) /\ new.slot[i].unit = w => new.slot[i] = ix.slot[i]
               /\ Filed(ix, i, w) => Filed(new, i, w)
               /\ Full(ix, i) => /\ Full(new, i) /\ new.slot[i].unit = ix.slot[i].unit
                                 /\ new.slot[i].span \in {ix.slot[i].span, MM_UNIT_TOMB}
    <3>1. CASE i = s
      <4>1. MM_UNIT_TOMB # none
        BY Constants DEF MM_UNIT_TOMB
      <4> QED
        BY <1>3, <2>1, <2>w, <3>1, <4>1 DEF Filed, Full
    <3>2. CASE i # s
      BY <1>3, <3>2 DEF Filed, Full
    <3> QED
      BY <3>1, <3>2
  <2> QED
    BY <1>3, <2>2, <2>w DEF Passes
<1> QED
  BY <1>2, <1>3, <1>5, PassingReplaced

Writes(a) ==
  \/ \E n \in 1 .. 2 : SpanDescAlloc(a, n)
  \/ MapChunk(a) \/ RegisterBegin(a) \/ IndexRehash(a) \/ IndexRehashFails(a)
  \/ PutUnit(a) \/ PutSpan(a)
  \/ \E d \in DOMAIN desc : ReleaseSpan(a, d)
  \/ ArenaReset(a) \/ UnregisterBegin(a) \/ IndexDel(a) \/ Disown(a) \/ Unmap(a) \/ SpanDescFree(a)

LEMMA PassingWrites ==
  ASSUME IInv, NEW a \in Arenas, Writes(a)
  PROVE  Passing
<1>0. Types /\ Custody /\ Mappings /\ Index /\ Lookups
  BY DEF IInv
<1> USE <1>0
<1>1. CASE table' = table
  BY <1>1, PassingSame
<1>2. CASE IndexRehash(a)
  BY <1>2, Rehashes, PassingSame DEF TxRehash
<1>3. CASE PutUnit(a)
  BY <1>3, PassingPutUnit
<1>4. CASE PutSpan(a)
  BY <1>4, PassingPutSpan
<1>5. CASE IndexDel(a)
  BY <1>5, PassingDel
<1>6. ASSUME \/ \E n \in 1 .. 2 : SpanDescAlloc(a, n)
             \/ MapChunk(a) \/ RegisterBegin(a) \/ IndexRehashFails(a)
             \/ \E d \in DOMAIN desc : ReleaseSpan(a, d)
             \/ ArenaReset(a) \/ UnregisterBegin(a) \/ Disown(a) \/ Unmap(a) \/ SpanDescFree(a)
      PROVE  table' = table
  BY <1>6 DEF SpanDescAlloc, MapChunk, RegisterBegin, IndexRehashFails, ReleaseSpan, ArenaReset,
              UnregisterBegin, Disown, Unmap, SpanDescFree, indexVars
<1> QED
  BY <1>1, <1>2, <1>3, <1>4, <1>5, <1>6 DEF Writes

LEMMA SeeksWrites ==
  ASSUME IInv, NEW a \in Arenas, Writes(a)
  PROVE  \A b \in Arenas : Seeks(b)'
<1>1. Types /\ Custody /\ Lookups /\ Passing
  BY PassingWrites DEF IInv
<1>2. Works(a)
  BY WorksRegister, WorksRelease DEF Writes
<1>3. LookKept /\ Others(a) /\ proc'[a].pc \notin Looking
  BY <1>2 DEF Works
<1>4. Seeks(a)'
  BY <1>3 DEF Seeks, Looking
<1>5. ASSUME NEW b \in Arenas \ {a} PROVE Seeks(b)'
  <2>1. proc'[b] = proc[b]
    BY <1>3 DEF Others
  <2>2. proc[b].pc \in {"slot", "unit"} => Passes(table[proc[b].t], table'[proc[b].t], unit_of(proc[b].p))
    BY <1>1 DEF Passing
  <2> QED
    BY <1>1, <1>3, <2>1, <2>2, SeeksKept
<1> QED
  BY <1>4, <1>5

-------------------------------------------------------------------------------
(***************************************************************************)
(* The steps of a lookup itself.                                           *)
(***************************************************************************)
LEMMA PeekKept ==
  ASSUME Types, Custody, Types', Custody', NEW a \in Arenas, Peek(a)
  PROVE  LookKept /\ (\A p : Covering(p)' = Covering(p)) /\ mapped' = mapped /\ table' = table
<1>1. /\ Apart(a) /\ Hand(a) = {} /\ Hand(a)' = {} /\ ~proc[a].reset /\ ~proc'[a].reset
      /\ desc' = desc /\ mapped' = mapped /\ table' = table /\ spans' = spans
  BY DEF Peek, Quiet
<1>2. Settled(a)' = Settled(a) /\ DescKept(a)
  BY <1>1 DEF Settled, DescKept
<1> QED
  BY <1>1, <1>2, LookKeptBy

\* Seeks(a), of the fields a step of the lookup gives.
Sees(pc, d, p, t, i, k) ==
  /\ p \in Addresses /\ (Covering(p) # {} \/ unit_of(p) \notin mapped)
  /\ pc \in {"slot", "unit"} =>
       /\ table[t] \in TableType /\ k \in 0 .. table[t].cap /\ i = Probe(table[t], unit_of(p), k)
       /\ OnTheWay(table[t], p, k)
  /\ pc = "unit" =>
       /\ k < table[t].cap /\ table[t].slot[i].span \in {d, MM_UNIT_TOMB}
       /\ d \notin {none, MM_UNIT_TOMB}
       /\ table[t].slot[i].unit = unit_of(p) => d \in Covering(p)
  /\ pc = "check" => d \in Covering(p)
  /\ pc = "again" => Covering(p) = {}
  /\ pc = "answer" => Covering(p) = IF d = none THEN {} ELSE {d}

LEMMA SeeksSelf ==
  ASSUME Types, Custody, Types', Custody', NEW a \in Arenas, Peek(a),
         NEW pc, NEW d, NEW p, NEW t, NEW i, NEW k, Looks(a, pc, d, p, t, i, k), Sees(pc, d, p, t, i, k)
  PROVE  Seeks(a)'
<1>1. (\A q : Covering(q)' = Covering(q)) /\ mapped' = mapped /\ table' = table
  BY PeekKept
<1>2. proc'[a].pc = pc /\ proc'[a].d = d /\ proc'[a].p = p /\ proc'[a].t = t /\ proc'[a].i = i /\ proc'[a].k = k
  BY DEF Looks
<1>new. PICK new : new = table[t]
  OBVIOUS
<1>3. pc \in {"slot", "unit"} => OnTheWay(new, p, k)'
  <2> SUFFICES ASSUME pc \in {"slot", "unit"} PROVE OnTheWay(new, p, k)'
    OBVIOUS
  <2>1. new \in TableType /\ k \in Nat /\ OnTheWay(new, p, k) /\ p \in Addresses
    BY <1>new, TableFields DEF Sees
  <2>2. Passes(new, new, unit_of(p)) /\ Covering(p)' = Covering(p)
    BY <1>1, PassesSame
  <2> QED
    BY <2>1, <2>2, OnTheWayKept
<1>4. pc \in {"slot", "unit"} => OnTheWay(table[proc[a].t], proc[a].p, proc[a].k)'
  BY <1>new, <1>1, <1>2, <1>3
<1>5. Covering(p)' = Covering(p)
  BY <1>1
<1>6. Sees(pc, d, p, t, i, k)
  OBVIOUS
<1> QED
  BY <1>1, <1>2, <1>4, <1>5, <1>6 DEF Sees, Seeks, Right, unit_of, Probe, slot_for

\* The table in use leads to the entry of an address.
LEMMA FreshWay ==
  ASSUME Types, Custody, Mappings, Index, NEW p \in Addresses, Covering(p) # {} \/ unit_of(p) \notin mapped
  PROVE  OnTheWay(g_index, p, 0)
<1>w. PICK w : w = unit_of(p)
  OBVIOUS
<1>0. w \in Nat /\ w \in 1 .. Units
  BY <1>w, UnitOf, Constants
<1>1. ASSUME NEW i \in 0 .. g_index.cap - 1, InUse(g_index, i), g_index.slot[i].unit = w
      PROVE  g_index.slot[i].span \in Covering(p)
  <2>d. PICK d : d = g_index.slot[i].span
    OBVIOUS
  <2>1. PICK b \in Arenas : Due(b, w, d)
    BY <1>1, <2>d, EntryDue
  <2>2. d \in Standing(b) /\ w \in UnitsOf(d) /\ w \in mapped
    BY <2>1, DueUnits
  <2>3. PICK e : e \in Covering(p)
    BY <1>w, <2>2
  <2>4. PICK c \in Arenas : e \in Standing(c) /\ w \in UnitsOf(e)
    BY <1>w, <2>3, CoveredBy
  <2>5. e = d
    BY <2>2, <2>4, OneStanding
  <2> QED
    BY <2>d, <2>3, <2>5
<1>2. ASSUME NEW e \in Covering(p)
      PROVE  \E m \in 0 .. g_index.cap - 1 :
               /\ Filed(g_index, Probe(g_index, w, m), w)
               /\ \A h \in 0 .. m - 1 : Full(g_index, Probe(g_index, w, h))
  <2>1. PICK b \in Arenas : e \in Settled(b)
    BY CoveredBy
  <2>2. w \in UnitsOf(e) /\ e \in Nat \ {0} /\ e # none
    BY <1>w, CoveredBy
  <2>3. Due(b, w, e)
    BY <2>1, <2>2, SettledIn DEF Due
  <2>4. Entered(g_index, w, e)
    BY <1>0, <2>2, <2>3 DEF Index, Exact
  <2>5. PICK i \in 0 .. g_index.cap - 1 : g_index.slot[i] = [unit |-> w, span |-> e]
    BY <2>4 DEF Entered
  <2>6. g_index.slot[i].unit = w /\ g_index.slot[i].span = e
    BY <2>5
  <2>7. InUse(g_index, i) /\ Filed(g_index, i, w)
    BY <2>2, <2>6 DEF InUse, Filed, MM_UNIT_TOMB
  <2>8. Reached(g_index, i)
    BY <2>7 DEF Index, Chained
  <2> QED
    BY <2>6, <2>7, <2>8 DEF Reached
<1> QED
  BY <1>w, <1>1, <1>2 DEF OnTheWay, Right

\* Past a slot that does not have the entry.
LEMMA Onward ==
  ASSUME NEW ix \in TableType, NEW p \in Addresses, NEW k \in 0 .. ix.cap, k # ix.cap,
         OnTheWay(ix, p, k), ~Filed(ix, Probe(ix, unit_of(p), k), unit_of(p))
  PROVE  /\ k + 1 \in 0 .. ix.cap /\ (Probe(ix, unit_of(p), k) + 1) % ix.cap = Probe(ix, unit_of(p), k + 1)
         /\ OnTheWay(ix, p, k + 1)
<1>w. PICK w : w = unit_of(p)
  OBVIOUS
<1>1. ix.cap \in Nat \ {0} /\ k \in 0 .. ix.cap - 1 /\ w \in 1 .. Units /\ k \in Nat
  BY <1>w, TableFields, UnitOf
<1>2. (Probe(ix, w, k) + 1) % ix.cap = Probe(ix, w, k + 1)
  BY <1>1, ProbeIn
<1>3. ASSUME Covering(p) # {}
      PROVE  \E m \in k + 1 .. ix.cap - 1 :
               /\ Filed(ix, Probe(ix, w, m), w)
               /\ \A h \in k + 1 .. m - 1 : Full(ix, Probe(ix, w, h))
  <2>1. PICK m \in k .. ix.cap - 1 :
               /\ Filed(ix, Probe(ix, w, m), w)
               /\ \A h \in k .. m - 1 : Full(ix, Probe(ix, w, h))
    BY <1>w, <1>3 DEF OnTheWay
  <2>2. m # k
    BY <1>w, <2>1
  <2>3. m \in k + 1 .. ix.cap - 1 /\ \A h \in k + 1 .. m - 1 : h \in k .. m - 1
    BY <1>1, <2>2
  <2> QED
    BY <2>1, <2>3
<1>4. k + 1 \in 0 .. ix.cap
  BY <1>1
<1> QED
  BY <1>w, <1>2, <1>3, <1>4 DEF OnTheWay

\* Where the chain ends there is nothing to find.
LEMMA DeadEnd ==
  ASSUME NEW ix \in TableType, NEW p \in Addresses, NEW k \in 0 .. ix.cap, OnTheWay(ix, p, k),
         k = ix.cap \/ ix.slot[Probe(ix, unit_of(p), k)].span = none
  PROVE  Covering(p) = {}
<1> SUFFICES ASSUME Covering(p) # {} PROVE FALSE
  OBVIOUS
<1>w. PICK w : w = unit_of(p)
  OBVIOUS
<1>1. PICK m \in k .. ix.cap - 1 :
               /\ Filed(ix, Probe(ix, w, m), w)
               /\ \A h \in k .. m - 1 : Full(ix, Probe(ix, w, h))
  BY <1>w DEF OnTheWay
<1>2. ix.cap \in Nat \ {0}
  BY TableFields
<1>3. k # ix.cap
  BY <1>1, <1>2
<1>4. ~Filed(ix, Probe(ix, w, k), w) /\ ~Full(ix, Probe(ix, w, k))
  BY <1>w, <1>3 DEF Filed, Full
<1>5. m # k
  BY <1>1, <1>4
<1>6. k \in k .. m - 1
  BY <1>2, <1>5
<1> QED
  BY <1>1, <1>4, <1>6

\* What a lookup knows at its slot.
LEMMA AtSlot ==
  ASSUME Types, Custody, Lookups, NEW a \in Arenas, proc[a].pc \in {"slot", "unit"}
  PROVE  /\ table[proc[a].t] \in TableType /\ proc[a].p \in Addresses /\ proc[a].k \in 0 .. table[proc[a].t].cap
         /\ proc[a].i = Probe(table[proc[a].t], unit_of(proc[a].p), proc[a].k)
         /\ OnTheWay(table[proc[a].t], proc[a].p, proc[a].k)
         /\ Covering(proc[a].p) # {} \/ unit_of(proc[a].p) \notin mapped
         /\ (proc[a].k # table[proc[a].t].cap => proc[a].i \in 0 .. table[proc[a].t].cap - 1)
<1>1. Seeks(a) /\ proc[a].pc \in Looking /\ ProcFields(proc[a])
  BY TypesOf DEF Lookups, Looking
<1>2. table[proc[a].t] \in TableType
  BY TableNow DEF Types
<1>3. /\ proc[a].p \in Addresses /\ proc[a].k \in 0 .. table[proc[a].t].cap
      /\ proc[a].i = Probe(table[proc[a].t], unit_of(proc[a].p), proc[a].k)
      /\ OnTheWay(table[proc[a].t], proc[a].p, proc[a].k)
      /\ Covering(proc[a].p) # {} \/ unit_of(proc[a].p) \notin mapped
  BY <1>1 DEF Seeks
<1>4. proc[a].i \in 0 .. table[proc[a].t].cap - 1
  <2>1. PICK ix : ix = table[proc[a].t]
    OBVIOUS
  <2>2. PICK w : w = unit_of(proc[a].p)
    OBVIOUS
  <2>3. ix \in TableType /\ w \in 1 .. Units /\ proc[a].k \in Nat
    BY <1>1, <1>2, <1>3, <2>1, <2>2, UnitOf DEF ProcFields
  <2>4. Probe(ix, w, proc[a].k) \in 0 .. ix.cap - 1
    BY <2>3, ProbeIn
  <2> QED
    BY <1>3, <2>1, <2>2, <2>4
<1> QED
  BY <1>2, <1>3, <1>4

LEMMA SeesOnward ==
  ASSUME Types, Custody, Lookups, NEW a \in Arenas, proc[a].pc \in {"slot", "unit"},
         proc[a].k # table[proc[a].t].cap,
         ~Filed(table[proc[a].t], proc[a].i, unit_of(proc[a].p)), NEW d
  PROVE  Sees("slot", d, proc[a].p, proc[a].t, (proc[a].i + 1) % table[proc[a].t].cap, proc[a].k + 1)
<1>ix. PICK ix : ix = table[proc[a].t]
  OBVIOUS
<1>k. PICK k : k = proc[a].k
  OBVIOUS
<1>p. PICK p : p = proc[a].p
  OBVIOUS
<1>i. PICK i : i = proc[a].i
  OBVIOUS
<1>1. /\ ix \in TableType /\ p \in Addresses /\ k \in 0 .. ix.cap /\ k # ix.cap /\ i = Probe(ix, unit_of(p), k)
      /\ OnTheWay(ix, p, k) /\ ~Filed(ix, i, unit_of(p)) /\ (Covering(p) # {} \/ unit_of(p) \notin mapped)
  BY <1>ix, <1>k, <1>p, <1>i, AtSlot
<1>2. k + 1 \in 0 .. ix.cap /\ (i + 1) % ix.cap = Probe(ix, unit_of(p), k + 1) /\ OnTheWay(ix, p, k + 1)
  BY <1>1, Onward
<1> QED
  BY <1>ix, <1>k, <1>p, <1>i, <1>1, <1>2 DEF Sees

LEMMA SeeksPeek ==
  ASSUME IInv, NEW a \in Arenas,
         \/ \E p \in Addresses, keep \in BOOLEAN : Lookup(a, p, keep)
         \/ LoadIndex(a) \/ LoadSpan(a) \/ LoadUnit(a) \/ MissAgain(a)
         \/ CheckDescriptor(a) \/ Answer(a)
  PROVE  Seeks(a)'
<1>0. Types /\ Custody /\ Mappings /\ Index /\ Lookups /\ Types' /\ Custody' /\ Seeks(a) /\ Cached(a)
  BY TypesLooks, CustodyLooks DEF IInv, Lookups
<1> USE <1>0
<1>peek. Peek(a)
  BY Peeks
<1>look. ASSUME proc[a].pc \in Looking
         PROVE  /\ proc[a].p \in Addresses
                /\ Covering(proc[a].p) # {} \/ unit_of(proc[a].p) \notin mapped
  BY <1>look DEF Seeks
<1>1. ASSUME NEW p \in Addresses, NEW keep \in BOOLEAN, Lookup(a, p, keep) PROVE Seeks(a)'
  <2>1. At(a, "idle") /\ (Covering(p) # {} \/ unit_of(p) \notin mapped)
    BY <1>1 DEF Lookup, Usable
  <2>2. CASE Looks(a, "load", none, p, proc[a].t, proc[a].i, proc[a].k)
    <3>1. Sees("load", none, p, proc[a].t, proc[a].i, proc[a].k)
      BY <2>1 DEF Sees
    <3> QED
      BY <1>peek, <2>2, <3>1, SeeksSelf
  <2>3. CASE /\ Looks(a, "answer", cache[a], p, proc[a].t, proc[a].i, proc[a].k)
             /\ cache[a] # none /\ Inside(p, cache[a])
    <3>1. Hand(a) = {} /\ ~proc[a].reset
      BY <2>1, WhenIdle
    <3>2. cache[a] \in Range(spans[a])
      BY <2>3, <3>1 DEF Cached
    <3>3. cache[a] \in Settled(a)
      BY <3>1, <3>2 DEF Settled
    <3>4. cache[a] \in Covering(p)
      BY <2>3, <3>3, CoveringOf
    <3>5. Covering(p) = {cache[a]}
      BY <3>4, CoveredBy
    <3>6. Sees("answer", cache[a], p, proc[a].t, proc[a].i, proc[a].k)
      BY <2>1, <2>3, <3>5 DEF Sees
    <3> QED
      BY <1>peek, <2>3, <3>6, SeeksSelf
  <2> QED
    BY <1>1, <2>2, <2>3, FxLookup
<1>2. CASE LoadIndex(a)
  <2>1. proc[a].pc \in Looking
    BY <1>2 DEF LoadIndex, At, Looking
  <2>2. PICK p : p = proc[a].p
    OBVIOUS
  <2>3. p \in Addresses /\ (Covering(p) # {} \/ unit_of(p) \notin mapped)
    BY <1>look, <2>1, <2>2
  <2>4. OnTheWay(g_index, p, 0)
    BY <2>3, FreshWay
  <2>5. table[Len(table)] = g_index /\ g_index \in TableType
    BY TableNow DEF g_index, Types
  <2>6. Probe(g_index, unit_of(p), 0) = slot_for(unit_of(p), g_index.cap) /\ 0 \in 0 .. g_index.cap
    BY <2>3, <2>5, UnitOf, ProbeIn, TableFields
  <2>7. Sees("slot", proc[a].d, p, Len(table), slot_for(unit_of(p), g_index.cap), 0)
    BY <2>3, <2>4, <2>5, <2>6 DEF Sees
  <2>8. Looks(a, "slot", proc[a].d, p, Len(table), slot_for(unit_of(p), g_index.cap), 0)
    BY <1>2, <2>2, FxLoadIndex
  <2> QED
    BY <1>peek, <2>7, <2>8, SeeksSelf
<1>3. CASE LoadSpan(a)
  <2>at. proc[a].pc \in {"slot", "unit"}
    BY <1>3 DEF LoadSpan, At
  <2>ix. PICK ix : ix = table[proc[a].t]
    OBVIOUS
  <2>s. PICK s : s = ix.slot[proc[a].i].span
    OBVIOUS
  <2>1. /\ ix \in TableType /\ proc[a].p \in Addresses /\ proc[a].k \in 0 .. ix.cap
        /\ proc[a].i = Probe(ix, unit_of(proc[a].p), proc[a].k) /\ OnTheWay(ix, proc[a].p, proc[a].k)
        /\ Covering(proc[a].p) # {} \/ unit_of(proc[a].p) \notin mapped
        /\ (proc[a].k # ix.cap => proc[a].i \in 0 .. ix.cap - 1)
    BY <2>at, <2>ix, AtSlot
  <2>2. CASE /\ proc[a].k = ix.cap \/ s = none
             /\ Looks(a, "again", proc[a].d, proc[a].p, proc[a].t, proc[a].i, proc[a].k)
    <3>1. Covering(proc[a].p) = {}
      BY <2>s, <2>1, <2>2, DeadEnd
    <3>2. Sees("again", proc[a].d, proc[a].p, proc[a].t, proc[a].i, proc[a].k)
      BY <2>1, <3>1 DEF Sees
    <3> QED
      BY <1>peek, <2>2, <3>2, SeeksSelf
  <2>3. CASE /\ proc[a].k # ix.cap /\ s = MM_UNIT_TOMB
             /\ Looks(a, "slot", proc[a].d, proc[a].p, proc[a].t,
                            (proc[a].i + 1) % ix.cap, proc[a].k + 1)
    <3>i. PICK i : i = (proc[a].i + 1) % ix.cap
      OBVIOUS
    <3>k. PICK k : k = proc[a].k + 1
      OBVIOUS
    <3>1. ~Filed(ix, proc[a].i, unit_of(proc[a].p))
      BY <2>s, <2>3 DEF Filed
    <3>2. Sees("slot", proc[a].d, proc[a].p, proc[a].t, i, k)
      BY <2>at, <2>ix, <2>3, <3>i, <3>k, <3>1, SeesOnward
    <3>3. Looks(a, "slot", proc[a].d, proc[a].p, proc[a].t, i, k)
      BY <2>3, <3>i, <3>k
    <3> QED
      BY <1>peek, <3>2, <3>3, SeeksSelf
  <2>4. CASE /\ proc[a].k # ix.cap /\ s \notin {none, MM_UNIT_TOMB}
             /\ Looks(a, "unit", s, proc[a].p, proc[a].t, proc[a].i, proc[a].k)
    <3>1. InUse(ix, proc[a].i) /\ proc[a].i \in 0 .. ix.cap - 1
      BY <2>s, <2>1, <2>4 DEF InUse
    <3>2. ix.slot[proc[a].i].unit = unit_of(proc[a].p) => s \in Covering(proc[a].p)
      BY <2>s, <2>1, <3>1 DEF OnTheWay, Right
    <3>3. proc[a].k < ix.cap
      BY <2>1, <2>4, TableFields
    <3>4. Sees("unit", s, proc[a].p, proc[a].t, proc[a].i, proc[a].k)
      BY <2>ix, <2>s, <2>1, <2>4, <3>2, <3>3 DEF Sees
    <3> QED
      BY <1>peek, <2>4, <3>4, SeeksSelf
  <2> QED
    BY <1>3, <2>ix, <2>s, <2>2, <2>3, <2>4, FxLoadSpan
<1>4. CASE LoadUnit(a)
  <2>at. proc[a].pc = "unit"
    BY <1>4 DEF LoadUnit, At
  <2>ix. PICK ix : ix = table[proc[a].t]
    OBVIOUS
  <2>v. PICK v : v = ix.slot[proc[a].i].unit
    OBVIOUS
  <2>1. /\ ix \in TableType /\ proc[a].p \in Addresses /\ proc[a].k \in 0 .. ix.cap
        /\ Covering(proc[a].p) # {} \/ unit_of(proc[a].p) \notin mapped
    BY <2>at, <2>ix, AtSlot
  <2>2. proc[a].k < ix.cap /\ (v = unit_of(proc[a].p) => proc[a].d \in Covering(proc[a].p))
    BY <2>at, <2>ix, <2>v DEF Seeks, Right
  <2>3. CASE /\ v = unit_of(proc[a].p)
             /\ Looks(a, "check", proc[a].d, proc[a].p, proc[a].t, proc[a].i, proc[a].k)
    <3>1. Sees("check", proc[a].d, proc[a].p, proc[a].t, proc[a].i, proc[a].k)
      BY <2>1, <2>2, <2>3 DEF Sees
    <3> QED
      BY <1>peek, <2>3, <3>1, SeeksSelf
  <2>4. CASE /\ v # unit_of(proc[a].p)
             /\ Looks(a, "slot", proc[a].d, proc[a].p, proc[a].t,
                            (proc[a].i + 1) % ix.cap, proc[a].k + 1)
    <3>i. PICK i : i = (proc[a].i + 1) % ix.cap
      OBVIOUS
    <3>k. PICK k : k = proc[a].k + 1
      OBVIOUS
    <3>1. ~Filed(ix, proc[a].i, unit_of(proc[a].p))
      BY <2>v, <2>4 DEF Filed
    <3>0. proc[a].k # ix.cap
      BY <2>1, <2>2, TableFields
    <3>2. Sees("slot", proc[a].d, proc[a].p, proc[a].t, i, k)
      BY <2>at, <2>ix, <2>4, <3>0, <3>i, <3>k, <3>1, SeesOnward
    <3>3. Looks(a, "slot", proc[a].d, proc[a].p, proc[a].t, i, k)
      BY <2>4, <3>i, <3>k
    <3> QED
      BY <1>peek, <3>2, <3>3, SeeksSelf
  <2> QED
    BY <1>4, <2>ix, <2>v, <2>3, <2>4, FxLoadUnit
<1>5. CASE MissAgain(a)
  <2>1. proc[a].pc = "again" /\ proc[a].pc \in Looking
    BY <1>5 DEF MissAgain, At, Looking
  <2>2. Covering(proc[a].p) = {}
    BY <2>1 DEF Seeks
  <2>3. PICK pc \in {"answer", "load"} : Looks(a, pc, none, proc[a].p, proc[a].t, proc[a].i, proc[a].k)
    BY <1>5, FxMissAgain
  <2>4. Sees(pc, none, proc[a].p, proc[a].t, proc[a].i, proc[a].k)
    BY <1>look, <2>1, <2>2 DEF Sees
  <2> QED
    BY <1>peek, <2>3, <2>4, SeeksSelf
<1>6. CASE CheckDescriptor(a)
  <2>1. proc[a].pc = "check" /\ proc[a].pc \in Looking
    BY <1>6 DEF CheckDescriptor, At, Looking
  <2>2. proc[a].d \in Covering(proc[a].p) /\ proc[a].p \in Addresses
    BY <1>look, <2>1 DEF Seeks, Right
  <2>3. PICK b \in Arenas : SpanMarked(b, proc[a].d)
    BY <2>2, CoveredBy
  <2>4. /\ Inside(proc[a].p, proc[a].d) /\ Covering(proc[a].p) = {proc[a].d} /\ proc[a].d # none
        /\ desc[proc[a].d].magic
    BY <2>2, <2>3, CoveredBy DEF SpanMarked
  <2>5. Looks(a, "answer", proc[a].d, proc[a].p, proc[a].t, proc[a].i, proc[a].k)
    BY <1>6, <2>4, FxCheck
  <2>6. Sees("answer", proc[a].d, proc[a].p, proc[a].t, proc[a].i, proc[a].k)
    BY <1>look, <2>1, <2>4 DEF Sees
  <2> QED
    BY <1>peek, <2>5, <2>6, SeeksSelf
<1>7. CASE Answer(a)
  <2>1. proc'[a].pc = "idle"
    BY <1>7, FxAnswer DEF Idle
  <2> QED
    BY <2>1 DEF Seeks, Looking
<1> QED
  BY <1>1, <1>2, <1>3, <1>4, <1>5, <1>6, <1>7

-------------------------------------------------------------------------------
(***************************************************************************)
(* The caches.                                                             *)
(***************************************************************************)
\* An arena's cache changes by the arena's own steps.
CacheApart(a) == \A b \in Arenas \ {a} : cache'[b] = cache[b]

LEMMA CachedOthers ==
  ASSUME Lookups, NEW a \in Arenas, Apart(a), CacheApart(a), NEW b \in Arenas \ {a}
  PROVE  Cached(b)'
<1>1. Cached(b) /\ proc'[b] = proc[b] /\ spans'[b] = spans[b] /\ cache'[b] = cache[b]
  BY DEF Lookups, Apart, CacheApart
<1> QED
  BY <1>1 DEF Cached

\* An operation goes on, and is not at a span's removal unless it was.
LEMMA CachedOn ==
  ASSUME Lookups, NEW a \in Arenas, cache' = cache, spans' = spans,
         NEW pc, NEW d, NEW n, NEW u, NEW end, After(a, pc, d, n, u, end),
         pc \in {"del", "disown"} => proc[a].pc \in {"del", "disown"} /\ d = proc[a].d
  PROVE  Cached(a)' /\ CacheApart(a) /\ Apart(a)
<1>1. Cached(a) /\ Apart(a) /\ CacheApart(a)
  BY AfterList DEF Lookups, CacheApart
<1>2. proc'[a].pc = pc /\ proc'[a].d = d /\ (proc'[a].reset <=> proc[a].reset)
  BY DEF After
<1> QED
  BY <1>1, <1>2 DEF Cached

LEMMA CachedNext ==
  ASSUME NEW a \in Arenas, cache' = cache, spans' = spans, NEW d, NEW todo, AfterNext(a, d, todo)
  PROVE  Cached(a)' /\ CacheApart(a) /\ Apart(a)
<1>1. proc'[a].reset /\ Apart(a) /\ CacheApart(a)
  BY NextSettled DEF AfterNext, CacheApart
<1> QED
  BY <1>1 DEF Cached

LEMMA CachedRegister ==
  ASSUME IInv, NEW a \in Arenas,
         \/ \E n \in 1 .. 2 : SpanDescAlloc(a, n)
         \/ MapChunk(a) \/ RegisterBegin(a) \/ IndexRehash(a) \/ IndexRehashFails(a)
         \/ PutUnit(a) \/ PutSpan(a)
  PROVE  Cached(a)' /\ CacheApart(a) /\ Apart(a)
<1>0. Types /\ Custody /\ Lookups /\ Cached(a)
  BY DEF IInv, Lookups
<1> USE <1>0
<1>d. PICK d : d = proc[a].d
  OBVIOUS
<1>1. ASSUME NEW n \in 1 .. 2, SpanDescAlloc(a, n) PROVE Cached(a)' /\ CacheApart(a) /\ Apart(a)
  <2>1. cache' = cache /\ spans' = spans
    BY <1>1 DEF SpanDescAlloc, arenaVars
  <2>2. PICK e : After(a, "map", e, n, proc[a].u, proc[a].end)
    BY <1>1, FxAlloc
  <2> QED
    BY <2>1, <2>2, CachedOn
<1>2. CASE MapChunk(a)
  <2>1. cache' = cache /\ spans' = spans
    BY <1>2 DEF MapChunk, arenaVars
  <2>2. PICK pc \in {"register", "recycle"} : After(a, pc, d, proc[a].n, proc[a].u, proc[a].end)
    BY <1>2, <1>d, FxMap DEF MapGives
  <2> QED
    BY <2>1, <2>2, CachedOn
<1>3. CASE RegisterBegin(a)
  <2>1. cache' = cache /\ spans' = spans
    BY <1>3 DEF RegisterBegin, arenaVars
  <2>2. PICK u, end : After(a, "add", d, proc[a].n, u, end)
    BY <1>3, <1>d, FxRegister
  <2> QED
    BY <2>1, <2>2, CachedOn
<1>4. CASE IndexRehash(a)
  <2>1. cache' = cache /\ spans' = spans /\ proc' = proc
    BY <1>4 DEF IndexRehash, arenaVars
  <2> QED
    BY <2>1 DEF Cached, CacheApart, Apart
<1>5. CASE IndexRehashFails(a)
  <2>1. cache' = cache /\ spans' = spans
    BY <1>5 DEF IndexRehashFails, arenaVars
  <2>2. PICK pc \in {"unmap", "undo"} : \E u, end : After(a, pc, d, proc[a].n, u, end)
    BY <1>5, <1>d, FxFails
  <2>3. PICK u, end : After(a, pc, d, proc[a].n, u, end)
    BY <2>2
  <2> QED
    BY <2>1, <2>3, CachedOn
<1>6. CASE PutUnit(a)
  <2>1. cache' = cache /\ spans' = spans
    BY <1>6 DEF PutUnit, arenaVars
  <2>2. After(a, "span", d, proc[a].n, proc[a].u, proc[a].end)
    BY <1>6, <1>d, FxPutUnit
  <2> QED
    BY <2>1, <2>2, CachedOn
<1>7. CASE PutSpan(a)
  <2>1. cache' = cache /\ proc[a].pc = "span"
    BY <1>7 DEF PutSpan, At
  <2>2. CASE /\ spans' = spans
             /\ After(a, "add", proc[a].d, proc[a].n, proc[a].u + 1, proc[a].end)
    <3>1. PICK u : u = proc[a].u + 1
      OBVIOUS
    <3>2. After(a, "add", d, proc[a].n, u, proc[a].end)
      BY <1>d, <2>2, <3>1
    <3> QED
      BY <2>1, <2>2, <3>2, CachedOn
  <2>3. CASE PutLast(a)
    <3>1. /\ Others(a) /\ proc'[a] = Idle
          /\ spans'[a] = <<d>> \o spans[a] /\ \A b \in Arenas \ {a} : spans'[b] = spans[b]
      BY <1>d, <2>3 DEF PutLast
    <3>2. Apart(a) /\ proc'[a].pc = "idle" /\ CacheApart(a)
      BY <2>1, <3>1, ApartFrom DEF Idle, CacheApart
    <3>3. d \in Nat /\ ~proc[a].reset
      BY <1>d, <2>1, WhenBusy DEF Busy, Custody, ProcShape
    <3>4. Range(spans'[a]) = Range(spans[a]) \cup {d}
      BY <3>1, <3>3, TypesOf, PushList
    <3> QED
      BY <2>1, <3>2, <3>3, <3>4 DEF Cached
  <2> QED
    BY <1>7, <2>2, <2>3, FxPutSpan
<1> QED
  BY <1>1, <1>2, <1>3, <1>4, <1>5, <1>6, <1>7

LEMMA CachedRelease ==
  ASSUME IInv, NEW a \in Arenas,
         \/ \E d \in DOMAIN desc : ReleaseSpan(a, d)
         \/ ArenaReset(a) \/ UnregisterBegin(a) \/ IndexDel(a) \/ Disown(a) \/ Unmap(a) \/ SpanDescFree(a)
  PROVE  Cached(a)' /\ CacheApart(a) /\ Apart(a)
<1>0. Types /\ Custody /\ Lookups /\ Cached(a) /\ ProcFields(proc[a])
  BY TypesOf DEF IInv, Lookups
<1> USE <1>0
<1>d. PICK d : d = proc[a].d
  OBVIOUS
<1>1. ASSUME NEW e \in DOMAIN desc, ReleaseSpan(a, e) PROVE Cached(a)' /\ CacheApart(a) /\ Apart(a)
  <2>1. cache' = cache /\ spans' = spans
    BY <1>1 DEF ReleaseSpan, arenaVars
  <2>2. After(a, "unregister", e, proc[a].n, proc[a].u, proc[a].end)
    BY <1>1, FxRelease
  <2> QED
    BY <2>1, <2>2, CachedOn
<1>2. CASE ArenaReset(a)
  <2>1. cache' = cache /\ spans' = spans
    BY <1>2 DEF ArenaReset, arenaVars
  <2>2. PICK h, todo : AfterNext(a, h, todo)
    BY <1>2, FxReset
  <2> QED
    BY <2>1, <2>2, CachedNext
<1>3. CASE UnregisterBegin(a)
  <2>1. spans' = spans
    BY <1>3 DEF UnregisterBegin
  <2>2. /\ cache'[a] = IF cache[a] = d THEN none ELSE cache[a]
        /\ \A b \in Arenas \ {a} : cache'[b] = cache[b]
    BY <1>3, <1>d, FxUnregister
  <2>3. PICK u, end : After(a, "del", d, proc[a].n, u, end)
    BY <1>3, <1>d, FxUnregister
  <2>4. Apart(a) /\ proc'[a].d = d /\ (proc'[a].reset <=> proc[a].reset)
    BY <2>1, <2>3, AfterList DEF After
  <2> QED
    BY <2>1, <2>2, <2>4 DEF Cached, CacheApart
<1>4. CASE IndexDel(a)
  <2>1. cache' = cache /\ spans' = spans
    BY <1>4 DEF IndexDel, arenaVars
  <2>2. PICK pc : /\ \E u, end : After(a, pc, d, proc[a].n, u, end)
                  /\ pc \in {"del", "disown"} => proc[a].pc \in {"del", "disown"}
    BY <1>4, <1>d, FxDel
  <2>3. PICK u, end : After(a, pc, d, proc[a].n, u, end)
    BY <2>2
  <2> QED
    BY <1>d, <2>1, <2>2, <2>3, CachedOn
<1>5. CASE Disown(a)
  <2>1. cache' = cache /\ proc[a].pc = "disown"
    BY <1>5 DEF Disown, At
  <2>2. Disowned(a)
    BY <1>5, FxDisown
  <2>3. After(a, "unmap", d, proc[a].n, proc[a].u, proc[a].end)
    BY <1>d, <2>2 DEF Disowned
  <2>4. proc'[a].pc = "unmap" /\ (proc'[a].reset <=> proc[a].reset) /\ Others(a)
    BY <2>3 DEF After
  <2>5. Apart(a) /\ CacheApart(a)
    BY <2>1, <2>2, <2>4, ApartFrom DEF Disowned, CacheApart
  <2>6. ~proc[a].reset => Range(spans'[a]) = Range(spans[a]) \ {d}
    BY <1>d, <2>2 DEF Disowned
  <2> QED
    BY <1>d, <2>1, <2>4, <2>5, <2>6 DEF Cached
<1>6. CASE Unmap(a)
  <2>1. cache' = cache /\ spans' = spans
    BY <1>6 DEF Unmap, arenaVars
  <2>2. After(a, "recycle", d, proc[a].n, proc[a].u, proc[a].end)
    BY <1>6, <1>d, FxUnmap
  <2> QED
    BY <2>1, <2>2, CachedOn
<1>7. CASE SpanDescFree(a)
  <2>1. CASE /\ spans' = spans /\ cache' = cache
             /\ AfterNext(a, Head(proc[a].todo), Tail(proc[a].todo))
    <3>1. PICK h, todo : AfterNext(a, h, todo)
      BY <2>1
    <3> QED
      BY <2>1, <3>1, CachedNext
  <2>2. CASE Freed(a)
    <3>1. /\ Others(a) /\ proc'[a] = Idle /\ spans'[a] = List(a)
          /\ (\A b \in Arenas \ {a} : spans'[b] = spans[b] /\ cache'[b] = cache[b])
          /\ cache'[a] = IF proc[a].reset THEN none ELSE cache[a]
      BY <2>2 DEF Freed
    <3>2. proc'[a].pc = "idle" /\ Apart(a) /\ CacheApart(a)
      BY <3>1, ApartFrom DEF Idle, CacheApart
    <3> QED
      BY <3>1, <3>2 DEF Cached, List
  <2> QED
    BY <1>7, <2>1, <2>2, FxFree
<1> QED
  BY <1>1, <1>2, <1>3, <1>4, <1>5, <1>6, <1>7

LEMMA CachedLooks ==
  ASSUME IInv, NEW a \in Arenas,
         \/ \E p \in Addresses, keep \in BOOLEAN : Lookup(a, p, keep)
         \/ LoadIndex(a) \/ LoadSpan(a) \/ LoadUnit(a) \/ MissAgain(a)
         \/ CheckDescriptor(a) \/ Answer(a)
  PROVE  Cached(a)' /\ CacheApart(a) /\ Apart(a)
<1>0. Types /\ Custody /\ Mappings /\ Lookups /\ Cached(a) /\ Seeks(a)
  BY DEF IInv, Lookups
<1> USE <1>0
<1>peek. Peek(a)
  BY Peeks
<1>1. /\ Apart(a) /\ spans' = spans /\ ~proc[a].reset /\ ~proc'[a].reset
      /\ proc'[a].pc \notin {"del", "disown"}
  BY <1>peek DEF Peek, Quiet, Looking
<1>2. CASE cache' = cache
  BY <1>1, <1>2 DEF Cached, CacheApart
<1>3. CASE CheckDescriptor(a)
  <2>d. PICK d : d = proc[a].d
    OBVIOUS
  <2>1. /\ CacheApart(a)
        /\ cache'[a] = cache[a] \/ (cache'[a] = d /\ desc[d].owner = a)
    BY <1>3, <2>d, FxCheck DEF CacheApart
  <2>2. proc[a].pc = "check" /\ proc[a].pc \in Looking
    BY <1>3 DEF CheckDescriptor, At, Looking
  <2>3. d \in Covering(proc[a].p) /\ proc[a].p \in Addresses
    BY <2>d, <2>2 DEF Seeks, Right
  <2>4. PICK b \in Arenas : d \in Settled(b) /\ SpanMarked(b, d)
    BY <2>3, CoveredBy
  <2>5. desc[d].owner = a => d \in Range(spans[a])
    BY <1>1, <2>4 DEF SpanMarked, Settled
  <2> QED
    BY <1>1, <2>1, <2>5 DEF Cached
<1>4. CASE Answer(a)
  BY <1>2, <1>4, FxAnswer
<1> QED
  BY <1>2, <1>3, <1>4, FxLookup, FxLoadIndex, FxLoadSpan, FxLoadUnit, FxMissAgain

LEMMA LookupsKept ==
  ASSUME IInv, NEW a \in Arenas,
         \/ Writes(a)
         \/ \E p \in Addresses, keep \in BOOLEAN : Lookup(a, p, keep)
         \/ LoadIndex(a) \/ LoadSpan(a) \/ LoadUnit(a) \/ MissAgain(a)
         \/ CheckDescriptor(a) \/ Answer(a)
  PROVE  Lookups'
<1>0. Types /\ Custody /\ Lookups
  BY DEF IInv
<1>1. Cached(a)' /\ CacheApart(a) /\ Apart(a)
  <2>1. CASE Writes(a)
    BY <2>1, CachedRegister, CachedRelease DEF Writes
  <2> QED
    BY <2>1, CachedLooks
<1>2. \A b \in Arenas : Cached(b)'
  BY <1>0, <1>1, CachedOthers
<1>3. \A b \in Arenas : Seeks(b)'
  <2>1. CASE Writes(a)
    BY <2>1, SeeksWrites
  <2>2. CASE \/ \E p \in Addresses, keep \in BOOLEAN : Lookup(a, p, keep)
             \/ LoadIndex(a) \/ LoadSpan(a) \/ LoadUnit(a) \/ MissAgain(a)
             \/ CheckDescriptor(a) \/ Answer(a)
    <3>1. Types' /\ Custody' /\ Peek(a) /\ Seeks(a)'
      BY <1>0, <2>2, TypesLooks, CustodyLooks, Peeks, SeeksPeek
    <3>2. LookKept /\ table' = table
      BY <1>0, <3>1, PeekKept
    <3>3. ASSUME NEW b \in Arenas \ {a} PROVE Seeks(b)'
      <4>1. proc'[b] = proc[b]
        BY <1>1 DEF Apart
      <4>2. Passes(table[proc[b].t], table'[proc[b].t], unit_of(proc[b].p))
        BY <3>2, PassesSame
      <4> QED
        BY <1>0, <3>2, <4>1, <4>2, SeeksKept
    <3> QED
      BY <3>1, <3>3
  <2> QED
    BY <2>1, <2>2
<1> QED
  BY <1>2, <1>3 DEF Lookups

-------------------------------------------------------------------------------
(***************************************************************************)
(* The invariant.                                                          *)
(***************************************************************************)
LEMMA InitTable ==
  ASSUME Init
  PROVE  /\ table \in Seq(TableType) /\ table # <<>> /\ Len(table) = 1
         /\ g_index \in TableType /\ g_index.cap \in Nat \ {0}
         /\ Chained(g_index) /\ Single(g_index) /\ Cells(g_index) = {} /\ Files(g_index) = {}
         /\ \A u \in Nat, d \in Nat \ {0} : ~Entered(g_index, u, d)
<1> DEFINE m == MM_INDEX_STATIC
<1>1. m \in Nat \ {0}
  BY Constants
<1> HIDE DEF m
<1>2. EmptyTable(m) \in TableType
  <2>1. [i \in 0 .. m - 1 |-> [unit |-> 0, span |-> none]] \in [0 .. m - 1 -> CellType]
    BY DEF CellType
  <2> QED
    BY <1>1, <2>1, TableFrom DEF EmptyTable
<1>3. Refilling(EmptyTable(m), m, 0, EmptyTable(m))
  BY <1>1, <1>2, EmptyRefilling
<1>4. table = <<EmptyTable(m)>>
  BY DEF Init, m
<1>5. Len(table) = 1 /\ g_index = EmptyTable(m) /\ table # <<>> /\ table \in Seq(TableType)
  BY <1>2, <1>4 DEF g_index
<1>6. EmptyTable(m).cap = m /\ \A i \in 0 .. m - 1 : EmptyTable(m).slot[i].span = none
  BY DEF EmptyTable
<1>7. Cells(g_index) = {} /\ Files(g_index) = {}
  BY <1>5, <1>6 DEF Cells, Files, Full, InUse
<1>8. \A u \in Nat, d \in Nat \ {0} : ~Entered(g_index, u, d)
  BY <1>3, <1>5 DEF Refilling
<1> QED
  BY <1>1, <1>2, <1>3, <1>5, <1>6, <1>7, <1>8 DEF Refilling

LEMMA InitHolds == Init => IInv
<1> SUFFICES ASSUME Init PROVE IInv
  OBVIOUS
<1>i. /\ used = 0 /\ live = 0 /\ lock = none /\ desc = <<>> /\ pool = <<>> /\ mapped = {}
      /\ spans = [a \in Arenas |-> <<>>] /\ cache = [a \in Arenas |-> none]
      /\ proc = [a \in Arenas |-> Idle]
  BY DEF Init
<1>a. ASSUME NEW a \in Arenas
      PROVE  /\ proc[a] = Idle /\ proc[a].pc = "idle" /\ ~proc[a].reset /\ proc[a].p = 0 /\ proc[a].todo = <<>>
             /\ spans[a] = <<>> /\ cache[a] = none /\ a # none
  BY <1>i, Constants DEF Idle
<1>s. ASSUME NEW a \in Arenas
      PROVE  /\ List(a) = <<>> /\ Stock(a) = {} /\ Hand(a) = {} /\ Standing(a) = {} /\ Marked(a) = {}
             /\ OneToOne(List(a))
  <2>1. List(a) = <<>>
    BY <1>a DEF List
  <2>2. Stock(a) = {} /\ OneToOne(List(a))
    BY <2>1, EmptyList DEF Stock
  <2>3. proc[a].pc \notin Busy
    BY <1>a DEF Busy
  <2> QED
    BY <1>a, <2>1, <2>2, <2>3 DEF Hand, Standing, Marked, Busy
<1>1. Types
  <2>1. table \in Seq(TableType) /\ table # <<>>
    BY InitTable
  <2>2. desc \in Seq(DescType) /\ pool \in Seq(Nat) /\ <<>> \in Seq(Nat)
    BY <1>i
  <2>3. spans \in [Arenas -> Seq(Nat)] /\ cache \in [Arenas -> Nat \cup {none}] /\ proc \in [Arenas -> ProcType]
    BY <1>i, <2>2, IdleType
  <2> QED
    BY <1>i, <1>a, <2>1, <2>2, <2>3 DEF Types
<1>2. Custody
  <2>1. ASSUME NEW a \in Arenas PROVE ProcShape(a)
    BY <1>i, <1>a DEF ProcShape, Looking
  <2>2. OneToOne(pool) /\ Range(pool) = {}
    BY <1>i, EmptyList
  <2>3. Owned
    BY <1>s, <2>2 DEF Owned
  <2> QED
    BY <2>1, <2>3 DEF Custody
<1>3. Mappings
  <2>1. ASSUME NEW a \in Arenas PROVE Phase(a)
    BY <1>a DEF Phase
  <2> QED
    BY <1>s, <2>1 DEF Mappings
<1>4. Index
  <2>1. Exact
    BY <1>s, InitTable DEF Exact, Due
  <2>2. Cardinality({}) = 0
    BY FS_EmptySet
  <2>3. Counted
    <3>1. /\ used = Cardinality(Cells(g_index)) /\ live = Cardinality(Files(g_index))
      BY <1>i, <2>2, InitTable
    <3>2. 2 * used < g_index.cap
      BY <1>i, InitTable
    <3> QED
      BY <1>a, <3>1, <3>2 DEF Counted
  <2> QED
    BY <2>1, <2>3, InitTable DEF Index
<1>5. Lookups
  <2>1. ASSUME NEW a \in Arenas PROVE Seeks(a)
    BY <1>a DEF Seeks, Looking
  <2>2. ASSUME NEW a \in Arenas PROVE Cached(a)
    BY <1>a DEF Cached
  <2> QED
    BY <2>1, <2>2 DEF Lookups
<1> QED
  BY <1>1, <1>2, <1>3, <1>4, <1>5 DEF IInv

LEMMA StutterKeeps ==
  ASSUME IInv, UNCHANGED vars
  PROVE  IInv'
<1>1. /\ table' = table /\ used' = used /\ live' = live /\ lock' = lock /\ desc' = desc /\ pool' = pool
      /\ mapped' = mapped /\ spans' = spans /\ cache' = cache /\ proc' = proc
  BY DEF vars
<1>2. Types'
  BY <1>1 DEF IInv, Types
<1>3. \A a \in Arenas : Hand(a)' = Hand(a) /\ List(a)' = List(a) /\ Stock(a)' = Stock(a)
                        /\ (Listed(a)' <=> Listed(a))
  BY <1>1 DEF Hand, List, Stock, Listed
<1>4. Custody'
  <2>1. \A a \in Arenas : ProcShape(a)'
    BY <1>1 DEF IInv, Custody, ProcShape
  <2>2. Owned'
    BY <1>1, <1>3 DEF IInv, Custody, Owned
  <2> QED
    BY <2>1, <2>2 DEF Custody
<1>5. Mappings'
  BY <1>1 DEF IInv, Mappings, Standing, Marked, Stock, List, SpanMapped, SpanMarked, Phase, UnitsOf
<1>6. Index'
  <2>1. g_index' = g_index /\ (Crowded' <=> Crowded)
    BY <1>1 DEF g_index, Crowded
  <2>2. \A a \in Arenas : \A u, d : Due(a, u, d)' <=> Due(a, u, d)
    BY <1>1, <1>3 DEF Due, Filing, UnitsOf
  <2>3. Exact'
    BY <2>1, <2>2 DEF IInv, Index, Exact
  <2>4. Counted'
    BY <1>1, <2>1 DEF IInv, Index, Counted
  <2> QED
    BY <2>1, <2>3, <2>4 DEF IInv, Index
<1>7. Lookups'
  <2>1. \A p : Covering(p)' = Covering(p)
    BY <1>1 DEF Covering, Inside, At
  <2>2. LookKept /\ Types /\ Custody /\ Lookups
    BY <1>1, <2>1 DEF LookKept, IInv
  <2>3. ASSUME NEW a \in Arenas PROVE Seeks(a)'
    <3>1. Passes(table[proc[a].t], table'[proc[a].t], unit_of(proc[a].p)) /\ proc'[a] = proc[a]
      BY <1>1, PassesSame
    <3> QED
      BY <2>2, <3>1, SeeksKept
  <2>4. ASSUME NEW a \in Arenas PROVE Cached(a)'
    BY <1>1, <2>2 DEF Lookups, Cached
  <2> QED
    BY <2>3, <2>4 DEF Lookups
<1> QED
  BY <1>2, <1>4, <1>5, <1>6, <1>7 DEF IInv

LEMMA StepKeeps ==
  ASSUME IInv, [Next]_vars
  PROVE  IInv'
<1>1. ASSUME NEW a \in Arenas, Writes(a) PROVE IInv'
  <2>1. Types' /\ Custody' /\ Mappings'
    BY <1>1, TypesRegister, TypesRelease, CustodyRegister, CustodyRelease,
       MappingsRegister, MappingsRelease DEF Writes
  <2>2. Index'
    BY <1>1, IndexKept DEF Writes
  <2>3. Lookups'
    BY <1>1, LookupsKept
  <2> QED
    BY <2>1, <2>2, <2>3 DEF IInv
<1>2. ASSUME NEW a \in Arenas,
             \/ \E p \in Addresses, keep \in BOOLEAN : Lookup(a, p, keep)
             \/ LoadIndex(a) \/ LoadSpan(a) \/ LoadUnit(a) \/ MissAgain(a)
             \/ CheckDescriptor(a) \/ Answer(a)
      PROVE  IInv'
  <2>1. Types' /\ Custody'
    BY <1>2, TypesLooks, CustodyLooks
  <2>2. Peek(a) /\ Mappings /\ Index
    BY <1>2, Peeks DEF IInv
  <2>3. Mappings' /\ Index'
    BY <2>2, MappingsPeek, IndexPeek
  <2>4. Lookups'
    BY <1>2, LookupsKept
  <2> QED
    BY <2>1, <2>3, <2>4 DEF IInv
<1>3. CASE Next
  BY <1>1, <1>2, <1>3 DEF Next, Writes
<1> QED
  BY <1>3, StutterKeeps

\* In every reachable state of the registry: a descriptor is in one place, a
\* mapping belongs to one span, the table in use has the units of the filed spans
\* once each at places their probe sequences reach, the counters are exact, and
\* a lookup under way is on the way to its answer.
THEOREM RegistryInvariant == Spec => []IInv
<1>1. Init => IInv
  BY InitHolds
<1>2. IInv /\ [Next]_vars => IInv'
  BY StepKeeps
<1> QED
  BY <1>1, <1>2, PTL DEF Spec

\* A lookup answers with the span that covers the address, or NULL where none
\* does, whatever the other arenas file, remove, rehash and recycle between its
\* loads: index_find, mm_span_lookup_uncached and mm_span_of.
THEOREM AlwaysAnswersRight == Spec => []AnswersRight
<1>1. IInv => AnswersRight
  BY DEF IInv, Lookups, Seeks, AnswersRight, At
<1> QED
  BY <1>1, RegistryInvariant, PTL

LEMMA Slots ==
  ASSUME Types
  PROVE  g_index \in TableType /\ DOMAIN g_index.slot = 0 .. g_index.cap - 1
<1>1. g_index \in TableType
  BY TableNow DEF Types
<1> QED
  BY <1>1, TableFields

\* What the table in use says is covered is mapped: mm_span_register files a span
\* after its memory is there, mm_span_unregister removes it before it goes.
THEOREM AlwaysFiledIsMapped == Spec => []FiledIsMapped
<1>1. ASSUME IInv PROVE FiledIsMapped
  <2>1. Types /\ Custody /\ Mappings /\ Index
    BY <1>1 DEF IInv
  <2>2. ASSUME NEW i \in DOMAIN g_index.slot, g_index.slot[i].span \notin {none, MM_UNIT_TOMB}
        PROVE  g_index.slot[i].unit \in mapped /\ g_index.slot[i].unit \in UnitsOf(g_index.slot[i].span)
    <3>1. i \in 0 .. g_index.cap - 1 /\ InUse(g_index, i)
      BY <2>1, <2>2, Slots DEF InUse
    <3>2. PICK b \in Arenas : Due(b, g_index.slot[i].unit, g_index.slot[i].span)
      BY <2>1, <3>1, EntryDue
    <3> QED
      BY <2>1, <3>2, DueUnits
  <2> QED
    BY <2>2 DEF FiledIsMapped
<1> QED
  BY <1>1, RegistryInvariant, PTL

\* A descriptor is in span_desc_free's pool, in one arena's list or in the hands
\* of one operation, and an arena's span_cache holds none but its own spans, so
\* that no arena goes on using a descriptor another one has released.
THEOREM AlwaysDescriptorsOwned == Spec => []DescriptorsOwned
<1>1. ASSUME IInv PROVE DescriptorsOwned
  <2>1. Custody /\ Lookups /\ Owned
    BY <1>1 DEF IInv, Custody
  <2>2. OneToOne(pool)
    BY <2>1 DEF Owned
  <2>3. ASSUME NEW a \in Arenas, ~proc[a].reset PROVE Range(spans[a]) = Stock(a)
    BY <2>3 DEF Stock, List
  <2>4. \A a \in Arenas : Stock(a) \cap Range(pool) = {}
    BY <2>1 DEF Owned
  <2>5. \A a, b \in Arenas : a # b => Stock(a) \cap Stock(b) = {}
    BY <2>1 DEF Owned
  <2>6. \A a \in Arenas : ~proc[a].reset /\ cache[a] # none => cache[a] \in Range(spans[a])
    BY <2>1 DEF Lookups, Cached
  <2>7. ASSUME NEW a \in Arenas, ~proc[a].reset
        PROVE  /\ Range(spans[a]) \cap Range(pool) = {}
               /\ \A b \in Arenas \ {a} : ~proc[b].reset => Range(spans[a]) \cap Range(spans[b]) = {}
               /\ cache[a] # none => cache[a] \in Range(spans[a])
    BY <2>3, <2>4, <2>5, <2>6, <2>7
  <2> QED
    BY <2>2, <2>7 DEF DescriptorsOwned, OneToOne
<1> QED
  BY <1>1, RegistryInvariant, PTL

-------------------------------------------------------------------------------
(***************************************************************************)
(* While nobody changes the table.                                         *)
(***************************************************************************)
Still ==
  lock = none /\ \A a \in Arenas : /\ proc[a].pc \notin {"disown", "unmap", "recycle"}
                                   /\ ~proc[a].reset

\* What is due are the units of the listed spans.
LEMMA StillDue ==
  ASSUME Types, Custody, Still, NEW a \in Arenas, NEW u, NEW d
  PROVE  Due(a, u, d) <=> d \in Range(spans[a]) /\ u \in UnitsOf(d)
<1>1. ~proc[a].reset /\ proc[a].pc \notin {"disown", "unmap", "recycle"} /\ lock # a /\ ProcShape(a) /\ Handles(a)
  BY OwnedIs, Constants DEF Still, Custody
<1>2. Stock(a) = Range(spans[a])
  BY <1>1 DEF Stock, List
<1>3. proc[a].pc \notin {"add", "span", "undo", "del"}
  BY <1>1 DEF ProcShape
<1>4. CASE proc[a].pc = "unregister"
  <2>1. Hand(a) = {proc[a].d} /\ Listed(a) /\ Filing(a) = UnitsOf(proc[a].d)
    BY <1>1, <1>4 DEF Hand, Busy, Listed, Filing
  <2>2. proc[a].d \in Stock(a)
    BY <1>1, <2>1 DEF Handles
  <2> QED
    BY <1>2, <2>1, <2>2 DEF Due
<1>5. CASE proc[a].pc # "unregister"
  <2>1. Filing(a) = {} /\ ~Listed(a)
    BY <1>1, <1>3, <1>5 DEF Filing, Listed
  <2>2. Hand(a) \cap Stock(a) = {}
    BY <1>1, <2>1 DEF Handles
  <2> QED
    BY <1>2, <2>1, <2>2 DEF Due
<1> QED
  BY <1>4, <1>5

\* While nobody changes it, the table holds the units of the spans in the arenas'
\* lists once each and nothing else, also after a registration that failed
\* half-way or a rehash; g_index_used and g_index_live are exact, so that
\* index_rehash replaces a table before a probe could find no empty slot.
THEOREM AlwaysTableExact == Spec => []TableExact
<1>1. ASSUME IInv, Still
      PROVE  LET cells == {i \in DOMAIN g_index.slot : g_index.slot[i].span # none}
                 filed == {i \in cells : g_index.slot[i].span # MM_UNIT_TOMB}
                 all   == UNION {Range(spans[a]) : a \in Arenas}
             IN  /\ used = Cardinality(cells) /\ live = Cardinality(filed)
                 /\ 2 * used <= g_index.cap
                 /\ {g_index.slot[i] : i \in filed} =
                      UNION {{[unit |-> u, span |-> d] : u \in UnitsOf(d)} : d \in all}
                 /\ Cardinality(filed) = Cardinality(UNION {UnitsOf(d) : d \in all})
  <2> DEFINE cells == {i \in DOMAIN g_index.slot : g_index.slot[i].span # none}
             filed == {i \in cells : g_index.slot[i].span # MM_UNIT_TOMB}
             all   == UNION {Range(spans[a]) : a \in Arenas}
             units == UNION {UnitsOf(d) : d \in all}
             pairs == UNION {{[unit |-> u, span |-> d] : u \in UnitsOf(d)} : d \in all}
  <2>0. Types /\ Custody /\ Mappings /\ Index
    BY <1>1 DEF IInv
  <2>1. g_index \in TableType /\ DOMAIN g_index.slot = 0 .. g_index.cap - 1
    BY <2>0, Slots
  <2>2. cells = Cells(g_index) /\ filed = Files(g_index)
    BY <2>1 DEF Cells, Files, Full, InUse
  <2>3. used = Cardinality(cells) /\ live = Cardinality(filed) /\ 2 * used <= g_index.cap
    <3>1. used = Cardinality(Cells(g_index)) /\ live = Cardinality(Files(g_index)) /\ 2 * used < g_index.cap
      BY <2>0 DEF Index, Counted
    <3>2. used \in Nat /\ g_index.cap \in Nat
      BY <2>0, <2>1, TableFields DEF Types
    <3>3. 2 * used <= g_index.cap
      BY <3>1, <3>2
    <3> HIDE DEF cells, filed
    <3>4. used = Cardinality(cells) /\ live = Cardinality(filed)
      BY <2>2, <3>1
    <3> QED
      BY <3>3, <3>4
  <2>4. ASSUME NEW i \in filed
        PROVE  /\ g_index.slot[i].span \in all /\ g_index.slot[i].unit \in UnitsOf(g_index.slot[i].span)
               /\ g_index.slot[i] = [unit |-> g_index.slot[i].unit, span |-> g_index.slot[i].span]
    <3>1. i \in 0 .. g_index.cap - 1 /\ InUse(g_index, i)
      BY <2>2 DEF Files
    <3>2. PICK b \in Arenas : Due(b, g_index.slot[i].unit, g_index.slot[i].span)
      BY <2>0, <3>1, EntryDue
    <3>3. /\ g_index.slot[i].span \in Range(spans[b])
          /\ g_index.slot[i].unit \in UnitsOf(g_index.slot[i].span)
      BY <1>1, <2>0, <3>2, StillDue
    <3>4. g_index.slot[i] = [unit |-> g_index.slot[i].unit, span |-> g_index.slot[i].span]
      BY <2>1, <3>1, TableFields
    <3> QED
      BY <3>3, <3>4
  <2>5. ASSUME NEW d \in all, NEW u \in UnitsOf(d)
        PROVE  \E i \in filed : g_index.slot[i] = [unit |-> u, span |-> d] /\ g_index.slot[i].unit = u
    <3>1. PICK a \in Arenas : d \in Range(spans[a])
      OBVIOUS
    <3>2. Due(a, u, d)
      BY <1>1, <2>0, <3>1, StillDue
    <3>3. d \in Has(a) /\ u \in mapped
      BY <2>0, <3>2, DueUnits
    <3>4. Handles(a)
      BY <2>0, OwnedIs DEF Custody
    <3>5. d \in Nat \ {0} /\ d # none /\ u \in Nat
      BY <2>0, <3>3, <3>4, DescHas, Constants DEF Handles, Types
    <3>6. Entered(g_index, u, d)
      BY <2>0, <3>2, <3>5 DEF Index, Exact
    <3>7. PICK i \in 0 .. g_index.cap - 1 : g_index.slot[i] = [unit |-> u, span |-> d]
      BY <3>6 DEF Entered
    <3>8. g_index.slot[i].unit = u /\ g_index.slot[i].span = d
      BY <3>7
    <3>9. InUse(g_index, i)
      BY <3>5, <3>8 DEF InUse, MM_UNIT_TOMB
    <3> QED
      BY <2>2, <3>7, <3>8, <3>9 DEF Files
  <2>6. ASSUME NEW i \in filed, NEW j \in filed, g_index.slot[i].unit = g_index.slot[j].unit
        PROVE  i = j
    <3>1. /\ i \in 0 .. g_index.cap - 1 /\ InUse(g_index, i)
          /\ j \in 0 .. g_index.cap - 1 /\ InUse(g_index, j)
      BY <2>2 DEF Files
    <3> QED
      BY <2>0, <2>6, <3>1 DEF Index, Single
  <2>7. IsFiniteSet(filed)
    BY <2>1, <2>2, CellsFinite
  <2> HIDE DEF filed, all
  <2>8. {g_index.slot[i] : i \in filed} = pairs
    <3>1. ASSUME NEW i \in filed PROVE g_index.slot[i] \in pairs
      <4>1. PICK u, d : u = g_index.slot[i].unit /\ d = g_index.slot[i].span
        OBVIOUS
      <4>2. d \in all /\ u \in UnitsOf(d) /\ g_index.slot[i] = [unit |-> u, span |-> d]
        BY <2>4, <4>1
      <4>3. g_index.slot[i] \in {[unit |-> v, span |-> d] : v \in UnitsOf(d)}
        BY <4>2
      <4> QED
        BY <4>2, <4>3
    <3>2. ASSUME NEW d \in all, NEW u \in UnitsOf(d)
          PROVE  [unit |-> u, span |-> d] \in {g_index.slot[i] : i \in filed}
      BY <2>5
    <3> QED
      BY <3>1, <3>2
  <2>9. Cardinality(filed) = Cardinality(units)
    <3> DEFINE f == [i \in filed |-> g_index.slot[i].unit]
    <3>1. ASSUME NEW i \in filed PROVE g_index.slot[i].unit \in units
      BY <2>4
    <3>2. ASSUME NEW u \in units PROVE \E i \in filed : g_index.slot[i].unit = u
      <4>1. PICK d \in all : u \in UnitsOf(d)
        OBVIOUS
      <4> QED
        BY <2>5, <4>1
    <3> HIDE DEF units
    <3>3. f \in [filed -> units]
      BY <3>1
    <3>4. f \in Injection(filed, units)
      BY <2>6, <3>3 DEF Injection, IsInjective
    <3>5. f \in Surjection(filed, units)
      BY <3>2, <3>3 DEF Surjection
    <3>6. ExistsBijection(filed, units)
      BY <3>4, <3>5 DEF ExistsBijection, Bijection
    <3> QED
      BY <2>7, <3>6, FS_Bijection
  <2> QED
    BY <2>3, <2>8, <2>9 DEF filed, all
<1>2. IInv => TableExact
  BY <1>1 DEF TableExact, Still
<1> QED
  BY <1>2, RegistryInvariant, PTL
===============================================================================
