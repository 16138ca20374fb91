---------------------------- MODULE PagingProofs ----------------------------
(***************************************************************************)
(* A physical page has one use, whatever is in use is marked, and the      *)
(* counters agree with the bitmap until they are made to drift, for every  *)
(* size of the memory, of the tables and of a call.                        *)
(***************************************************************************)
EXTENDS Paging, FiniteSetTheorems, WellFoundedInduction, TLAPS

\* The memory's part of the state, and the counts a word can hold.
Count == 0 .. WORD - 1

Memory ==
    [bits : SUBSET Bit, pages_free : Count, pages_taken : Count,
     last_free : 0 .. TOTAL + PAST,
     tables : [Table -> Bit \cup {NONE}], pages : [Virt -> Bit \cup {NONE}],
     halted : BOOLEAN]

\* What is in use in memory m, with dr mapped directly and rs reserved: a page under
\* a virtual page, a table or reserved is marked, and has no other use.  Page 0 may
\* have several and is never under a virtual page.
Uses(m, dr, rs) ==
    /\ \A v \in Virt \ dr : m.pages[v] # NONE =>
          /\ m.pages[v] \in m.bits \ ({0} \cup rs)
          /\ \A w \in Virt \ dr : v # w => m.pages[v] # m.pages[w]
          /\ \A d \in Table : m.pages[v] # m.tables[d]
    /\ \A d \in Table : m.tables[d] \notin {0, NONE} =>
          /\ m.tables[d] \in m.bits \ rs
          /\ \A e \in Table : d # e => m.tables[d] # m.tables[e]
    /\ rs \ {0} \subseteq m.bits

\* A page is mapped in a table that exists: freepg, which passes no flags, would
\* otherwise make one that is not present.
Tabled(m) == \A v \in Virt : m.pages[v] # NONE => m.tables[Dir(v)] # NONE

\* The counters of m agree with its bitmap.
Counted(m) ==
    /\ m.pages_taken = Cardinality(m.bits \cap Page)
    /\ m.pages_free = TOTAL - m.pages_taken

\* The step from m to n marks page p, or nothing.
Marks(m, n, p) ==
    /\ p \in Bit \ m.bits /\ n.bits = m.bits \cup {p} /\ m.pages_taken < TOTAL
    /\ n.pages_free = Dec(m.pages_free) /\ n.pages_taken = Inc(m.pages_taken)

SameMarks(m, n) ==
    n.bits = m.bits /\ n.pages_free = m.pages_free /\ n.pages_taken = m.pages_taken

\* From m to n table d exists, or is made in a page of its own or in page 0.
HasTable(m, n, d) ==
    \/ m.tables[d] # NONE /\ n.tables = m.tables /\ SameMarks(m, n)
    \/ \E t \in Bit :
          /\ n.tables = [m.tables EXCEPT ![d] = t]
          /\ (t = 0 /\ SameMarks(m, n)) \/ Marks(m, n, t)

\* From m to n no mark but that of page 0 goes away; each entry and table is as before,
\* or gone, or is that of v or d, new and in a page that was not marked.
Moved(m, n, dr, dn, v, d) ==
    /\ m.bits \ {0} \subseteq n.bits
    /\ \A w \in Virt \ dn :
          \/ n.pages[w] = NONE
          \/ w \notin dr /\ n.pages[w] = m.pages[w]
          \/ w = v /\ n.pages[w] \in n.bits \ (m.bits \cup {0}) /\ n.pages[w] # n.tables[d]
    /\ \A e \in Table :
          \/ n.tables[e] = m.tables[e]
          \/ e = d /\ (n.tables[e] = 0 \/ n.tables[e] \in n.bits \ m.bits)

\* What allocating keeps from m to n.
Kept(m, n) ==
    /\ m.bits \subseteq n.bits
    /\ \A dr \in SUBSET Virt, rs \in SUBSET Page : Uses(m, dr, rs) => Uses(n, dr, rs)
    /\ Tabled(m) => Tabled(n)
    /\ Counted(m) /\ n.bits \ m.bits \subseteq Page => Counted(n)

IInv ==
    /\ mem \in Memory /\ direct \subseteq Virt /\ reserved \subseteq Page
    /\ Uses(mem, direct, reserved)
    /\ Tabled(mem)
    /\ drifted \in BOOLEAN
    /\ ~drifted => Counted(mem)

-----------------------------------------------------------------------------
(* Numbers.                                                                *)

\* Absent and full are no pages.
LEMMA Names ==
    /\ NONE \notin Bit /\ FULL \notin Bit /\ FULL # NONE /\ 0 \in Bit /\ 0 # NONE
    /\ Page \subseteq Bit /\ Bit \subseteq Nat /\ 0 \in Count /\ 0 \in Page
    /\ \A b \in Bit : b + 1 \in 0 .. TOTAL + PAST
    /\ NONE # 0
BY TotalAssumption DEF NONE, FULL, Bit, Page, Count

\* The table of a virtual page.
LEMMA TableOf == \A v \in Virt : Dir(v) \in Table
BY DEF Table

\* Counters stay words, and step by one away from their ends.
LEMMA Words ==
    ASSUME NEW n \in Count
    PROVE  /\ Inc(n) \in Count /\ Dec(n) \in Count /\ Dec(Inc(n)) = n /\ Inc(Dec(n)) = n
           /\ n < TOTAL => Inc(n) = n + 1
           /\ n > 0 => Dec(n) = n - 1
<1>1. WORD \in Nat /\ WORD > 0 /\ TOTAL \in Nat /\ TOTAL < WORD /\ n \in Nat /\ n < WORD
  BY TotalAssumption DEF Count
<1>2. Inc(n) = IF n + 1 = WORD THEN 0 ELSE n + 1
  BY <1>1 DEF Inc
<1>3. Dec(n) = IF n = 0 THEN WORD - 1 ELSE n - 1
  BY <1>1 DEF Dec
<1>4. Inc(n) \in Count /\ Dec(n) \in Count
  BY <1>1, <1>2, <1>3 DEF Count
<1>5. Dec(Inc(n)) = n
  BY <1>1, <1>2 DEF Dec
<1>6. Inc(Dec(n)) = n
  BY <1>1, <1>3 DEF Inc
<1> QED BY <1>1, <1>2, <1>3, <1>4, <1>5, <1>6

\* A set of naturals that is not empty has a least element.
LEMMA LeastNat ==
    ASSUME NEW S \in SUBSET Nat, S # {}
    PROVE  \E x \in S : \A y \in S : x <= y
<1> DEFINE R == OpToRel(<, Nat)
<1>1. IsWellFoundedOn(R, Nat)
  BY NatLessThanWellFounded
<1> HIDE DEF R
<1>2. \E x \in S : \A y \in S : ~ (<<y, x>> \in R)
  BY <1>1, WFMin, Zenon
<1>3. PICK x \in S : \A y \in S : ~ (<<y, x>> \in R)
  BY <1>2
<1>4. \A y \in S : y < x => <<y, x>> \in R
  BY DEF R, OpToRel
<1>5. \A y \in S : ~(y < x)
  BY <1>3, <1>4
<1>6. \A y \in S : y \in Nat
  OBVIOUS
<1>7. \A y \in S : x <= y
  BY <1>5, <1>6
<1> QED BY <1>7

\* What holds at 0 and is passed on holds up to n.
LEMMA Upto ==
    ASSUME NEW n \in Nat, NEW S, 0 \in S,
           \A k \in 1 .. n : k - 1 \in S => k \in S
    PROVE  0 .. n \subseteq S
<1> DEFINE Bad == {k \in 0 .. n : k \notin S}
<1>1. Bad \in SUBSET Nat
  OBVIOUS
<1> SUFFICES ASSUME Bad # {} PROVE FALSE
  OBVIOUS
<1>2. PICK x \in Bad : \A y \in Bad : x <= y
  BY <1>1, LeastNat
<1>3. x \in 1 .. n /\ x - 1 \in 0 .. n /\ ~(x <= x - 1)
  BY <1>2
<1>4. x - 1 \in S
  BY <1>2, <1>3
<1> QED BY <1>2, <1>3, <1>4

-----------------------------------------------------------------------------
(* The bitmap.                                                             *)

\* bm_getpg fails, or gives a page that was not marked and marks it.
LEMMA GetPage ==
    ASSUME NEW m \in Memory
    PROVE  LET g == bm_getpg(m) IN
           /\ g.m \in Memory
           /\ g.m.tables = m.tables /\ g.m.pages = m.pages /\ g.m.halted = m.halted
           /\ (g.got = 0 /\ SameMarks(m, g.m)) \/ Marks(m, g.m, g.got)
<1> DEFINE free == bm_get_free(m)
           clear == Bit \ m.bits
<1>1. free \in clear \/ free = FULL
  <2>1. clear \in SUBSET Nat
    BY Names
  <2>2. clear # {} => (CHOOSE i \in clear : \A j \in clear : i <= j) \in clear
    BY <2>1, LeastNat
  <2> QED BY <2>2 DEF bm_get_free
<1> HIDE DEF free
<1>2. m.pages_taken \in Nat /\ TOTAL \in Nat /\ m.pages_free \in Count /\ m.pages_taken \in Count
  BY TotalAssumption DEF Memory, Count
<1>3. CASE m.pages_taken >= TOTAL
  BY <1>3 DEF bm_getpg, SameMarks
<1>4. CASE ~(m.pages_taken >= TOTAL) /\ free = FULL
  <2>1. bm_getpg(m) = [m |-> [m EXCEPT !.last_free = 0], got |-> 0]
    BY <1>4 DEF bm_getpg, free
  <2>2. 0 \in 0 .. TOTAL + PAST
    BY TotalAssumption
  <2> QED BY <2>1, <2>2 DEF Memory, SameMarks
<1>5. CASE ~(m.pages_taken >= TOTAL) /\ free # FULL
  <2> DEFINE n == [m EXCEPT !.bits = m.bits \cup {free}, !.last_free = free + 1,
                            !.pages_free = Dec(m.pages_free), !.pages_taken = Inc(m.pages_taken)]
  <2>1. bm_getpg(m) = [m |-> n, got |-> free]
    BY <1>5 DEF bm_getpg, free
  <2>2. free \in Bit \ m.bits /\ free + 1 \in 0 .. TOTAL + PAST /\ m.bits \cup {free} \in SUBSET Bit
    BY <1>1, <1>5, Names DEF Memory
  <2>3. Dec(m.pages_free) \in Count /\ Inc(m.pages_taken) \in Count
    BY <1>2, Words
  <2>4. n \in Memory
    BY <2>2, <2>3 DEF Memory
  <2>5. /\ n.tables = m.tables /\ n.pages = m.pages /\ n.halted = m.halted
        /\ n.bits = m.bits \cup {free}
        /\ n.pages_free = Dec(m.pages_free) /\ n.pages_taken = Inc(m.pages_taken)
    BY DEF Memory
  <2>6. m.pages_taken < TOTAL
    BY <1>2, <1>5
  <2> HIDE DEF n
  <2> QED BY <2>1, <2>2, <2>4, <2>5, <2>6 DEF Marks
<1> QED BY <1>3, <1>4, <1>5

\* bm_freepg clears one bit.
LEMMA FreePage ==
    ASSUME NEW m \in Memory, NEW p
    PROVE  /\ bm_freepg(m, p) \in Memory
           /\ bm_freepg(m, p).tables = m.tables /\ bm_freepg(m, p).pages = m.pages
           /\ bm_freepg(m, p).halted = m.halted
           /\ bm_freepg(m, p).bits = m.bits \ {p}
           /\ bm_freepg(m, p).pages_free = Inc(m.pages_free)
           /\ bm_freepg(m, p).pages_taken = Dec(m.pages_taken)
<1>1. m.pages_free \in Count /\ m.pages_taken \in Count /\ m.bits \ {p} \in SUBSET Bit
  BY DEF Memory
<1>2. Inc(m.pages_free) \in Count /\ Dec(m.pages_taken) \in Count
  BY <1>1, Words
<1> QED BY <1>1, <1>2 DEF bm_freepg, Memory

-----------------------------------------------------------------------------
(* Uses and counts.                                                        *)

\* Such a step keeps the uses.
LEMMA UsesKept ==
    ASSUME NEW m \in Memory, NEW n \in Memory, NEW dr \in SUBSET Virt, NEW dn \in SUBSET Virt,
           NEW rs \in SUBSET Page, Uses(m, dr, rs),
           NEW v \in Virt, NEW d \in Table, Moved(m, n, dr, dn, v, d)
    PROVE  Uses(n, dn, rs)
<1>1. /\ \A w \in Virt \ dr : m.pages[w] # NONE =>
          /\ m.pages[w] \in m.bits \ ({0} \cup rs)
          /\ \A u \in Virt \ dr : w # u => m.pages[w] # m.pages[u]
          /\ \A e \in Table : m.pages[w] # m.tables[e]
      /\ \A e \in Table : m.tables[e] \notin {0, NONE} =>
          /\ m.tables[e] \in m.bits \ rs
          /\ \A x \in Table : e # x => m.tables[e] # m.tables[x]
      /\ rs \ {0} \subseteq m.bits
  BY DEF Uses
<1>m. /\ m.bits \ {0} \subseteq n.bits
      /\ \A w \in Virt \ dn :
            \/ n.pages[w] = NONE
            \/ w \notin dr /\ n.pages[w] = m.pages[w]
            \/ w = v /\ n.pages[w] \in n.bits \ (m.bits \cup {0}) /\ n.pages[w] # n.tables[d]
      /\ \A e \in Table :
            \/ n.tables[e] = m.tables[e]
            \/ e = d /\ (n.tables[e] = 0 \/ n.tables[e] \in n.bits \ m.bits)
  BY DEF Moved
<1>2. rs \ {0} \subseteq n.bits
  BY <1>1, <1>m
<1>3. NONE \notin m.bits /\ NONE \notin n.bits /\ NONE # 0
  BY Names DEF Memory
<1>4. ASSUME NEW w \in Virt \ dn, n.pages[w] # NONE
      PROVE  n.pages[w] \in n.bits \ ({0} \cup rs)
  BY <1>m, <1>1, <1>4
<1>5. ASSUME NEW w \in Virt \ dn, n.pages[w] # NONE, NEW u \in Virt \ dn, w # u
      PROVE  n.pages[w] # n.pages[u]
  BY <1>m, <1>1, <1>3, <1>5
<1>6. ASSUME NEW w \in Virt \ dn, n.pages[w] # NONE, NEW e \in Table
      PROVE  n.pages[w] # n.tables[e]
  <2>1. CASE w \notin dr /\ n.pages[w] = m.pages[w]
    BY <1>m, <1>1, <1>6, <2>1
  <2>2. CASE w = v /\ n.pages[w] \in n.bits \ (m.bits \cup {0}) /\ n.pages[w] # n.tables[d]
    BY <1>m, <1>1, <1>6, <2>2
  <2> QED BY <1>m, <1>6, <2>1, <2>2
<1>7. ASSUME NEW e \in Table, n.tables[e] \notin {0, NONE}
      PROVE  /\ n.tables[e] \in n.bits \ rs
             /\ \A x \in Table : e # x => n.tables[e] # n.tables[x]
  BY <1>m, <1>1, <1>7
<1> QED BY <1>2, <1>4, <1>5, <1>6, <1>7 DEF Uses

\* The pages marked are finitely many.
LEMMA Marked ==
    ASSUME NEW m \in Memory
    PROVE  /\ IsFiniteSet(m.bits \cap Page) /\ Cardinality(m.bits \cap Page) \in Nat
           /\ Cardinality(m.bits \cap Page) <= TOTAL
           /\ Cardinality(m.bits \cap Page) = TOTAL => Page \subseteq m.bits
<1>1. IsFiniteSet(Page) /\ Cardinality(Page) = TOTAL
  <2>1. 0 \in Int /\ TOTAL - 1 \in Int /\ TOTAL \in Nat \ {0}
    BY TotalAssumption
  <2> QED BY <2>1, FS_Interval DEF Page
<1>2. m.bits \cap Page \in SUBSET Page
  OBVIOUS
<1>3. /\ IsFiniteSet(m.bits \cap Page) /\ Cardinality(m.bits \cap Page) <= Cardinality(Page)
      /\ Cardinality(Page) = Cardinality(m.bits \cap Page) => Page = m.bits \cap Page
  BY <1>1, <1>2, FS_Subset, Zenon
<1>4. Cardinality(m.bits \cap Page) \in Nat
  BY <1>3, FS_CardinalityType
<1> QED BY <1>1, <1>3, <1>4

\* Marking a page that exists is counted.
LEMMA MarkCounted ==
    ASSUME NEW m \in Memory, NEW n \in Memory, NEW p \in Page, Marks(m, n, p), Counted(m)
    PROVE  Counted(n)
<1> DEFINE S == m.bits \cap Page
           c == Cardinality(S)
<1>1. IsFiniteSet(S) /\ c \in Nat /\ c <= TOTAL
  BY Marked
<1>2. n.bits \cap Page = S \cup {p} /\ p \notin S
  BY DEF Marks
<1>3. Cardinality(S \cup {p}) = c + 1
  BY <1>1, <1>2, FS_AddElement
<1>4. m.pages_taken = c /\ m.pages_free = TOTAL - c /\ c < TOTAL /\ TOTAL \in Nat
  BY TotalAssumption DEF Counted, Marks
<1> HIDE DEF c, S
<1>5. n.pages_taken = c + 1 /\ n.pages_free = TOTAL - c - 1
  <2>1. m.pages_taken \in Count /\ m.pages_free \in Count /\ m.pages_free > 0
    BY <1>1, <1>4 DEF Memory
  <2>2. Inc(m.pages_taken) = m.pages_taken + 1 /\ Dec(m.pages_free) = m.pages_free - 1
    BY <1>4, <2>1, Words
  <2> QED BY <1>4, <2>2 DEF Marks
<1>6. n.pages_taken = Cardinality(n.bits \cap Page)
  BY <1>2, <1>3, <1>5
<1>7. n.pages_free = TOTAL - n.pages_taken
  BY <1>1, <1>4, <1>5
<1> QED BY <1>6, <1>7 DEF Counted

-----------------------------------------------------------------------------
(* One page of a call.                                                     *)

\* remappg enters the page, in a table that may be new.
LEMMA MapPage ==
    ASSUME NEW m \in Memory, NEW v \in Virt, NEW f \in Bit
    PROVE  LET n == remappg(m, f, v, TRUE) IN
           /\ n \in Memory /\ n.halted = m.halted
           /\ n.pages[v] = f /\ \A w \in Virt : w # v => n.pages[w] = m.pages[w]
           /\ HasTable(m, n, Dir(v))
<1>0. Dir(v) \in Table /\ m.pages \in [Virt -> Bit \cup {NONE}] /\ m.tables \in [Table -> Bit \cup {NONE}]
  BY TableOf DEF Memory
<1>1. CASE m.tables[Dir(v)] # NONE
  <2> DEFINE n == [m EXCEPT !.pages = [m.pages EXCEPT ![v] = f]]
  <2>1. remappg(m, f, v, TRUE) = n
    BY <1>1 DEF remappg
  <2>2. [m.pages EXCEPT ![v] = f] \in [Virt -> Bit \cup {NONE}]
    BY <1>0
  <2>3. n \in Memory /\ n.halted = m.halted /\ n.pages = [m.pages EXCEPT ![v] = f] /\ n.tables = m.tables
    BY <2>2 DEF Memory
  <2>4. SameMarks(m, n)
    BY DEF Memory, SameMarks
  <2> HIDE DEF n
  <2> QED BY <1>0, <1>1, <2>1, <2>3, <2>4 DEF HasTable
<1>2. CASE m.tables[Dir(v)] = NONE
  <2> DEFINE g == bm_getpg(m).m
             t == bm_getpg(m).got
             n == [g EXCEPT !.tables = [g.tables EXCEPT ![Dir(v)] = t],
                            !.pages = [g.pages EXCEPT ![v] = f]]
  <2>1. remappg(m, f, v, TRUE) = n
    BY <1>2 DEF remappg
  <2>2. /\ g \in Memory /\ g.tables = m.tables /\ g.pages = m.pages /\ g.halted = m.halted
        /\ (t = 0 /\ SameMarks(m, g)) \/ Marks(m, g, t)
    BY GetPage
  <2>3. t \in Bit
    BY <2>2, Names DEF Marks
  <2> HIDE DEF g, t
  <2>4. /\ [g.tables EXCEPT ![Dir(v)] = t] \in [Table -> Bit \cup {NONE}]
        /\ [g.pages EXCEPT ![v] = f] \in [Virt -> Bit \cup {NONE}]
    BY <1>0, <2>2, <2>3
  <2>5. /\ n \in Memory /\ n.halted = m.halted
        /\ n.pages = [m.pages EXCEPT ![v] = f]
        /\ n.tables = [m.tables EXCEPT ![Dir(v)] = t]
    BY <2>2, <2>4 DEF Memory
  <2>6. n.bits = g.bits /\ n.pages_free = g.pages_free /\ n.pages_taken = g.pages_taken
    BY <2>2 DEF Memory
  <2> HIDE DEF n
  <2>7. (t = 0 /\ SameMarks(m, n)) \/ Marks(m, n, t)
    BY <2>2, <2>6 DEF SameMarks, Marks
  <2> QED BY <1>0, <2>1, <2>3, <2>5, <2>7 DEF HasTable
<1> QED BY <1>1, <1>2

\* allocpg maps a page nobody has, puts it back, or fails; it clears no mark.
LEMMA AllocPage ==
    ASSUME NEW m \in Memory, NEW v \in Virt
    PROVE  allocpg(m, v) \in Memory /\ Kept(m, allocpg(m, v))
<1> DEFINE g == bm_getpg(m).m
           p == bm_getpg(m).got
           n == allocpg(m, v)
<1>1. /\ g \in Memory /\ g.tables = m.tables /\ g.pages = m.pages
      /\ (p = 0 /\ SameMarks(m, g)) \/ Marks(m, g, p)
  BY GetPage
<1>2. n = IF p = 0 THEN g
          ELSE IF m.pages[v] # NONE THEN bm_freepg(g, p)
          ELSE remappg(g, p, v, TRUE)
  BY <1>1 DEF allocpg, mappg
<1> HIDE DEF g, p, n
<1>3. Dir(v) \in Table /\ p \in Bit /\ m.bits \subseteq g.bits
  BY <1>1, TableOf, Names DEF Marks, SameMarks
<1>4. /\ m.pages \in [Virt -> Bit \cup {NONE}] /\ m.tables \in [Table -> Bit \cup {NONE}]
      /\ m.bits \subseteq Bit
  BY DEF Memory
<1>5. ASSUME n \in Memory, n.tables = m.tables, n.pages = m.pages, m.bits \subseteq n.bits
      PROVE  /\ \A dr \in SUBSET Virt, rs \in SUBSET Page : Uses(m, dr, rs) => Uses(n, dr, rs)
             /\ Tabled(m) => Tabled(n)
  <2>1. ASSUME NEW dr \in SUBSET Virt, NEW rs \in SUBSET Page, Uses(m, dr, rs)
        PROVE  Uses(n, dr, rs)
    <3>1. Moved(m, n, dr, dr, v, Dir(v))
      BY <1>5 DEF Moved
    <3> QED BY <1>3, <1>5, <2>1, <3>1, UsesKept
  <2> QED BY <1>5, <2>1 DEF Tabled
<1>6. ASSUME n \in Memory, SameMarks(m, n) PROVE Counted(m) => Counted(n)
  BY <1>6 DEF SameMarks, Counted
<1>7. CASE p = 0
  <2>1. n = g
    BY <1>2, <1>7
  <2>2. Counted(m) => Counted(n)
    BY <1>1, <1>6, <1>7, <2>1, Names, MarkCounted
  <2> QED BY <1>1, <1>3, <1>5, <2>1, <2>2 DEF n, Kept
<1>8. CASE p # 0 /\ m.pages[v] # NONE
  <2>1. n = bm_freepg(g, p) /\ Marks(m, g, p)
    BY <1>1, <1>2, <1>8
  <2>2. /\ n \in Memory /\ n.tables = m.tables /\ n.pages = m.pages
        /\ n.bits = g.bits \ {p} /\ n.pages_free = Inc(g.pages_free)
        /\ n.pages_taken = Dec(g.pages_taken)
    BY <1>1, <2>1, FreePage
  <2>3. Inc(Dec(m.pages_free)) = m.pages_free /\ Dec(Inc(m.pages_taken)) = m.pages_taken
    BY Words DEF Memory
  <2>4. SameMarks(m, n)
    BY <2>1, <2>2, <2>3 DEF SameMarks, Marks
  <2>5. m.bits \subseteq n.bits
    BY <2>4 DEF SameMarks
  <2> QED BY <1>5, <1>6, <2>2, <2>4, <2>5 DEF n, Kept
<1>9. CASE p # 0 /\ m.pages[v] = NONE
  <2>1. n = remappg(g, p, v, TRUE) /\ Marks(m, g, p) /\ p \in g.bits /\ p \notin m.bits
    BY <1>1, <1>2, <1>9 DEF Marks
  <2>2. /\ n \in Memory
        /\ n.pages[v] = p /\ \A w \in Virt : w # v => n.pages[w] = m.pages[w]
        /\ \/ m.tables[Dir(v)] # NONE /\ n.tables = m.tables /\ SameMarks(g, n)
           \/ \E t \in Bit :
                 /\ n.tables = [m.tables EXCEPT ![Dir(v)] = t]
                 /\ (t = 0 /\ SameMarks(g, n)) \/ Marks(g, n, t)
    <3>1. /\ n \in Memory /\ HasTable(g, n, Dir(v))
          /\ n.pages[v] = p /\ \A w \in Virt : w # v => n.pages[w] = g.pages[w]
      BY <1>1, <1>3, <2>1, MapPage, ZenonT(40)
    <3> QED BY <1>1, <3>1 DEF HasTable
  <2>3. g.bits \subseteq n.bits /\ n.pages[v] = p /\ \A w \in Virt : w # v => n.pages[w] = m.pages[w]
    BY <1>4, <2>2 DEF SameMarks, Marks
  <2>4. /\ \A e \in Table : e # Dir(v) => n.tables[e] = m.tables[e]
        /\ n.tables[Dir(v)] # NONE
        /\ \/ n.tables[Dir(v)] = m.tables[Dir(v)]
           \/ n.tables[Dir(v)] = 0
           \/ n.tables[Dir(v)] \in n.bits \ g.bits
    BY <1>3, <1>4, <2>2, Names DEF Marks
  <2>5. ASSUME NEW dr \in SUBSET Virt, NEW rs \in SUBSET Page, Uses(m, dr, rs)
        PROVE  Uses(n, dr, rs)
    <3>1. p # n.tables[Dir(v)]
      BY <1>3, <1>9, <2>1, <2>4, <2>5, Names DEF Uses
    <3>2. Moved(m, n, dr, dr, v, Dir(v))
      BY <1>3, <1>9, <2>1, <2>3, <2>4, <3>1 DEF Moved
    <3> QED BY <1>3, <2>2, <2>5, <3>2, UsesKept
  <2>6. Tabled(m) => Tabled(n)
    <3> SUFFICES ASSUME Tabled(m), NEW w \in Virt, n.pages[w] # NONE PROVE n.tables[Dir(w)] # NONE
      BY DEF Tabled
    <3>1. Dir(w) \in Table
      BY TableOf
    <3> QED BY <2>3, <2>4, <3>1 DEF Tabled
  <2>7. ASSUME Counted(m), n.bits \ m.bits \subseteq Page PROVE Counted(n)
    <3>1. p \in Page /\ n.bits \ g.bits \subseteq Page
      BY <1>3, <2>1, <2>3, <2>7
    <3>2. Counted(g)
      BY <1>1, <2>1, <2>7, <3>1, MarkCounted
    <3>3. CASE SameMarks(g, n)
      BY <3>2, <3>3 DEF SameMarks, Counted
    <3>4. ASSUME NEW t \in Bit, Marks(g, n, t) PROVE Counted(n)
      <4>1. t \in Page
        BY <3>1, <3>4 DEF Marks
      <4> QED BY <1>1, <2>2, <3>2, <3>4, <4>1, MarkCounted
    <3> QED BY <2>2, <3>3, <3>4
  <2> QED BY <1>3, <2>2, <2>3, <2>5, <2>6, <2>7 DEF n, Kept
<1> QED BY <1>7, <1>8, <1>9

\* freepg clears the entry, and the mark of page 0 if there was none, or halts; where
\* something was mapped it does no more than clear the entry.
LEMMA FreeVirt ==
    ASSUME NEW m \in Memory, NEW v \in Virt, Tabled(m)
    PROVE  LET n == freepg(m, v) IN
           /\ n \in Memory /\ Tabled(n)
           /\ \A dr \in SUBSET Virt, rs \in SUBSET Page : Uses(m, dr, rs) => Uses(n, dr, rs)
           /\ m.pages[v] # NONE /\ ~m.halted =>
                 /\ SameMarks(m, n) /\ ~n.halted
                 /\ \A w \in Virt : w # v => n.pages[w] = m.pages[w]
<1> DEFINE u == remappg(m, NONE, v, FALSE)
           n == freepg(m, v)
<1>0. /\ m.pages \in [Virt -> Bit \cup {NONE}] /\ m.tables \in [Table -> Bit \cup {NONE}]
      /\ m.bits \subseteq Bit /\ Dir(v) \in Table
  BY TableOf DEF Memory
<1>1. n = u \/ (m.pages[v] = NONE /\ n = bm_freepg(u, 0))
  BY DEF freepg
<1>2. ASSUME NEW x \in Memory, x.tables = m.tables, m.bits \ {0} \subseteq x.bits,
             \A w \in Virt : x.pages[w] \in {NONE, m.pages[w]}
      PROVE  /\ Tabled(x)
             /\ \A dr \in SUBSET Virt, rs \in SUBSET Page : Uses(m, dr, rs) => Uses(x, dr, rs)
  <2>1. Tabled(x)
    BY <1>2 DEF Tabled
  <2>2. ASSUME NEW dr \in SUBSET Virt, NEW rs \in SUBSET Page, Uses(m, dr, rs)
        PROVE  Uses(x, dr, rs)
    <3>1. \A w \in Virt \ dr : x.pages[w] = NONE \/ (w \notin dr /\ x.pages[w] = m.pages[w])
      BY <1>2
    <3>2. Moved(m, x, dr, dr, v, Dir(v))
      BY <1>2, <3>1 DEF Moved
    <3> QED BY <1>0, <1>2, <2>2, <3>2, UsesKept
  <2> QED BY <2>1, <2>2
<1>3. CASE m.tables[Dir(v)] # NONE
  <2>1. u = [m EXCEPT !.pages = [m.pages EXCEPT ![v] = NONE]]
    BY <1>3 DEF remappg
  <2>2. [m.pages EXCEPT ![v] = NONE] \in [Virt -> Bit \cup {NONE}]
    BY <1>0
  <2>3. /\ u \in Memory /\ u.tables = m.tables /\ u.bits = m.bits
        /\ u.pages = [m.pages EXCEPT ![v] = NONE]
        /\ u.pages_free = m.pages_free /\ u.pages_taken = m.pages_taken
    BY <2>1, <2>2 DEF Memory
  <2>4. u.halted = m.halted
    BY <2>1 DEF Memory
  <2> HIDE DEF u
  <2>5. /\ n \in Memory /\ n.tables = m.tables /\ m.bits \ {0} \subseteq n.bits
        /\ \A w \in Virt : n.pages[w] \in {NONE, m.pages[w]}
    BY <1>0, <1>1, <2>3, FreePage
  <2>6. ASSUME m.pages[v] # NONE, ~m.halted
        PROVE  SameMarks(m, n) /\ ~n.halted /\ \A w \in Virt : w # v => n.pages[w] = m.pages[w]
    BY <1>0, <1>1, <2>3, <2>4, <2>6 DEF SameMarks
  <2> QED BY <1>2, <2>5, <2>6
<1>4. CASE m.tables[Dir(v)] = NONE
  <2>1. m.pages[v] = NONE
    BY <1>4 DEF Tabled
  <2> DEFINE g == bm_getpg(m).m
  <2>2. u = [g EXCEPT !.halted = TRUE]
    BY <1>4 DEF remappg
  <2>3. /\ g \in Memory /\ g.tables = m.tables /\ g.pages = m.pages /\ m.bits \subseteq g.bits
    BY GetPage DEF SameMarks, Marks
  <2> HIDE DEF g
  <2>4. u \in Memory /\ u.tables = m.tables /\ u.pages = m.pages /\ m.bits \subseteq u.bits
    BY <2>2, <2>3 DEF Memory
  <2> HIDE DEF u
  <2>5. /\ n \in Memory /\ n.tables = m.tables /\ m.bits \ {0} \subseteq n.bits
        /\ \A w \in Virt : n.pages[w] \in {NONE, m.pages[w]}
    BY <1>0, <1>1, <2>4, FreePage
  <2> QED BY <1>2, <2>1, <2>5
<1> QED BY <1>3, <1>4

-----------------------------------------------------------------------------
(* The loops.                                                              *)

\* One turn of the loop of allocpgs, and of freepgs.
AllocTurn(d, w) ==
    IF d.ok THEN [m |-> allocpg(d.m, w), ok |-> Allocated(d.m, w)] ELSE d

FreeTurn(m, w) == IF m.halted THEN m ELSE freepg(m, w)

\* The runs of the loops.
AllocRun(do, m, v, n) ==
    do = [k \in 0 .. n |-> IF k = 0 THEN [m |-> m, ok |-> TRUE]
                           ELSE AllocTurn(do[k - 1], v + k - 1)]

FreeRun(do, m, v, n) ==
    do = [k \in 0 .. n |-> IF k = 0 THEN m ELSE FreeTurn(do[k - 1], v + k - 1)]

\* The recursive function of allocpgs exists, so that it has its values.
LEMMA AllocLoop ==
    ASSUME NEW m, NEW v, NEW n \in Nat
    PROVE  \E do : AllocRun(do, m, v, n) /\ allocpgs(m, v, n) = do[n].m
<1> DEFINE Good == {l \in Nat : \E do : AllocRun(do, m, v, l)}
<1>1. 0 \in Good
  <2> DEFINE do == [k \in 0 .. 0 |-> [m |-> m, ok |-> TRUE]]
  <2>1. AllocRun(do, m, v, 0)
    BY DEF AllocRun
  <2> QED BY <2>1
<1>2. ASSUME NEW l \in 1 .. n, l - 1 \in Good PROVE l \in Good
  <2>1. PICK do : AllocRun(do, m, v, l - 1)
    BY <1>2
  <2> DEFINE dn == [k \in 0 .. l |-> IF k \in 0 .. l - 1 THEN do[k] ELSE AllocTurn(do[l - 1], v + l - 1)]
  <2>2. l \in Nat \ {0} /\ l - 1 \in 0 .. l - 1
    OBVIOUS
  <2>3. \A k \in 0 .. l - 1 : dn[k] = do[k]
    BY <2>2
  <2>4. \A k \in 0 .. l : dn[k] = IF k = 0 THEN [m |-> m, ok |-> TRUE] ELSE AllocTurn(dn[k - 1], v + k - 1)
    <3> TAKE k \in 0 .. l
    <3>1. CASE k = l
      BY <2>2, <2>3, <3>1
    <3>2. CASE k \in 0 .. l - 1
      <4>1. do[k] = IF k = 0 THEN [m |-> m, ok |-> TRUE] ELSE AllocTurn(do[k - 1], v + k - 1)
        BY <2>1, <3>2 DEF AllocRun
      <4>2. k # 0 => k - 1 \in 0 .. l - 1
        BY <2>2, <3>2
      <4> HIDE DEF dn
      <4> QED BY <2>3, <3>2, <4>1, <4>2
    <3> QED BY <2>2, <3>1, <3>2
  <2>5. AllocRun(dn, m, v, l)
    BY <2>4 DEF AllocRun
  <2> QED BY <2>2, <2>5
<1>3. n \in Good
  <2> HIDE DEF Good
  <2>1. 0 .. n \subseteq Good
    BY <1>1, <1>2, Upto
  <2> QED BY <2>1
<1> DEFINE do == CHOOSE f : AllocRun(f, m, v, n)
<1>4. AllocRun(do, m, v, n)
  BY <1>3
<1>5. allocpgs(m, v, n) = do[n].m
  BY DEF allocpgs, AllocTurn, AllocRun
<1> QED BY <1>4, <1>5

\* The same for freepgs.
LEMMA FreeLoop ==
    ASSUME NEW m, NEW v, NEW n \in Nat
    PROVE  \E do : FreeRun(do, m, v, n) /\ freepgs(m, v, n) = do[n]
<1> DEFINE Good == {l \in Nat : \E do : FreeRun(do, m, v, l)}
<1>1. 0 \in Good
  <2> DEFINE do == [k \in 0 .. 0 |-> m]
  <2>1. FreeRun(do, m, v, 0)
    BY DEF FreeRun
  <2> QED BY <2>1
<1>2. ASSUME NEW l \in 1 .. n, l - 1 \in Good PROVE l \in Good
  <2>1. PICK do : FreeRun(do, m, v, l - 1)
    BY <1>2
  <2> DEFINE dn == [k \in 0 .. l |-> IF k \in 0 .. l - 1 THEN do[k] ELSE FreeTurn(do[l - 1], v + l - 1)]
  <2>2. l \in Nat \ {0} /\ l - 1 \in 0 .. l - 1
    OBVIOUS
  <2>3. \A k \in 0 .. l - 1 : dn[k] = do[k]
    BY <2>2
  <2>4. \A k \in 0 .. l : dn[k] = IF k = 0 THEN m ELSE FreeTurn(dn[k - 1], v + k - 1)
    <3> TAKE k \in 0 .. l
    <3>1. CASE k = l
      BY <2>2, <2>3, <3>1
    <3>2. CASE k \in 0 .. l - 1
      <4>1. do[k] = IF k = 0 THEN m ELSE FreeTurn(do[k - 1], v + k - 1)
        BY <2>1, <3>2 DEF FreeRun
      <4>2. k # 0 => k - 1 \in 0 .. l - 1
        BY <2>2, <3>2
      <4> HIDE DEF dn
      <4> QED BY <2>3, <3>2, <4>1, <4>2
    <3> QED BY <2>2, <3>1, <3>2
  <2>5. FreeRun(dn, m, v, l)
    BY <2>4 DEF FreeRun
  <2> QED BY <2>2, <2>5
<1>3. n \in Good
  <2> HIDE DEF Good
  <2>1. 0 .. n \subseteq Good
    BY <1>1, <1>2, Upto
  <2> QED BY <2>1
<1> DEFINE do == CHOOSE f : FreeRun(f, m, v, n)
<1>4. FreeRun(do, m, v, n)
  BY <1>3
<1>5. freepgs(m, v, n) = do[n]
  BY DEF freepgs, FreeTurn, FreeRun
<1> QED BY <1>4, <1>5

\* What one page keeps, the pages after it keep.
LEMMA KeptOn ==
    ASSUME NEW a, NEW b, NEW c, Kept(a, b), Kept(b, c)
    PROVE  Kept(a, c)
<1>1. a.bits \subseteq b.bits /\ b.bits \subseteq c.bits
  BY DEF Kept
<1>2. \A dr \in SUBSET Virt, rs \in SUBSET Page : Uses(a, dr, rs) => Uses(c, dr, rs)
  BY DEF Kept
<1>3. (Tabled(a) => Tabled(c)) /\ (Counted(a) /\ c.bits \ a.bits \subseteq Page => Counted(c))
  BY <1>1 DEF Kept
<1> QED BY <1>1, <1>2, <1>3 DEF Kept

\* A call of allocpgs keeps what one page keeps, wherever it stops.
LEMMA AllocPages ==
    ASSUME NEW m \in Memory, NEW v \in Virt, NEW n \in Nat, Span(v, n) \subseteq Virt
    PROVE  allocpgs(m, v, n) \in Memory /\ Kept(m, allocpgs(m, v, n))
<1>1. PICK do : AllocRun(do, m, v, n) /\ allocpgs(m, v, n) = do[n].m
  BY AllocLoop
<1> DEFINE S == {k \in 0 .. n : do[k].m \in Memory /\ Kept(m, do[k].m)}
<1>2. 0 \in S
  <2>1. do[0] = [m |-> m, ok |-> TRUE]
    BY <1>1 DEF AllocRun
  <2>2. Kept(m, m)
    BY DEF Kept
  <2> QED BY <2>1, <2>2
<1>3. ASSUME NEW k \in 1 .. n, k - 1 \in S PROVE k \in S
  <2> DEFINE d == do[k - 1]
             w == v + k - 1
  <2>1. do[k] = AllocTurn(d, w) /\ k \in 0 .. n
    <3>1. k \in 0 .. n /\ k # 0
      OBVIOUS
    <3> QED BY <1>1, <3>1 DEF AllocRun
  <2>2. d.m \in Memory /\ Kept(m, d.m)
    BY <1>3
  <2>3. w \in Virt
    BY DEF Span, Virt
  <2> HIDE DEF d, w
  <2>4. do[k].m = d.m \/ do[k].m = allocpg(d.m, w)
    BY <2>1 DEF AllocTurn
  <2>5. allocpg(d.m, w) \in Memory /\ Kept(d.m, allocpg(d.m, w))
    BY <2>2, <2>3, AllocPage
  <2>6. Kept(m, allocpg(d.m, w))
    BY <2>2, <2>5, KeptOn
  <2> QED BY <2>1, <2>2, <2>4, <2>5, <2>6
<1> HIDE DEF S
<1>4. 0 .. n \subseteq S
  BY <1>2, <1>3, Upto
<1>5. n \in S
  BY <1>4
<1> QED BY <1>1, <1>5 DEF S

\* A call of freepgs keeps uses and tables; where all its pages are mapped it changes
\* no mark and no counter, and does not halt.
LEMMA FreePages ==
    ASSUME NEW m \in Memory, Tabled(m), NEW v \in Virt, NEW n \in Nat, Span(v, n) \subseteq Virt,
           ~m.halted
    PROVE  LET r == freepgs(m, v, n) IN
           /\ r \in Memory /\ Tabled(r)
           /\ \A dr \in SUBSET Virt, rs \in SUBSET Page : Uses(m, dr, rs) => Uses(r, dr, rs)
           /\ (\A w \in Span(v, n) : m.pages[w] # NONE) => SameMarks(m, r)
<1>1. PICK do : FreeRun(do, m, v, n) /\ freepgs(m, v, n) = do[n]
  BY FreeLoop
<1> DEFINE Mapped == \A w \in Span(v, n) : m.pages[w] # NONE
           Ok(r, k) ==
               /\ r \in Memory /\ Tabled(r)
               /\ \A dr \in SUBSET Virt, rs \in SUBSET Page : Uses(m, dr, rs) => Uses(r, dr, rs)
               /\ Mapped => /\ SameMarks(m, r) /\ ~r.halted
                            /\ \A w \in Virt : w >= v + k => r.pages[w] = m.pages[w]
           S == {k \in 0 .. n : Ok(do[k], k)}
<1>2. 0 \in S
  <2>1. do[0] = m
    BY <1>1 DEF FreeRun
  <2>2. SameMarks(m, m)
    BY DEF SameMarks
  <2> QED BY <2>1, <2>2
<1>3. ASSUME NEW k \in 1 .. n, k - 1 \in S PROVE k \in S
  <2> DEFINE d == do[k - 1]
             w == v + k - 1
             r == do[k]
  <2>1. r = FreeTurn(d, w) /\ k \in 0 .. n
    <3>1. k \in 0 .. n /\ k # 0
      OBVIOUS
    <3> QED BY <1>1, <3>1 DEF FreeRun
  <2>2. Ok(d, k - 1)
    BY <1>3
  <2>3. w \in Virt /\ w \in Span(v, n) /\ v \in Nat /\ k \in Nat
    BY DEF Span, Virt
  <2>4. w >= v + (k - 1) /\ \A u \in Virt : u >= v + k => u # w /\ u >= v + (k - 1)
    BY <2>3 DEF Virt
  <2> HIDE DEF d, w, r
  <2>5. /\ freepg(d, w) \in Memory /\ Tabled(freepg(d, w))
        /\ \A dr \in SUBSET Virt, rs \in SUBSET Page : Uses(d, dr, rs) => Uses(freepg(d, w), dr, rs)
        /\ d.pages[w] # NONE /\ ~d.halted =>
              /\ SameMarks(d, freepg(d, w)) /\ ~freepg(d, w).halted
              /\ \A u \in Virt : u # w => freepg(d, w).pages[u] = d.pages[u]
    BY <2>2, <2>3, FreeVirt
  <2>6. r \in Memory /\ Tabled(r)
    BY <2>1, <2>2, <2>5 DEF FreeTurn
  <2>7. \A dr \in SUBSET Virt, rs \in SUBSET Page : Uses(m, dr, rs) => Uses(r, dr, rs)
    BY <2>1, <2>2, <2>5 DEF FreeTurn
  <2>8. ASSUME Mapped
        PROVE  /\ SameMarks(m, r) /\ ~r.halted
               /\ \A u \in Virt : u >= v + k => r.pages[u] = m.pages[u]
    <3>1. /\ SameMarks(m, d) /\ ~d.halted
          /\ \A u \in Virt : u >= v + (k - 1) => d.pages[u] = m.pages[u]
      BY <2>2, <2>8
    <3>2. d.pages[w] # NONE
      BY <2>3, <2>4, <2>8, <3>1
    <3>3. r = freepg(d, w)
      BY <2>1, <3>1 DEF FreeTurn
    <3>4. SameMarks(m, r)
      BY <2>5, <3>1, <3>2, <3>3 DEF SameMarks
    <3> QED BY <2>4, <2>5, <3>1, <3>2, <3>3, <3>4
  <2>9. Ok(r, k)
    BY <2>6, <2>7, <2>8
  <2> HIDE DEF Ok
  <2> QED BY <2>1, <2>9 DEF r
<1> HIDE DEF S, Ok
<1>4. 0 .. n \subseteq S
  BY <1>2, <1>3, Upto
<1>5. n \in S
  BY <1>4
<1>6. Ok(do[n], n)
  BY <1>5 DEF S
<1> QED BY <1>1, <1>6 DEF Ok

-----------------------------------------------------------------------------
(* Steps.                                                                  *)

\* _pmm_init counts the pages taken; nothing is mapped.
LEMMA PagingInit == Init => IInv
<1> SUFFICES ASSUME Init PROVE IInv
  OBVIOUS
<1> DEFINE c == Cardinality(BOOT)
<1>1. PICK past \in SUBSET (Bit \ Page) :
          mem = [bits        |-> BOOT \cup past,
                 pages_free  |-> TOTAL - c,
                 pages_taken |-> c,
                 last_free   |-> 0,
                 tables      |-> [d \in Table |-> NONE],
                 pages       |-> [v \in Virt |-> NONE],
                 halted      |-> FALSE]
  BY DEF Init
<1>2. direct = {} /\ reserved = {} /\ drifted = FALSE
  BY DEF Init
<1>3. BOOT \subseteq Page /\ TOTAL \in Nat \ {0} /\ PAST \in Nat /\ WORD \in Nat /\ WORD > TOTAL
  BY BootAssumption, TotalAssumption DEF Page
<1>4. IsFiniteSet(Page) /\ Cardinality(Page) = TOTAL
  <2>1. 0 \in Int /\ TOTAL - 1 \in Int
    BY <1>3
  <2> QED BY <1>3, <2>1, FS_Interval DEF Page
<1>5. IsFiniteSet(BOOT) /\ c <= TOTAL
  BY <1>3, <1>4, FS_Subset
<1>6. c \in Nat
  BY <1>5, FS_CardinalityType
<1> HIDE DEF c
<1>7. c \in Count /\ TOTAL - c \in Count
  BY <1>3, <1>5, <1>6 DEF Count
<1>8. BOOT \cup past \in SUBSET Bit /\ (BOOT \cup past) \cap Page = BOOT
  BY <1>3, Names
<1>9. /\ [d \in Table |-> NONE] \in [Table -> Bit \cup {NONE}]
      /\ [v \in Virt |-> NONE] \in [Virt -> Bit \cup {NONE}]
      /\ 0 \in 0 .. TOTAL + PAST
  BY <1>3
<1>10. mem \in Memory
  BY <1>1, <1>7, <1>8, <1>9 DEF Memory
<1>11. (\A v \in Virt : mem.pages[v] = NONE) /\ (\A d \in Table : mem.tables[d] = NONE)
  BY <1>1
<1>12. Uses(mem, direct, reserved) /\ Tabled(mem)
  BY <1>2, <1>11 DEF Uses, Tabled
<1>13. Counted(mem)
  BY <1>1, <1>8 DEF Counted, c
<1> QED BY <1>2, <1>10, <1>12, <1>13 DEF IInv

\* syscall_allocpgs, and the pages of a segment in modit_elf_load.
LEMMA AllocKeeps ==
    ASSUME IInv, NEW v \in Virt, NEW n \in 1 .. MAXCNT, Span(v, n) \subseteq Virt,
           NEW m, m = allocpgs(mem, v, n)
    PROVE  /\ m \in Memory /\ Uses(m, direct, reserved) /\ Tabled(m)
           /\ ~drifted /\ m.bits \ mem.bits \subseteq Page => Counted(m)
<1>1. n \in Nat
  BY VirtAssumption
<1>2. m \in Memory /\ Kept(mem, m)
  BY <1>1, AllocPages DEF IInv
<1> QED BY <1>2 DEF Kept, IInv

\* syscall_mappg uses up a page of its own only for a table.
LEMMA MapKeeps ==
    ASSUME IInv, NEW v \in Virt, NEW f \in Device, syscall_mappg(v, f)
    PROVE  IInv'
<1>1. CASE mem.pages[v] # NONE
  <2>1. mem' = mem /\ direct' = direct /\ reserved' = reserved /\ drifted' = drifted
    BY <1>1 DEF syscall_mappg, mappg, IInv
  <2> QED BY <2>1 DEF IInv
<1>2. CASE mem.pages[v] = NONE
  <2> DEFINE dn == direct \cup {v}
  <2>1. mem' = remappg(mem, f, v, TRUE) /\ direct' = dn /\ reserved' = reserved
    BY <1>2 DEF syscall_mappg, mappg
  <2>2. /\ mem \in Memory /\ f \in Bit /\ dn \in SUBSET Virt /\ Dir(v) \in Table
        /\ direct \in SUBSET Virt /\ reserved \in SUBSET Page
    BY Names, TableOf, BootAssumption DEF IInv, Page
  <2>3. /\ mem' \in Memory /\ HasTable(mem, mem', Dir(v))
        /\ mem'.pages[v] = f /\ \A w \in Virt : w # v => mem'.pages[w] = mem.pages[w]
    BY <2>1, <2>2, MapPage, ZenonT(40)
  <2>4. /\ mem.bits \subseteq mem'.bits /\ mem'.tables[Dir(v)] # NONE
        /\ \A e \in Table :
              \/ mem'.tables[e] = mem.tables[e]
              \/ e = Dir(v) /\ (mem'.tables[e] = 0 \/ mem'.tables[e] \in mem'.bits \ mem.bits)
    BY <2>2, <2>3, Names DEF HasTable, SameMarks, Marks, Memory
  <2>5. Moved(mem, mem', direct, dn, v, Dir(v))
    BY <2>3, <2>4 DEF Moved
  <2>6. Uses(mem', dn, reserved)
    BY <2>2, <2>3, <2>5, UsesKept DEF IInv
  <2>7. Tabled(mem')
    <3> SUFFICES ASSUME NEW w \in Virt, mem'.pages[w] # NONE PROVE mem'.tables[Dir(w)] # NONE
      BY DEF Tabled
    <3>1. Dir(w) \in Table
      BY TableOf
    <3> QED BY <2>3, <2>4, <3>1, Names DEF Tabled, IInv, Memory
  <2>8. ASSUME ~drifted' PROVE Counted(mem')
    <3>1. ~drifted /\ mem'.bits \ mem.bits \subseteq Page
      BY <2>8 DEF syscall_mappg
    <3>2. Counted(mem)
      BY <3>1 DEF IInv
    <3>3. CASE SameMarks(mem, mem')
      BY <3>2, <3>3 DEF SameMarks, Counted
    <3>4. ASSUME NEW t \in Bit, Marks(mem, mem', t) PROVE Counted(mem')
      <4>1. t \in Page
        BY <3>1, <3>4 DEF Marks
      <4> QED BY <2>2, <2>3, <3>2, <3>4, <4>1, MarkCounted
    <3> QED BY <2>3, <3>3, <3>4 DEF HasTable
  <2>9. drifted' \in BOOLEAN
    BY DEF syscall_mappg
  <2> QED BY <2>1, <2>2, <2>3, <2>6, <2>7, <2>8, <2>9 DEF IInv
<1> QED BY <1>1, <1>2

\* syscall_resvpg takes a page that is not marked, or none.
LEMMA ReserveKeeps ==
    ASSUME IInv, NEW p \in Device, syscall_resvpg(p)
    PROVE  IInv'
<1>1. CASE p \in mem.bits
  BY <1>1 DEF syscall_resvpg, bm_resvpg, IInv
<1>2. CASE p \notin mem.bits
  <2> DEFINE bits == mem.bits \cup {p}
             rn   == reserved \cup {p}
  <2>1. /\ mem' = [mem EXCEPT !.bits = bits, !.pages_free = Dec(mem.pages_free),
                              !.pages_taken = Inc(mem.pages_taken)]
        /\ reserved' = rn /\ direct' = direct /\ drifted' = drifted
    BY <1>2 DEF syscall_resvpg, bm_resvpg
  <2>2. /\ mem \in Memory /\ p \in Page /\ p \in Bit /\ bits \in SUBSET Bit /\ rn \in SUBSET Page
        /\ mem.pages_free \in Count /\ mem.pages_taken \in Count
    BY Names, BootAssumption DEF IInv, Memory, Page
  <2>3. Dec(mem.pages_free) \in Count /\ Inc(mem.pages_taken) \in Count
    BY <2>2, Words
  <2>4. /\ mem' \in Memory /\ mem'.tables = mem.tables /\ mem'.pages = mem.pages /\ mem'.bits = bits
        /\ mem'.pages_free = Dec(mem.pages_free) /\ mem'.pages_taken = Inc(mem.pages_taken)
    BY <2>1, <2>2, <2>3 DEF Memory
  <2>5. Uses(mem', direct, rn)
    BY <1>2, <2>4 DEF IInv, Uses
  <2>6. Tabled(mem')
    BY <2>4 DEF IInv, Tabled
  <2>7. ASSUME Counted(mem) PROVE Counted(mem')
    <3>1. /\ Cardinality(mem.bits \cap Page) \in Nat /\ Cardinality(mem.bits \cap Page) <= TOTAL
          /\ Cardinality(mem.bits \cap Page) # TOTAL
      BY <1>2, <2>2, Marked
    <3>2. mem.pages_taken < TOTAL
      BY <2>7, <3>1, TotalAssumption DEF Counted
    <3>3. Marks(mem, mem', p)
      BY <1>2, <2>2, <2>4, <3>2 DEF Marks
    <3> QED BY <2>2, <2>4, <2>7, <3>3, MarkCounted
  <2> QED BY <2>1, <2>2, <2>4, <2>5, <2>6, <2>7 DEF IInv
<1> QED BY <1>1, <1>2

\* syscall_freepgs lets go of what was mapped, directly or not.
LEMMA FreeKeeps ==
    ASSUME IInv, NEW v \in Virt, NEW n \in 1 .. MAXCNT, syscall_freepgs(v, n)
    PROVE  IInv'
<1> DEFINE dn == {w \in direct : mem'.pages[w] # NONE}
<1>1. /\ mem' = freepgs(mem, v, n) /\ direct' = dn /\ reserved' = reserved /\ ~mem.halted
      /\ Span(v, n) \subseteq Virt /\ n \in Nat
  BY VirtAssumption DEF syscall_freepgs
<1>2. /\ mem \in Memory /\ Tabled(mem) /\ direct \in SUBSET Virt /\ reserved \in SUBSET Page
      /\ Uses(mem, direct, reserved)
  BY DEF IInv
<1>3. /\ mem' \in Memory /\ Tabled(mem') /\ Uses(mem', direct, reserved)
      /\ (\A w \in Span(v, n) : mem.pages[w] # NONE) => SameMarks(mem, mem')
  BY <1>1, <1>2, FreePages
<1>4. Uses(mem', dn, reserved)
  BY <1>3 DEF Uses
<1>5. ASSUME ~drifted' PROVE Counted(mem')
  <2>1. ~drifted /\ \A w \in Span(v, n) : mem.pages[w] # NONE
    BY <1>5 DEF syscall_freepgs
  <2> QED BY <1>3, <2>1 DEF IInv, SameMarks, Counted
<1>6. drifted' \in BOOLEAN
  BY DEF syscall_freepgs
<1> QED BY <1>1, <1>2, <1>3, <1>4, <1>5, <1>6 DEF IInv

\* Loading a segment allocates its pages; it may end in a fault.
LEMMA LoadKeeps ==
    ASSUME IInv, NEW v \in Virt, NEW n \in 1 .. MAXCNT, NEW spill \in 0 .. 1,
           modit_elf_load(v, n, spill)
    PROVE  IInv'
<1> DEFINE m == allocpgs(mem, v, n)
           b == \E w \in Span(v, n + spill) : m.pages[w] = NONE
<1>1. Span(v, n) \subseteq Virt
  <2>1. Span(v, n) \subseteq Span(v, n + spill)
    BY DEF Span, Virt
  <2> QED BY <2>1 DEF modit_elf_load
<1>2. mem' = [m EXCEPT !.halted = b] /\ direct' = direct /\ reserved' = reserved
  BY DEF modit_elf_load
<1>3. drifted' \in BOOLEAN /\ (~drifted' => ~drifted /\ m.bits \ mem.bits \subseteq Page)
  BY DEF modit_elf_load
<1>4. b \in BOOLEAN
  OBVIOUS
<1>5. /\ m \in Memory /\ Uses(m, direct, reserved) /\ Tabled(m)
      /\ ~drifted /\ m.bits \ mem.bits \subseteq Page => Counted(m)
  BY <1>1, AllocKeeps
<1> HIDE DEF m, b
<1>6. mem' \in Memory
  BY <1>2, <1>4, <1>5 DEF Memory
<1>7. /\ mem'.tables = m.tables /\ mem'.pages = m.pages /\ mem'.bits = m.bits
      /\ mem'.pages_free = m.pages_free /\ mem'.pages_taken = m.pages_taken
  BY <1>2, <1>5 DEF Memory
<1>8. Uses(mem', direct, reserved) /\ Tabled(mem') /\ (Counted(m) => Counted(mem'))
  BY <1>5, <1>7 DEF Uses, Tabled, Counted
<1> QED BY <1>2, <1>3, <1>5, <1>6, <1>8 DEF IInv

\* Every step keeps the invariant.
LEMMA PagingStep == IInv /\ [Next]_vars => IInv'
<1> SUFFICES ASSUME IInv, [Next]_vars PROVE IInv'
  OBVIOUS
<1>1. ASSUME NEW v \in Virt, NEW n \in 1 .. MAXCNT, syscall_allocpgs(v, n) PROVE IInv'
  <2>1. /\ mem' = allocpgs(mem, v, n) /\ Span(v, n) \subseteq Virt
        /\ direct' = direct /\ reserved' = reserved
    BY <1>1 DEF syscall_allocpgs
  <2>2. drifted' \in BOOLEAN /\ (~drifted' => ~drifted /\ mem'.bits \ mem.bits \subseteq Page)
    BY <1>1 DEF syscall_allocpgs
  <2>3. /\ mem' \in Memory /\ Uses(mem', direct, reserved) /\ Tabled(mem')
        /\ ~drifted /\ mem'.bits \ mem.bits \subseteq Page => Counted(mem')
    BY <2>1, AllocKeeps
  <2> QED BY <2>1, <2>2, <2>3 DEF IInv
<1>2. ASSUME NEW v \in Virt, NEW n \in 1 .. MAXCNT, syscall_freepgs(v, n) PROVE IInv'
  BY <1>2, FreeKeeps
<1>3. ASSUME NEW v \in Virt, NEW f \in Device, syscall_mappg(v, f) PROVE IInv'
  BY <1>3, MapKeeps
<1>4. ASSUME NEW p \in Device, syscall_resvpg(p) PROVE IInv'
  BY <1>4, ReserveKeeps
<1>5. ASSUME NEW v \in Virt, NEW n \in 1 .. MAXCNT, NEW spill \in 0 .. 1,
             modit_elf_load(v, n, spill)
      PROVE  IInv'
  BY <1>5, LoadKeeps
<1>6. CASE UNCHANGED vars
  BY <1>6 DEF vars, IInv
<1> QED BY <1>1, <1>2, <1>3, <1>4, <1>5, <1>6 DEF Next, Halted

LEMMA PagingInvariant == Spec => []IInv
BY PagingInit, PagingStep, PTL DEF Spec

-----------------------------------------------------------------------------
\* A physical page is under one virtual page, one table, or reserved, through every
\* sequence of allocations that stop half way, releases, maps and loads.
THEOREM PagesExclusive == Spec => []FramesExclusive
<1>1. IInv => FramesExclusive
  <2> SUFFICES ASSUME IInv PROVE FramesExclusive
    OBVIOUS
  <2>1. TypeOK
    BY DEF IInv, TypeOK, Memory, Count
  <2>2. DOMAIN mem.tables = Table
    BY DEF IInv, Memory
  <2>3. \A x : x \in Range(mem.tables) <=> \E d \in Table : x = mem.tables[d]
    BY <2>2 DEF Range
  <2>4. NONE \notin Page
    BY Names
  <2>5. /\ \A v, w \in Held : v # w => mem.pages[v] # mem.pages[w]
        /\ \A d, e \in Table : d # e /\ mem.tables[d] \notin {0, NONE} => mem.tables[d] # mem.tables[e]
    BY DEF IInv, Uses, Held
  <2>6. \A v \in Held : mem.pages[v] \notin Range(mem.tables) \cup (reserved \ {0})
    BY <2>3 DEF IInv, Uses, Held
  <2>7. Range(mem.tables) \cap (reserved \ {0}) = {}
    BY <2>3, <2>4 DEF IInv, Uses
  <2> QED BY <2>1, <2>5, <2>6, <2>7 DEF FramesExclusive
<1> QED BY <1>1, PagingInvariant, PTL

\* Whatever is mapped or serves as a table is marked, so that bm_getpg and bm_resvpg
\* do not give it to somebody else.
THEOREM PagesMarked == Spec => []InUseIsMarked
<1>1. IInv => InUseIsMarked
  <2> SUFFICES ASSUME IInv PROVE InUseIsMarked
    OBVIOUS
  <2>1. \A x \in Range(mem.tables) : \E d \in Table : x = mem.tables[d]
    BY DEF Range, IInv, Memory
  <2> QED BY <2>1 DEF IInv, Uses, Held, InUseIsMarked
<1> QED BY <1>1, PagingInvariant, PTL

\* pages_taken and pages_free agree with the bitmap until a page is freed that nobody
\* had or one past the end is given.
THEOREM PagesCounted == Spec => []CountersUntilDrift
<1>1. IInv => CountersUntilDrift
  BY DEF IInv, Counted, CountersUntilDrift
<1> QED BY <1>1, PagingInvariant, PTL
=============================================================================
