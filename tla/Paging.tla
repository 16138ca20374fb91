------------------------------- MODULE Paging -------------------------------
(***************************************************************************)
(* Physical memory and paging: the page bitmap of module/bmpmm/main.c and  *)
(* the mapping functions of module/paging/main.c, driven by the system     *)
(* calls allocpgs, freepgs, mappg and resvpg of one process that has       *)
(* USER_PERM_MEM, and by the program loader.  A system call runs with      *)
(* interrupts off: one action.                                             *)
(***************************************************************************)
EXTENDS Naturals, FiniteSets, Functions

CONSTANTS
    TOTAL,          \* pages_total
    PAST,           \* bound: bits after the last page that are modelled
    WORD,           \* counters are unsigned words, modulo WORD
    BOOT,           \* pages taken when the bitmap is set up
    Device,         \* the pages programs ask for by address
    NVIRT,          \* bound: virtual pages used
    LIMIT,          \* the first page of 0xD8000000
    TSIZE,          \* pages under one page table
    MAXCNT          \* bound: pages in one call

ASSUME TotalAssumption == TOTAL \in Nat \ {0} /\ PAST \in Nat /\ WORD \in Nat /\ WORD > TOTAL
ASSUME BootAssumption  == BOOT \subseteq 0 .. TOTAL - 1 /\ Device \subseteq 0 .. TOTAL - 1
ASSUME VirtAssumption  ==
    NVIRT \in Nat \ {0} /\ TSIZE \in Nat \ {0} /\ MAXCNT \in Nat /\ LIMIT \in Nat

Page   == 0 .. TOTAL - 1
Bit    == 0 .. TOTAL + PAST - 1
Virt   == 0 .. NVIRT - 1
Dir(v) == v \div TSIZE
Table  == {Dir(v) : v \in Virt}
NONE   == TOTAL + PAST          \* a page table entry, or a table, that is absent
FULL   == NONE + 1              \* bm_seek_free found nothing: -1

VARIABLES
    mem,            \* the bitmap, its counters and hint, the tables, halted
    \* history
    direct,         \* virtual pages mapped by syscall_mappg
    reserved,       \* free pages taken by syscall_resvpg
    drifted         \* a page was freed that nobody had, or one past the end given

vars == <<mem, direct, reserved, drifted>>

\* _pmm_init counts the bits below pages_total; the bits after them are what
\* the memory held.
Init ==
    /\ \E past \in SUBSET (Bit \ Page) :
           mem = [bits        |-> BOOT \cup past,
                  pages_free  |-> TOTAL - Cardinality(BOOT),
                  pages_taken |-> Cardinality(BOOT),
                  last_free   |-> 0,
                  tables      |-> [d \in Table |-> NONE],
                  pages       |-> [v \in Virt |-> NONE],
                  halted      |-> FALSE]
    /\ direct = {}
    /\ reserved = {}
    /\ drifted = FALSE

-----------------------------------------------------------------------------
(* The bitmap.  A call that returns a page leaves it in got.               *)

Inc(n) == (n + 1) % WORD

Dec(n) == (n + WORD - 1) % WORD

\* The hint if its bit is clear, else the first clear bit; past the modelled
\* bits memory reads as ones.
bm_get_free(m) ==
    LET clear == Bit \ m.bits
    IN  IF m.last_free \in clear THEN m.last_free
        ELSE IF clear = {} THEN FULL
        ELSE CHOOSE i \in clear : \A j \in clear : i <= j

\* Mutant: the page is not marked.
Bug_bm_getpg(m) ==
    IF m.pages_taken >= TOTAL THEN [m |-> m, got |-> 0]
    ELSE LET free == bm_get_free(m)
         IN  IF free = FULL THEN [m |-> [m EXCEPT !.last_free = 0], got |-> 0]
             ELSE [m   |-> [m EXCEPT !.last_free   = free + 1,
                                     !.pages_free  = Dec(@),
                                     !.pages_taken = Inc(@)],
                   got |-> free]

bm_getpg(m) ==
    IF m.pages_taken >= TOTAL THEN [m |-> m, got |-> 0]
    ELSE LET free == bm_get_free(m)
         IN  IF free = FULL THEN [m |-> [m EXCEPT !.last_free = 0], got |-> 0]
             ELSE [m   |-> [m EXCEPT !.bits        = @ \cup {free},
                                     !.last_free   = free + 1,
                                     !.pages_free  = Dec(@),
                                     !.pages_taken = Inc(@)],
                   got |-> free]

bm_resvpg(m, p) ==
    IF p \in m.bits THEN m
    ELSE [m EXCEPT !.bits = @ \cup {p}, !.pages_free = Dec(@), !.pages_taken = Inc(@)]

\* Mutant: one counter is forgotten.
Bug_bm_freepg(m, p) == [m EXCEPT !.bits = @ \ {p}, !.pages_free = Inc(@)]

\* The bit is cleared and counted without a test that it was set.
bm_freepg(m, p) ==
    [m EXCEPT !.bits = @ \ {p}, !.pages_free = Inc(@), !.pages_taken = Dec(@)]

-----------------------------------------------------------------------------
(* Page tables.                                                            *)

\* Mutant: a new table is put in the page that is being mapped.
Bug_remappg(m, f, v, present) ==
    IF m.tables[Dir(v)] # NONE THEN [m EXCEPT !.pages[v] = f]
    ELSE LET g == bm_getpg(m)
         IN  IF present THEN [g.m EXCEPT !.tables[Dir(v)] = f, !.pages[v] = f]
                        ELSE [g.m EXCEPT !.halted = TRUE]

\* Enter f for v, making the page table first when there is none.  A table
\* whose page could not be had lies in page 0.  The entry of a new table gets
\* the flags of the page; with flags 0 it is not present, and clearing the table
\* through it faults.  Programs map with flags that include present; freepg
\* passes 0.
remappg(m, f, v, present) ==
    IF m.tables[Dir(v)] # NONE THEN [m EXCEPT !.pages[v] = f]
    ELSE LET g == bm_getpg(m)
         IN  IF present THEN [g.m EXCEPT !.tables[Dir(v)] = g.got, !.pages[v] = f]
                        ELSE [g.m EXCEPT !.halted = TRUE]

mappg(m, f, v) == IF m.pages[v] = NONE THEN remappg(m, f, v, TRUE) ELSE m

\* A page that turns out to be mapped keeps its frame and the new one goes back.
allocpg(m, v) ==
    LET g == bm_getpg(m)
    IN  IF g.got = 0 THEN g.m
        ELSE IF m.pages[v] # NONE THEN bm_freepg(g.m, g.got)
        ELSE mappg(g.m, g.got, v)

\* allocpg gave v its page.
Allocated(m, v) == bm_getpg(m).got # 0

\* The loop over the pages of a call stops at the first that fails.
allocpgs(m, v, n) ==
    LET do[k \in 0 .. n] ==
            IF k = 0 THEN [m |-> m, ok |-> TRUE]
            ELSE LET d == do[k - 1]
                 IN  IF d.ok THEN [m  |-> allocpg(d.m, v + k - 1),
                                   ok |-> Allocated(d.m, v + k - 1)]
                             ELSE d
    IN  do[n].m

\* freepg gives back page 0 where nothing was mapped, and nothing where
\* something was.
freepg(m, v) ==
    LET unmapped == remappg(m, NONE, v, FALSE)
    IN  IF unmapped.halted THEN unmapped
        ELSE IF m.pages[v] = NONE THEN bm_freepg(unmapped, 0)
        ELSE unmapped

freepgs(m, v, n) ==
    LET do[k \in 0 .. n] ==
            IF k = 0 THEN m
            ELSE IF do[k - 1].halted THEN do[k - 1] ELSE freepg(do[k - 1], v + k - 1)
    IN  do[n]

-----------------------------------------------------------------------------
(* System calls.  A page beyond the limit is refused and nothing changes,  *)
(* but only the first page of a span is looked at.                         *)

Span(v, n) == v .. v + n - 1

syscall_allocpgs(v, n) ==
    /\ ~mem.halted
    /\ v < LIMIT
    /\ Span(v, n) \subseteq Virt
    /\ mem' = allocpgs(mem, v, n)
    /\ drifted' = (drifted \/ ~(mem'.bits \ mem.bits \subseteq Page))
    /\ UNCHANGED <<direct, reserved>>

syscall_freepgs(v, n) ==
    /\ ~mem.halted
    /\ v < LIMIT
    /\ Span(v, n) \subseteq Virt
    /\ mem' = freepgs(mem, v, n)
    /\ direct' = {w \in direct : mem'.pages[w] # NONE}
    /\ drifted' = (drifted \/ \E w \in Span(v, n) : mem.pages[w] = NONE)
    /\ UNCHANGED reserved

\* The limit is tested on what reaches mappg as the physical page, so that the
\* virtual one has none.
syscall_mappg(v, f) ==
    /\ ~mem.halted
    /\ f < LIMIT
    /\ mem' = mappg(mem, f, v)
    /\ direct' = IF mem.pages[v] = NONE THEN direct \cup {v} ELSE direct
    /\ drifted' = (drifted \/ ~(mem'.bits \ mem.bits \subseteq Page))
    /\ UNCHANGED reserved

syscall_resvpg(p) ==
    /\ ~mem.halted
    /\ mem' = bm_resvpg(mem, p)
    /\ reserved' = IF p \in mem.bits THEN reserved ELSE reserved \cup {p}
    /\ UNCHANGED <<direct, drifted>>

\* A segment in modit_elf_load, of n pages by its size.  If it does not begin on a
\* page it may spill into one more, which is copied to like the others; so are those
\* that could not be had.
modit_elf_load(v, n, spill) ==
    LET m == allocpgs(mem, v, n) IN
    /\ ~mem.halted
    /\ Span(v, n + spill) \subseteq Virt
    /\ mem' = [m EXCEPT !.halted = \E w \in Span(v, n + spill) : m.pages[w] = NONE]
    /\ drifted' = (drifted \/ ~(m.bits \ mem.bits \subseteq Page))
    /\ UNCHANGED <<direct, reserved>>

\* After a page fault in the kernel the panic handler loops.
Halted == mem.halted /\ UNCHANGED vars

Next ==
    \/ \E v \in Virt, n \in 1 .. MAXCNT : syscall_allocpgs(v, n) \/ syscall_freepgs(v, n)
    \/ \E v \in Virt, f \in Device : syscall_mappg(v, f)
    \/ \E p \in Device : syscall_resvpg(p)
    \/ \E v \in Virt, n \in 1 .. MAXCNT, spill \in 0 .. 1 : modit_elf_load(v, n, spill)
    \/ Halted

Spec == Init /\ [][Next]_vars

-----------------------------------------------------------------------------
(* Properties.                                                             *)

\* Type invariant.
TypeOK ==
    /\ mem.bits \subseteq Bit
    /\ mem.pages_free \in 0 .. WORD - 1 /\ mem.pages_taken \in 0 .. WORD - 1
    /\ mem.last_free \in 0 .. TOTAL + PAST
    /\ mem.tables \in [Table -> Bit \cup {NONE}]
    /\ mem.pages \in [Virt -> Bit \cup {NONE}]
    /\ direct \subseteq Virt /\ reserved \subseteq Page

\* The frames allocpg put under virtual pages.
Held == {v \in Virt \ direct : mem.pages[v] # NONE}

\* A physical page has one use: under one virtual page, as one page table, or
\* reserved.  Page 0 is left out: freepg gives it back unasked, and a table that
\* could get no page is put there.  And every value has its type.
FramesExclusive ==
    /\ TypeOK
    /\ \A v, w \in Held : v # w => mem.pages[v] # mem.pages[w]
    /\ \A v \in Held : mem.pages[v] \notin Range(mem.tables) \cup (reserved \ {0})
    /\ \A d, e \in Table : d # e /\ mem.tables[d] \notin {0, NONE} => mem.tables[d] # mem.tables[e]
    /\ Range(mem.tables) \cap (reserved \ {0}) = {}

\* Whatever is in use is marked in the bitmap, so that it is not given again.
InUseIsMarked == {mem.pages[v] : v \in Held} \cup (Range(mem.tables) \ {0, NONE}) \subseteq mem.bits

\* The counters that decide whether memory is full agree with the bitmap until a
\* page is freed that nobody had or one past the end is given, through every
\* page that is fetched and put back because its place was mapped already.
CountersUntilDrift ==
    ~drifted => /\ mem.pages_taken = Cardinality(mem.bits \cap Page)
                /\ mem.pages_free = TOTAL - mem.pages_taken

\* paging/main.c speaks of "a free page" that the allocator retrieves or fails
\* to: a page under a mapping exists.  The hint last_free runs past the end.
GivenPagesExist == \A v \in Held : mem.pages[v] \in Page

\* user.h, modit_elf_load: "Loads the given ELF file into context's memory".  With
\* memory to spare a segment is loaded, wherever in a page it begins.
LoadFits ==
    [][mem.pages_free >= MAXCNT + Cardinality(Table) /\ ~drifted =>
         \A v \in Virt, n \in 1 .. MAXCNT, spill \in 0 .. 1 :
             modit_elf_load(v, n, spill) => ~mem'.halted]_vars

\* syscall_freepgs, "Freeing": a page is marked only while it has a use.
FreedComesBack ==
    ~mem.halted => mem.bits \cap Page \subseteq
        BOOT \cup reserved \cup {mem.pages[v] : v \in Virt} \cup Range(mem.tables)
=============================================================================
