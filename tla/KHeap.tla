------------------------------- MODULE KHeap -------------------------------
(***************************************************************************)
(* The kernel heap, module/heap/main.c: a list of bins in address order,   *)
(* the headers that describe them, and the pages mapped under them.  Every *)
(* call holds heap_lock from end to end, so a call is one action.          *)
(* Addresses count bytes from BIN_START.                                   *)
(***************************************************************************)
EXTENDS Naturals, SequencesExt

CONSTANTS
    PAGE,       \* bytes in a page
    Request,    \* the requests made: records [size, align]; kalloc asks for align 1
    HEAPMAX     \* bound: bytes the heap may span

GRAIN == 16

ASSUME PageAssumption == PAGE \in Nat \ {0} /\ PAGE % GRAIN = 0
ASSUME RequestAssumption ==
    \A req \in Request : /\ req.size \in Nat \ {0}
                         /\ req.align \in Nat \ {0}
                         /\ req.align = 1 \/ req.align % GRAIN = 0

ASSUME HeapMaxAssumption == HEAPMAX \in Nat

VARIABLES
    heap,       \* [bins, empties, hiaddr, mapped]
    live        \* history: the blocks handed out and not freed, [addr, size]

vars == <<heap, live>>

\* A bin: its header (a place in the header array), its block, its taken bit.
Bin == [hdr : Nat, addr : Nat, size : Nat \ {0}, taken : BOOLEAN]

\* heap_init: one free bin of one page, which is mapped.
heap_init == [bins    |-> <<[hdr |-> 0, addr |-> 0, size |-> PAGE, taken |-> FALSE]>>,
              empties |-> <<>>,
              hiaddr  |-> 0,
              mapped  |-> {0}]

Init == heap = heap_init /\ live = {}

-----------------------------------------------------------------------------
(* The list of bins.                                                       *)

RoundUp(n, m) == ((n + m - 1) \div m) * m

EndOf(bin) == bin.addr + bin.size

\* Where a block may start.
Places == {p \in 0 .. HEAPMAX : p % GRAIN = 0}

\* The pages a call of allocpgs visits: it counts them from the page of addr,
\* by the size alone.
PagesFrom(addr, size) ==
    LET first == addr \div PAGE
    IN  first .. first + RoundUp(size, PAGE) \div PAGE - 1

allocpgs(h, addr, size) == [h EXCEPT !.mapped = @ \cup PagesFrom(addr, size)]

\* Mutant: a header taken from the list of empty ones stays in it.
Bug_find_free_bin(h) ==
    IF h.empties # <<>>
    THEN [hdr |-> Head(h.empties), empties |-> h.empties, hiaddr |-> h.hiaddr]
    ELSE [hdr |-> h.hiaddr + 1, empties |-> <<>>, hiaddr |-> h.hiaddr + 1]

\* A header for a new bin: the first empty one, or the next of the array.
find_free_bin(h) ==
    IF h.empties # <<>>
    THEN [hdr |-> Head(h.empties), empties |-> Tail(h.empties), hiaddr |-> h.hiaddr]
    ELSE [hdr |-> h.hiaddr + 1, empties |-> <<>>, hiaddr |-> h.hiaddr + 1]

\* Link a free bin after the i-th, unless it has no bytes, and map its block.
add_bin(h, i, addr, size) ==
    IF size = 0 THEN h ELSE
    LET f   == find_free_bin(h)
        bin == [hdr |-> f.hdr, addr |-> addr, size |-> size, taken |-> FALSE]
    IN  allocpgs([h EXCEPT !.bins    = InsertAt(@, i + 1, bin),
                           !.empties = f.empties,
                           !.hiaddr  = f.hiaddr],
                 addr, size + PAGE)

\* Unlink the i-th bin; its header goes to the end of the empty ones.
remove_bin(h, i) == [h EXCEPT !.bins    = RemoveAt(@, i),
                              !.empties = Append(@, h.bins[i].hdr)]

append_bin(h, size) == add_bin(h, Len(h.bins), EndOf(Last(h.bins)), size)

\* Mutant: the bin keeps the bytes it gave away.
Bug_split_bin(h, i, s) ==
    LET bin == h.bins[i]
    IN  IF bin.size = s THEN h ELSE add_bin(h, i, bin.addr + s, bin.size - s)

\* Keep s bytes in the i-th bin and give the others to a new one after it.
split_bin(h, i, s) ==
    LET bin == h.bins[i]
    IN  IF bin.size = s THEN h
        ELSE [add_bin(h, i, bin.addr + s, bin.size - s) EXCEPT !.bins[i].size = s]

IsFree(h, i) == i \in DOMAIN h.bins /\ ~h.bins[i].taken

MergeNext(h, i) ==
    IF ~IsFree(h, i + 1) THEN h
    ELSE remove_bin([h EXCEPT !.bins[i].size = @ + h.bins[i + 1].size], i + 1)

MergePrev(h, i) ==
    IF ~IsFree(h, i - 1) THEN h
    ELSE LET prev == h.bins[i - 1]
         IN  remove_bin([h EXCEPT !.bins[i].size = @ + prev.size,
                                  !.bins[i].addr = prev.addr], i - 1)

\* Mutant: the block before is not merged.
Bug_merge_bin(h, i) == MergeNext(h, i)

\* One turn of the loop of merge_bin on a free bin.  A second turn finds no
\* free neighbour: that is Coalesced, which holds after every call.
merge_bin(h, i) == MergePrev(MergeNext(h, i), i)

-----------------------------------------------------------------------------
(* kalloc, kalloc_a, kfree.                                                *)

\* Mutant: the alignment is not tested.
Bug_Fitting(h, s, a) == {i \in DOMAIN h.bins : ~h.bins[i].taken /\ h.bins[i].size >= s}

\* The free bins large enough at an address with the alignment.
Fitting(h, s, a) == {i \in DOMAIN h.bins : /\ ~h.bins[i].taken
                                           /\ h.bins[i].size >= s
                                           /\ h.bins[i].addr % a = 0}

\* The first of the smallest bins that fit, or 0.
find_best_fit(h, s, a) ==
    LET fits == Fitting(h, s, a)
    IN  IF fits = {} THEN 0
        ELSE CHOOSE i \in fits :
                 \A j \in fits : \/ h.bins[i].size < h.bins[j].size
                                 \/ h.bins[i].size = h.bins[j].size /\ i <= j

\* kalloc with no bin that fits: append one, or stretch the free last one.
Grow(h, rsize) ==
    LET n == Len(h.bins)
    IN  IF h.bins[n].taken THEN append_bin(h, rsize)
        ELSE allocpgs([h EXCEPT !.bins[n].size = rsize], h.bins[n].addr, rsize + 1)

\* kalloc_a with no bin that fits: bring the end of the heap to the alignment,
\* by a free bin or by resizing the free last one, and append.
GrowAligned(h, rsize, a) ==
    LET n    == Len(h.bins)
        last == h.bins[n]
        pad  == a - (last.addr % a)
    IN  IF last.taken
        THEN append_bin(append_bin(h, (a - (EndOf(last) % a)) % a), rsize)
        ELSE append_bin(allocpgs([h EXCEPT !.bins[n].size = pad], last.addr, pad), rsize)

\* Split the i-th bin and mark it taken.
Claim(h, i, rsize) == [split_bin(h, i, rsize) EXCEPT !.bins[i].taken = TRUE]

Allocate(req) ==
    LET rsize == RoundUp(req.size, GRAIN)
        best  == find_best_fit(heap, rsize, req.align)
        grown == IF req.align = 1 THEN Grow(heap, rsize)
                                  ELSE GrowAligned(heap, rsize, req.align)
        h     == IF best # 0 THEN heap ELSE grown
        i     == IF best # 0 THEN best ELSE Len(grown.bins)
    IN  /\ EndOf(Last(h.bins)) <= HEAPMAX
        /\ heap' = Claim(h, i, rsize)
        /\ live' = live \cup {[addr |-> h.bins[i].addr, size |-> req.size]}

kalloc   == \E req \in Request : req.align = 1 /\ Allocate(req)
kalloc_a == \E req \in Request : req.align # 1 /\ Allocate(req)

\* Clear taken in the first bin at p and merge it; nothing when there is none.
Release(p) ==
    LET at == {i \in DOMAIN heap.bins : heap.bins[i].addr = p}
    IN  heap' = IF at = {} THEN heap
                ELSE LET i == CHOOSE i \in at : \A j \in at : i <= j
                     IN  merge_bin([heap EXCEPT !.bins[i].taken = FALSE], i)

\* The owner of a block frees it.
kfree == \E block \in live : Release(block.addr) /\ live' = live \ {block}

\* syscall_msg_free passes on whatever pointer the process gives it.  One that
\* is a block in use is freed by kfree above, whoever asked for it; here it is
\* none, such as one freed before.
kfree_stale ==
    \E p \in Places :
        /\ \A block \in live : block.addr # p
        /\ Release(p)
        /\ UNCHANGED live

Next == kalloc \/ kalloc_a \/ kfree \/ kfree_stale

Spec == Init /\ [][Next]_vars

-----------------------------------------------------------------------------
(* Properties.                                                             *)

\* Type invariant: no bin is empty, headers and pages are places.
TypeOK ==
    /\ heap.bins \in Seq(Bin) /\ heap.bins # <<>>
    /\ heap.empties \in Seq(Nat)
    /\ heap.hiaddr \in Nat
    /\ heap.mapped \subseteq Nat

\* The bins tile the heap: the first starts at BIN_START and each ends where
\* the next one begins, through every split, merge and change of the last bin;
\* and the taken ones are, rounded up, the blocks in use.
BinsTileHeap ==
    /\ heap.bins[1].addr = 0
    /\ \A i \in 1 .. Len(heap.bins) - 1 : EndOf(heap.bins[i]) = heap.bins[i + 1].addr
    /\ {<<b.addr, b.size>> : b \in {b \in Range(heap.bins) : b.taken}}
           = {<<b.addr, RoundUp(b.size, GRAIN)>> : b \in live}

\* No two neighbours are free, whatever order blocks are freed in: one turn of
\* merge_bin's loop is enough, and a heap with nothing in use is one bin.
Coalesced == \A i \in 1 .. Len(heap.bins) - 1 : heap.bins[i].taken \/ heap.bins[i + 1].taken

\* Every header of the array describes one bin or is empty, never both: the
\* moves of find_free_bin and remove_bin between the two lists lose none; and
\* every value has its type, so that no header describes an empty bin.
HeadersConserved ==
    LET used == [i \in DOMAIN heap.bins |-> heap.bins[i].hdr] \o heap.empties
    IN  TypeOK /\ IsInjective(used) /\ Range(used) = 0 .. heap.hiaddr

Memory == INSTANCE Allocator WITH Address <- Places

\* The heap implements the allocator its callers rely on: blocks in use never
\* overlap, move or vanish, and freeing a pointer that is not in use is nothing.
ImplementsAllocator == Memory!Spec

\* heap.h says of kalloc "Pointer to memory allocated": every page of a block
\* in use is mapped.  Stretching the free last bin maps by its size alone,
\* from the page it starts in, so the last page may be missing.
BlocksMapped ==
    \A b \in live : (b.addr \div PAGE) .. ((b.addr + b.size - 1) \div PAGE) \subseteq heap.mapped
=============================================================================
