------------------------------ MODULE UserHeap ------------------------------
(***************************************************************************)
(* malloc, realloc and free of lib/libc/stdlib/heap.c, pointer by pointer. *)
(* The code has the shape of the kernel heap but relinks its headers       *)
(* differently: a removed header keeps its links, so the list of bins and  *)
(* the list of empty headers may run into each other.  The pages under the *)
(* heap are left out.                                                      *)
(***************************************************************************)
EXTENDS Naturals, FiniteSets

CONSTANTS
    INITIAL,        \* bytes of the first bin
    Sizes,          \* the sizes asked for
    MAXBINS,        \* bound: headers in use
    HEAPMAX         \* bound: bytes the heap may span

ASSUME InitialAssumption == INITIAL \in Nat \ {0} /\ MAXBINS \in Nat \ {0} /\ HEAPMAX \in Nat
ASSUME SizesAssumption   == Sizes \subseteq Nat \ {0}

Header == 1 .. MAXBINS          \* headers, by their place from PG_BIN_START on

VARIABLES
    heap,           \* bin, bin_head, bin_tail, bin_next, ehead, fault
    \* history
    live,           \* the blocks handed out and not freed, [addr, size, kept]: size
                    \* is what the program may use, kept that realloc said so on
                    \* the word of an unset pointer
    merged          \* some call of free has merged bins

heapVars == <<heap, live, merged>>

Zero == [prev |-> 0, next |-> 0, addr |-> 0, size |-> 0, taken |-> FALSE]

\* __heap_setup(true): one free bin.
__heap_setup ==
    [bin      |-> [b \in Header |-> IF b = 1 THEN [Zero EXCEPT !.size = INITIAL] ELSE Zero],
     bin_head |-> 1, bin_tail |-> 1, bin_next |-> 1, ehead |-> 0, fault |-> "no"]

HeapInit == heap = __heap_setup /\ live = {} /\ merged = FALSE

-----------------------------------------------------------------------------
(* Lists of headers.                                                       *)

\* The header k links after b, or 0.
After(u, b, k) ==
    LET at[j \in 0 .. k] == IF j = 0 THEN b
                            ELSE IF at[j - 1] = 0 THEN 0
                            ELSE u.bin[at[j - 1]].next
    IN  at[k]

\* A loop along next from b never meets a null pointer.
Endless(u, b) == After(u, b, MAXBINS) # 0

\* The positions of the list from b on that hold a header.
Chain(u, b) == {k \in 0 .. MAXBINS - 1 : After(u, b, k) # 0}

LastOf(u, b) == After(u, b, Cardinality(Chain(u, b)) - 1)

Fault(u, what) == [u EXCEPT !.fault = what]

\* The header find_free_bin returns, and the lists it leaves.
FreeHeader(u) == IF u.ehead # 0 THEN u.ehead ELSE u.bin_next + 1

find_free_bin(u) ==
    IF u.ehead # 0 THEN [u EXCEPT !.ehead = u.bin[u.ehead].next]
                      ELSE [u EXCEPT !.bin_next = @ + 1]

\* The assignments of add_bin to links, in their order: the new header may be
\* one that is still linked, the parent even.
Linked(u, parent, new) ==
    LET cleared == [u EXCEPT !.bin[new] = Zero]
        next    == cleared.bin[parent].next
        linked  == [cleared EXCEPT !.bin[new] = [Zero EXCEPT !.next = next, !.prev = parent]]
        back    == IF next = 0 THEN linked ELSE [linked EXCEPT !.bin[next].prev = new]
    IN  [back EXCEPT !.bin[parent].next = new, !.bin_tail = IF @ = parent THEN new ELSE @]

add_bin(u, parent, addr, size) ==
    LET new == FreeHeader(u)
    IN  [Linked(find_free_bin(u), parent, new)
            EXCEPT !.bin[new] = [@ EXCEPT !.size = size, !.taken = FALSE, !.addr = addr]]

\* The removed header keeps its next and is put at the end of what is linked
\* from ehead.
remove_bin(u, b) ==
    LET prev == u.bin[b].prev
        next == u.bin[b].next
        fwd  == IF next = 0 THEN u ELSE [u EXCEPT !.bin[next].prev = prev]
        out  == IF prev = 0 THEN fwd ELSE [fwd EXCEPT !.bin[prev].next = next]
        ends == [out EXCEPT !.bin_head = IF @ = b THEN out.bin[b].next ELSE @,
                            !.bin_tail = IF @ = b THEN out.bin[b].prev ELSE @]
    IN  IF out.bin_head = b /\ out.bin_tail = b THEN out
        ELSE IF ends.ehead = 0 THEN [ends EXCEPT !.ehead = b]
        ELSE IF Endless(ends, ends.ehead) THEN Fault(ends, "hang")
        ELSE LET e == LastOf(ends, ends.ehead)
             IN  [ends EXCEPT !.bin[e].next = b, !.bin[b].prev = e]

split_bin(u, b, s) ==
    IF u.bin[b].size = s THEN u
    ELSE [add_bin(u, b, u.bin[b].addr + s, u.bin[b].size - s)
            EXCEPT !.bin[b].size = s, !.bin[b].taken = FALSE]

BothFree(u, b, c) == b # 0 /\ c # 0 /\ ~u.bin[b].taken /\ ~u.bin[c].taken

\* Absorb the bin after: bin_head moves to the bin that is then removed.
MergeNext(u, b) ==
    LET next == u.bin[b].next
    IN  IF ~BothFree(u, b, next) THEN u
        ELSE remove_bin([u EXCEPT !.bin[b].size = @ + u.bin[next].size,
                                  !.bin_tail    = IF @ = next THEN b ELSE @,
                                  !.bin_head    = IF @ = b THEN next ELSE @],
                        next)

\* Absorb the bin before: the size grows, the address stays.
MergePrev(u, b) ==
    LET prev == u.bin[b].prev
    IN  IF ~BothFree(u, b, prev) THEN u
        ELSE remove_bin([u EXCEPT !.bin[b].size = @ + u.bin[prev].size,
                                  !.bin_tail    = IF @ = b THEN prev ELSE @,
                                  !.bin_head    = IF @ = prev THEN b ELSE @],
                        prev)

\* The loop of merge_bin; one that goes on for more turns than there are
\* headers counts as endless.
merge_bin(u, b) ==
    LET Turn(v)   == IF v.fault # "no" THEN v ELSE MergePrev(MergeNext(v, b), b)
        turn[k \in 0 .. MAXBINS + 1] == IF k = 0 THEN u ELSE Turn(turn[k - 1])
    IN  IF turn[MAXBINS + 1] = turn[MAXBINS] THEN turn[MAXBINS]
        ELSE Fault(turn[MAXBINS], "hang")

-----------------------------------------------------------------------------
(* The calls, on a heap u that is not faulty.                              *)

\* Mutant: the search takes bins in use.
Bug_find_best_fit(u, s) ==
    LET at(k) == u.bin[After(u, u.bin_head, k)]
        fits  == {k \in Chain(u, u.bin_head) : at(k).size >= s}
    IN  IF fits = {} THEN 0
        ELSE After(u, u.bin_head,
                   CHOOSE k \in fits : \A j \in fits : \/ at(k).size < at(j).size
                                                       \/ at(k).size = at(j).size /\ k <= j)

\* The first of the smallest free bins that are large enough, or 0.
find_best_fit(u, s) ==
    LET at(k) == u.bin[After(u, u.bin_head, k)]
        fits  == {k \in Chain(u, u.bin_head) : ~at(k).taken /\ at(k).size >= s}
    IN  IF fits = {} THEN 0
        ELSE After(u, u.bin_head,
                   CHOOSE k \in fits : \A j \in fits : \/ at(k).size < at(j).size
                                                       \/ at(k).size = at(j).size /\ k <= j)

Even(s) == ((s + 1) \div 2) * 2

\* malloc of an even size: the heap after it and the block it returns.
Malloc(u, s) ==
    LET best == find_best_fit(u, s)
        tail == u.bin_tail
        end  == u.bin[tail].addr + u.bin[tail].size
        b    == IF best # 0 THEN best
                ELSE IF u.bin[tail].taken THEN FreeHeader(u) ELSE tail
        v    == IF best # 0 THEN u
                ELSE IF u.bin[tail].taken THEN add_bin(u, tail, end, s)
                ELSE [u EXCEPT !.bin[tail].size = s, !.bin[tail].taken = FALSE]
        done == [split_bin(v, b, s) EXCEPT !.bin[b].taken = TRUE]
    IN  IF Endless(u, u.bin_head) THEN [heap |-> Fault(u, "hang"), addr |-> 0]
        ELSE IF best = 0 /\ tail = 0 THEN [heap |-> Fault(u, "crash"), addr |-> 0]
        ELSE [heap |-> done, addr |-> done.bin[b].addr]

\* free: the first bin with the address is freed and merged; none, no effect.
Free(u, p) ==
    LET at == {k \in Chain(u, u.bin_head) : u.bin[After(u, u.bin_head, k)].addr = p}
    IN  IF at # {}
        THEN LET b == After(u, u.bin_head, CHOOSE k \in at : \A j \in at : k <= j)
             IN  merge_bin([u EXCEPT !.bin[b].taken = FALSE], b)
        ELSE IF Endless(u, u.bin_head) THEN Fault(u, "hang") ELSE u

\* The bounds: a call needs at most one new header.
InBounds(u) ==
    /\ u.ehead # 0 \/ u.bin_next < MAXBINS
    /\ \A b \in Header : u.bin[b].addr + u.bin[b].size <= HEAPMAX

Room(u) == u.fault = "no" /\ InBounds(u)

Handed(addr, s, kept) == [addr |-> addr, size |-> s, kept |-> kept]

malloc ==
    \E s \in Sizes :
        LET m == Malloc(heap, Even(s)) IN
        /\ Room(heap)
        /\ heap' = m.heap
        /\ live' = IF m.heap.fault # "no" THEN live ELSE live \cup {Handed(m.addr, s, FALSE)}
        /\ UNCHANGED merged

Release(block) ==
    /\ heap.fault = "no"
    /\ heap' = Free(heap, block.addr)
    /\ live' = live \ {block}
    /\ merged' = (merged \/ heap'.ehead # heap.ehead \/ heap'.fault # "no")

free == \E block \in live : Release(block)

\* The search of realloc goes round and meets neither the block nor an end.
Astray(u, p) == /\ Endless(u, u.bin_head)
                /\ \A k \in Chain(u, u.bin_head) : u.bin[After(u, u.bin_head, k)].addr # p

\* realloc searches with one variable and goes on with another of the same name,
\* which was never set.  Null: nothing is done.  No page there: the program ends.
\* Something that reads as a size: as large as asked for, the block stays;
\* smaller, a block is made, that many bytes are copied, which may run off the
\* pages of the old one, and the old block is freed.
Kept(block, s) ==
    /\ live' = (live \ {block}) \cup {Handed(block.addr, s, TRUE)}
    /\ UNCHANGED <<heap, merged>>

Faults(u) == heap' = u /\ UNCHANGED <<live, merged>>

Moved(block, s, m) ==
    /\ heap' = Free(m.heap, block.addr)
    /\ live' = (live \ {block}) \cup {Handed(m.addr, s, FALSE)}
    /\ merged' = (merged \/ heap'.ehead # m.heap.ehead \/ heap'.fault # "no")

Resize(block, s) ==
    LET m == Malloc(heap, Even(s)) IN
    IF Astray(heap, block.addr) THEN Faults(Fault(heap, "hang"))
    ELSE \/ UNCHANGED heapVars
         \/ Faults(Fault(heap, "unset"))
         \/ Kept(block, s)
         \/ m.heap.fault # "no" /\ Faults(m.heap)
         \/ m.heap.fault = "no" /\ Faults(Fault(m.heap, "unset"))
         \/ m.heap.fault = "no" /\ Moved(block, s, m)

\* Size 0 frees.
realloc ==
    \E block \in live : \/ Release(block)
                       \/ \E s \in Sizes : Room(heap) /\ Resize(block, s)

\* A crash, an endless loop or the bounds end the program.
Stopped == ~Room(heap) /\ UNCHANGED heapVars

HeapNext == malloc \/ free \/ realloc \/ Stopped

HeapSpec == HeapInit /\ [][HeapNext]_heapVars

-----------------------------------------------------------------------------
(* Properties.                                                             *)

Disjoint(b, c) == b.addr + b.size <= c.addr \/ c.addr + c.size <= b.addr

\* Type invariant: every pointer is null or a header that was handed out.
HeapTypeOK ==
    LET pointers == 0 .. heap.bin_next IN
    /\ heap.bin_next \in Header
    /\ {heap.bin_head, heap.bin_tail, heap.ehead} \subseteq pointers
    /\ \A b \in Header : heap.bin[b].prev \in pointers /\ heap.bin[b].next \in pointers
    /\ heap.fault \in {"no", "crash", "hang", "unset"}

\* Until bins are merged for the first time nothing faults but realloc, at the
\* pointer it never set; every block is found from bin_head in a bin in use that is
\* large enough, and overlaps no other, unless realloc let it stand with a size of
\* its own; the list ends at bin_tail, prev undoes next, and each bin ends where the
\* next begins, through best fits, splits and growth, and blocks freed between
\* others.  Pointers have their type after it, too.
SoundUntilMerge ==
    /\ HeapTypeOK
    /\ ~merged /\ heap.fault # "unset" =>
          /\ heap.fault = "no"
          /\ \A b, c \in live : b # c /\ ~b.kept /\ ~c.kept => Disjoint(b, c)
          /\ \A b \in live : \E k \in Chain(heap, heap.bin_head) :
                 LET bin == heap.bin[After(heap, heap.bin_head, k)]
                 IN  bin.taken /\ bin.addr = b.addr /\ (~b.kept => bin.size >= b.size)
          /\ ~Endless(heap, heap.bin_head) /\ LastOf(heap, heap.bin_head) = heap.bin_tail
          /\ \A b \in Header :
                 LET c == heap.bin[b].next IN
                 c # 0 => /\ heap.bin[c].prev = b
                          /\ heap.bin[c].addr = heap.bin[b].addr + heap.bin[b].size

\* Violated.  stdlib.h:10, malloc returns a "Pointer to new memory": no two blocks in
\* use overlap that malloc sized.  merge_bin keeps the address of the later of two
\* bins it joins.
BlocksDisjoint == \A b, c \in live : b # c /\ ~b.kept /\ ~c.kept => Disjoint(b, c)

\* Violated.  stdlib.h:22, free "Frees the memory space allocated by malloc": the bin
\* of a block in use can be found.  merge_bin moves bin_head to the header it removes.
BlocksFound ==
    \A b \in live : \E k \in Chain(heap, heap.bin_head) :
        heap.bin[After(heap, heap.bin_head, k)].addr = b.addr

\* Violated.  stdlib.h:14, realloc "Reallocates a buffer to grow it's size": it comes
\* back, and the bin of a block it leaves where it was has the size asked for.
ReallocGrows ==
    /\ heap.fault # "unset"
    /\ \A b \in live, k \in Chain(heap, heap.bin_head) :
           LET bin == heap.bin[After(heap, heap.bin_head, k)]
           IN  b.kept /\ bin.addr = b.addr => bin.size >= b.size
=============================================================================
