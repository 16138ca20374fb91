---------------------------- MODULE KHeapProofs ----------------------------
(***************************************************************************)
(* The kernel heap is tiled by its bins, no two free ones are neighbours,  *)
(* no header is lost, and it implements the allocator its callers rely on, *)
(* for every page size, every set of requests and every size of the heap.  *)
(***************************************************************************)
EXTENDS KHeap, SequenceTheorems, WellFoundedInduction, TLAPS

\* The heap: bins in link order, empty headers, the highest header, mapped pages.
HeapType == [bins : Seq(Bin), empties : Seq(Nat), hiaddr : Nat, mapped : SUBSET Nat]

\* Bins B tile the heap in grains.
Tiles(B) ==
    /\ B \in Seq(Bin) /\ Len(B) >= 1 /\ B[1].addr = 0
    /\ \A k \in 1 .. Len(B) : B[k].addr % GRAIN = 0 /\ B[k].size % GRAIN = 0
    /\ \A k \in 1 .. Len(B) - 1 : B[k].addr + B[k].size = B[k + 1].addr

\* Every header up to hi describes one bin of B or is one of the empty ones E.
Numbered(B, E, hi) ==
    /\ \A k, j \in 1 .. Len(B) : B[k].hdr = B[j].hdr => k = j
    /\ \A k, j \in 1 .. Len(E) : E[k] = E[j] => k = j
    /\ \A k \in 1 .. Len(B), j \in 1 .. Len(E) : B[k].hdr # E[j]
    /\ \A k \in 1 .. Len(B) : B[k].hdr <= hi
    /\ \A j \in 1 .. Len(E) : E[j] <= hi
    /\ \A y \in 0 .. hi : \/ \E k \in 1 .. Len(B) : B[k].hdr = y
                         \/ \E j \in 1 .. Len(E) : E[j] = y

\* A heap whose bins and headers are in order.
Sound(h) == h \in HeapType /\ Numbered(h.bins, h.empties, h.hiaddr)

\* A sound heap that is tiled.
Core(h) == Sound(h) /\ Tiles(h.bins)

\* Neighbours in B are free only at the places in X.
FreePairs(B, X) == \A k \in 1 .. Len(B) - 1 : B[k].taken \/ B[k + 1].taken \/ k \in X

\* B has a taken bin at address a of s bytes.
Used(B, a, s) == \E k \in 1 .. Len(B) : B[k].taken /\ B[k].addr = a /\ B[k].size = s

\* A block has an address of its own, and the bin under it is taken.
Blocks(B) ==
    /\ live \subseteq [addr : Nat, size : Nat \ {0}]
    /\ \A b, c \in live : b.addr = c.addr => b = c
    /\ \A b \in live : Used(B, b.addr, RoundUp(b.size, GRAIN))
    /\ \A a, s \in Nat : Used(B, a, s) => \E b \in live : b.addr = a /\ RoundUp(b.size, GRAIN) = s

\* The inductive invariant: no free bin beside another, and the blocks handed
\* out are the taken bins.
IInv == Core(heap) /\ FreePairs(heap.bins, {}) /\ Blocks(heap.bins)

\* C is B with a free bin after the i-th.
Added(B, C, i, a, s) ==
    /\ C \in Seq(Bin) /\ Len(C) = Len(B) + 1
    /\ \A k \in 1 .. i : C[k] = B[k]
    /\ \A k \in i + 2 .. Len(B) + 1 : C[k] = B[k - 1]
    /\ C[i + 1].addr = a /\ C[i + 1].size = s /\ ~C[i + 1].taken

\* Header x is the first of E, and F the others; or E has none and x is new.
Found(E, hi, x, F, hj) ==
    \/ /\ hj = hi /\ Len(E) >= 1 /\ x = E[1] /\ Len(F) = Len(E) - 1
       /\ \A j \in 1 .. Len(F) : F[j] = E[j + 1]
    \/ hj = hi + 1 /\ x = hj /\ Len(E) = 0 /\ Len(F) = 0

\* Header x is neither in use nor, with F and hj for E and hi, empty any more.
Fresh(B, E, hi, x, F, hj) ==
    /\ \A k \in 1 .. Len(B) : B[k].hdr # x
    /\ \A j \in 1 .. Len(F) : F[j] # x
    /\ \A j \in 1 .. Len(F) : \E k \in 1 .. Len(E) : F[j] = E[k]
    /\ \A j, k \in 1 .. Len(F) : F[j] = F[k] => j = k
    /\ x <= hj /\ hi <= hj
    /\ \A y \in 0 .. hj : \/ y = x \/ \E k \in 1 .. Len(B) : B[k].hdr = y
                         \/ \E j \in 1 .. Len(F) : F[j] = y

\* C is B without its i-th bin.
Dropped(B, C, i) ==
    /\ C \in Seq(Bin) /\ Len(C) = Len(B) - 1
    /\ \A k \in 1 .. i - 1 : C[k] = B[k]
    /\ \A k \in i .. Len(B) - 1 : C[k] = B[k + 1]

\* D is B with its i-th bin taken and cut to s bytes, the others in a free bin after it.
Cut(B, D, i, s) ==
    /\ D \in Seq(Bin) /\ Len(D) = Len(B) + 1
    /\ \A k \in 1 .. i - 1 : D[k] = B[k]
    /\ \A k \in i + 2 .. Len(B) + 1 : D[k] = B[k - 1]
    /\ D[i].addr = B[i].addr /\ D[i].size = s /\ D[i].taken
    /\ D[i + 1].addr = B[i].addr + s /\ D[i + 1].size = B[i].size - s /\ ~D[i + 1].taken

\* D is B with its i-th bin and the one after it made one free bin.
Merged(B, D, i) ==
    /\ D \in Seq(Bin) /\ Len(D) = Len(B) - 1
    /\ \A k \in 1 .. i - 1 : D[k] = B[k]
    /\ \A k \in i + 1 .. Len(B) - 1 : D[k] = B[k + 1]
    /\ D[i].addr = B[i].addr /\ D[i].size = B[i].size + B[i + 1].size /\ ~D[i].taken

\* The taken bins of D are those of B.
SameUsed(B, D) == \A a, z : Used(D, a, z) <=> Used(B, a, z)

\* The taken bins of D are those of B and s bytes at b.
MoreUsed(B, D, b, s) == \A a, z : Used(D, a, z) <=> Used(B, a, z) \/ (a = b /\ z = s)

\* The taken bins of D are those of B but for what is at b.
LessUsed(B, D, b) == \A a, z : Used(D, a, z) <=> Used(B, a, z) /\ a # b

\* D is B with s free bytes at its end in a bin of their own.
Longer(B, D, s) ==
    /\ Len(D) = Len(B) + 1 /\ \A k \in 1 .. Len(B) : D[k] = B[k]
    /\ D[Len(D)].addr = B[Len(B)].addr + B[Len(B)].size
    /\ D[Len(D)].size = s /\ ~D[Len(D)].taken
    /\ SameUsed(B, D)

\* D is B with s bytes in its last bin, a free one.
Stretched(B, D, s) ==
    /\ Len(D) = Len(B) /\ \A k \in 1 .. Len(B) - 1 : D[k] = B[k]
    /\ D[Len(D)].addr = B[Len(B)].addr /\ D[Len(D)].size = s /\ ~D[Len(D)].taken
    /\ SameUsed(B, D)

\* A free bin of h that an allocation of s bytes may claim: it has no free
\* neighbour but the one before it, which kalloc_a may have left as padding.
Ready(h, i, s) ==
    /\ Core(h) /\ i \in 1 .. Len(h.bins) /\ ~h.bins[i].taken /\ s <= h.bins[i].size
    /\ FreePairs(h.bins, {i - 1}) /\ (i < Len(h.bins) => h.bins[i + 1].taken)

\* C is B but for what its i-th bin says of its block.
Edited(B, C, i, a, s, t) ==
    /\ C \in Seq(Bin) /\ Len(C) = Len(B)
    /\ \A k \in 1 .. Len(B) : k # i => C[k] = B[k]
    /\ C[i].hdr = B[i].hdr /\ C[i].addr = a /\ C[i].size = s /\ C[i].taken = t

-----------------------------------------------------------------------------
(* Sequences.                                                              *)

\* t is s with e at place i.
ShiftedFrom(s, i, e, t) ==
    /\ t \in Seq(Bin) /\ Len(t) = Len(s) + 1 /\ t[i] = e
    /\ \A k \in 1 .. i - 1 : t[k] = s[k]
    /\ \A k \in i + 1 .. Len(s) + 1 : t[k] = s[k - 1]

\* InsertAt moves what comes after.
LEMMA Inserted ==
    ASSUME NEW s \in Seq(Bin), NEW i \in 1 .. Len(s) + 1, NEW e \in Bin
    PROVE  ShiftedFrom(s, i, e, InsertAt(s, i, e))
<1> DEFINE a == SubSeq(s, 1, i - 1)
           b == SubSeq(s, i, Len(s))
           n == Len(s)
<1>0. n \in Nat /\ i \in Nat /\ i >= 1 /\ i <= n + 1 /\ \A k \in 1 .. n : s[k] \in Bin
  BY LenProperties, ElementOfSeq
<1>1. /\ a \in Seq(Bin) /\ Len(a) = i - 1
      /\ \A k \in 1 .. i - 1 : a[k] = s[k]
  <2>1. /\ a \in Seq(Bin) /\ Len(a) = (IF 1 <= i - 1 THEN (i - 1) - 1 + 1 ELSE 0)
        /\ \A k \in 1 .. (i - 1) - 1 + 1 : a[k] = s[1 + k - 1]
    BY <1>0, SubSeqProperties
  <2> HIDE DEF a
  <2> QED BY <1>0, <2>1
<1>2. /\ b \in Seq(Bin) /\ Len(b) = n - i + 1
      /\ \A k \in 1 .. n - i + 1 : b[k] = s[i + k - 1]
  <2>1. /\ b \in Seq(Bin) /\ Len(b) = (IF i <= n THEN n - i + 1 ELSE 0)
        /\ \A k \in 1 .. n - i + 1 : b[k] = s[i + k - 1]
    BY <1>0, SubSeqProperties
  <2> HIDE DEF b
  <2> QED BY <1>0, <2>1
<1>3. <<e>> \in Seq(Bin) /\ Len(<<e>>) = 1 /\ <<e>>[1] = e
  OBVIOUS
<1>4. InsertAt(s, i, e) = a \o <<e>> \o b
  BY DEF InsertAt
<1> HIDE DEF a, b
<1> DEFINE c == a \o <<e>>
<1>5. /\ c \in Seq(Bin) /\ Len(c) = i /\ c[i] = e
      /\ \A k \in 1 .. i - 1 : c[k] = s[k]
  <2> DEFINE o == <<e>>
  <2>1. o \in Seq(Bin) /\ Len(o) = 1 /\ o[1] = e
    BY <1>3
  <2> HIDE DEF o
  <2>2. /\ a \o o \in Seq(Bin) /\ Len(a \o o) = Len(a) + Len(o)
        /\ \A k \in 1 .. Len(a) + Len(o) : (a \o o)[k] = IF k <= Len(a) THEN a[k] ELSE o[k - Len(a)]
    BY <1>1, <2>1, ConcatProperties
  <2>3. a \o o \in Seq(Bin) /\ Len(a \o o) = i /\ (a \o o)[i] = e /\ \A k \in 1 .. i - 1 : (a \o o)[k] = s[k]
    BY <1>0, <1>1, <2>1, <2>2
  <2> QED BY <2>3 DEF o
<1> HIDE DEF c
<1>6. /\ c \o b \in Seq(Bin) /\ Len(c \o b) = Len(c) + Len(b)
      /\ \A k \in 1 .. Len(c) + Len(b) : (c \o b)[k] = IF k <= Len(c) THEN c[k] ELSE b[k - Len(c)]
  BY <1>2, <1>5, ConcatProperties
<1> DEFINE t == c \o b
<1>7. InsertAt(s, i, e) = t
  BY <1>4 DEF c
<1> HIDE DEF t
<1>8. /\ t \in Seq(Bin) /\ Len(t) = n + 1
      /\ \A k \in 1 .. n + 1 : t[k] = IF k <= i THEN c[k] ELSE b[k - i]
  BY <1>0, <1>2, <1>5, <1>6 DEF t
<1>9. t[i] = e /\ \A k \in 1 .. i - 1 : t[k] = s[k]
  BY <1>0, <1>5, <1>8
<1>10. \A k \in i + 1 .. n + 1 : t[k] = s[k - 1]
  BY <1>0, <1>2, <1>8
<1> QED BY <1>7, <1>8, <1>9, <1>10 DEF ShiftedFrom

\* RemoveAt closes the gap.
LEMMA Removed ==
    ASSUME NEW s \in Seq(Bin), NEW i \in 1 .. Len(s)
    PROVE  LET t == RemoveAt(s, i) IN
           /\ t \in Seq(Bin) /\ Len(t) = Len(s) - 1
           /\ \A k \in 1 .. i - 1 : t[k] = s[k]
           /\ \A k \in i .. Len(s) - 1 : t[k] = s[k + 1]
<1> DEFINE a == SubSeq(s, 1, i - 1)
           b == SubSeq(s, i + 1, Len(s))
           n == Len(s)
<1>0. n \in Nat /\ i \in Nat /\ i >= 1 /\ i <= n /\ \A k \in 1 .. n : s[k] \in Bin
  BY LenProperties, ElementOfSeq
<1>1. /\ a \in Seq(Bin) /\ Len(a) = i - 1
      /\ \A k \in 1 .. i - 1 : a[k] = s[k]
  <2>1. /\ a \in Seq(Bin) /\ Len(a) = (IF 1 <= i - 1 THEN (i - 1) - 1 + 1 ELSE 0)
        /\ \A k \in 1 .. (i - 1) - 1 + 1 : a[k] = s[1 + k - 1]
    BY <1>0, SubSeqProperties
  <2> HIDE DEF a
  <2> QED BY <1>0, <2>1
<1>2. /\ b \in Seq(Bin) /\ Len(b) = n - i
      /\ \A k \in 1 .. n - i : b[k] = s[i + k]
  <2>1. /\ b \in Seq(Bin) /\ Len(b) = (IF i + 1 <= n THEN n - (i + 1) + 1 ELSE 0)
        /\ \A k \in 1 .. n - (i + 1) + 1 : b[k] = s[i + 1 + k - 1]
    BY <1>0, SubSeqProperties
  <2> HIDE DEF b
  <2> QED BY <1>0, <2>1
<1>3. RemoveAt(s, i) = a \o b
  BY DEF RemoveAt
<1> HIDE DEF a, b
<1>4. /\ a \o b \in Seq(Bin) /\ Len(a \o b) = Len(a) + Len(b)
      /\ \A k \in 1 .. Len(a) + Len(b) : (a \o b)[k] = IF k <= Len(a) THEN a[k] ELSE b[k - Len(a)]
  BY <1>1, <1>2, ConcatProperties
<1> DEFINE t == a \o b
<1>5. RemoveAt(s, i) = t
  BY <1>3
<1> HIDE DEF t
<1>6. /\ t \in Seq(Bin) /\ Len(t) = n - 1
      /\ \A k \in 1 .. n - 1 : t[k] = IF k <= i - 1 THEN a[k] ELSE b[k - (i - 1)]
  BY <1>0, <1>1, <1>2, <1>4 DEF t
<1>7. \A k \in 1 .. i - 1 : t[k] = s[k]
  <2>1. \A k \in 1 .. i - 1 : k \in 1 .. n - 1 /\ k <= i - 1
    BY <1>0
  <2> QED BY <1>1, <1>6, <2>1
<1>8. \A k \in i .. n - 1 : t[k] = s[k + 1]
  BY <1>0, <1>2, <1>6
<1> QED BY <1>5, <1>6, <1>7, <1>8

-----------------------------------------------------------------------------
(* The list of bins and the list of empty headers.                         *)

\* The fields of a bin of the list.
LEMMA Field ==
    ASSUME NEW B \in Seq(Bin)
    PROVE  /\ Len(B) \in Nat
           /\ \A k \in 1 .. Len(B) : /\ B[k] \in Bin /\ B[k].hdr \in Nat /\ B[k].addr \in Nat
                                    /\ B[k].size \in Nat /\ B[k].size > 0 /\ B[k].taken \in BOOLEAN
<1>1. Len(B) \in Nat /\ \A k \in 1 .. Len(B) : B[k] \in Bin
  BY LenProperties, ElementOfSeq
<1> QED BY <1>1 DEF Bin

\* Only the headers of the bins count.
LEMMA SameHeaders ==
    ASSUME NEW B \in Seq(Bin), NEW C \in Seq(Bin), NEW E, NEW hi, Numbered(B, E, hi),
           Len(C) = Len(B), \A k \in 1 .. Len(B) : C[k].hdr = B[k].hdr
    PROVE  Numbered(C, E, hi)
<1>1. \A k, j \in 1 .. Len(C) : C[k].hdr = C[j].hdr => k = j
  BY DEF Numbered
<1>2. \A k \in 1 .. Len(C), j \in 1 .. Len(E) : C[k].hdr # E[j]
  BY DEF Numbered
<1>3. \A k \in 1 .. Len(C) : C[k].hdr <= hi
  BY DEF Numbered
<1>4. \A y \in 0 .. hi : \/ \E k \in 1 .. Len(C) : C[k].hdr = y
                       \/ \E j \in 1 .. Len(E) : E[j] = y
  BY DEF Numbered
<1> QED BY <1>1, <1>2, <1>3, <1>4 DEF Numbered

\* Mapping pages moves no bin and no header.
LEMMA Mapped ==
    ASSUME NEW h, Sound(h), NEW a \in Nat, NEW s \in Nat
    PROVE  LET g == allocpgs(h, a, s) IN Sound(g) /\ g.bins = h.bins
<1> DEFINE P == PagesFrom(a, s)
           g == [h EXCEPT !.mapped = @ \cup P]
<1>1. a \div PAGE \in Nat
  BY PageAssumption
<1>2. P \subseteq Nat
  BY <1>1 DEF PagesFrom
<1> HIDE DEF P
<1>3. g \in HeapType /\ g.bins = h.bins /\ g.empties = h.empties /\ g.hiaddr = h.hiaddr
  BY <1>2 DEF Sound, HeapType
<1>4. allocpgs(h, a, s) = g
  BY DEF allocpgs, P
<1> QED BY <1>3, <1>4 DEF Sound

\* Editing a bin, but for its header, keeps the headers.
LEMMA EditBin ==
    ASSUME NEW h, Sound(h), NEW i \in 1 .. Len(h.bins), NEW a \in Nat, NEW s \in Nat \ {0},
           NEW t \in BOOLEAN, NEW b,
           b = [hdr |-> h.bins[i].hdr, addr |-> a, size |-> s, taken |-> t]
    PROVE  LET g == [h EXCEPT !.bins = [h.bins EXCEPT ![i] = b]]
           IN  Sound(g) /\ Edited(h.bins, g.bins, i, a, s, t)
<1> DEFINE B == h.bins
           C == [B EXCEPT ![i] = b]
           g == [h EXCEPT !.bins = C]
<1>1. B \in Seq(Bin) /\ B[i].hdr \in Nat
  BY Field DEF Sound, HeapType
<1>2. b \in Bin /\ b.hdr = B[i].hdr /\ b.addr = a /\ b.size = s /\ b.taken = t
  BY <1>1 DEF Bin
<1>3. C \in Seq(Bin) /\ Len(C) = Len(B) /\ \A k \in 1 .. Len(B) : C[k] = IF k = i THEN b ELSE B[k]
  BY <1>1, <1>2, ExceptSeq
<1> HIDE DEF C
<1>4. g \in HeapType /\ g.bins = C /\ g.empties = h.empties /\ g.hiaddr = h.hiaddr
  BY <1>3 DEF Sound, HeapType
<1>5. Edited(B, C, i, a, s, t)
  BY <1>2, <1>3 DEF Edited
<1>6. Len(C) = Len(B) /\ \A k \in 1 .. Len(B) : C[k].hdr = B[k].hdr
  BY <1>2, <1>3
<1>7. Numbered(C, h.empties, h.hiaddr)
  BY <1>1, <1>3, <1>6, SameHeaders DEF Sound
<1> QED BY <1>4, <1>5, <1>7 DEF Sound, C

\* find_free_bin's two ways to a header give a fresh one.
LEMMA FreshHeader ==
    ASSUME NEW B \in Seq(Bin), NEW E \in Seq(Nat), NEW hi \in Nat, Numbered(B, E, hi),
           NEW F \in Seq(Nat), NEW hj \in Nat, NEW x \in Nat,
           Found(E, hi, x, F, hj)
    PROVE  Fresh(B, E, hi, x, F, hj)
<1>0. /\ Len(B) \in Nat /\ Len(E) \in Nat /\ Len(F) \in Nat
      /\ \A k \in 1 .. Len(B) : B[k].hdr \in Nat
      /\ \A k \in 1 .. Len(E) : E[k] \in Nat
  <2>1. Len(B) \in Nat /\ \A k \in 1 .. Len(B) : B[k].hdr \in Nat
    BY Field
  <2>2. Len(E) \in Nat /\ Len(F) \in Nat /\ \A k \in 1 .. Len(E) : E[k] \in Nat
    BY LenProperties, ElementOfSeq
  <2> QED BY <2>1, <2>2
<1>a. \A k, j \in 1 .. Len(B) : B[k].hdr = B[j].hdr => k = j
  BY DEF Numbered
<1>b. \A k, j \in 1 .. Len(E) : E[k] = E[j] => k = j
  BY DEF Numbered
<1>c. \A k \in 1 .. Len(B), j \in 1 .. Len(E) : B[k].hdr # E[j]
  BY DEF Numbered
<1>d. /\ \A k \in 1 .. Len(B) : B[k].hdr <= hi
      /\ \A j \in 1 .. Len(E) : E[j] <= hi
  BY DEF Numbered
<1>e. \A y \in 0 .. hi : (\E k \in 1 .. Len(B) : B[k].hdr = y) \/ \E j \in 1 .. Len(E) : E[j] = y
  BY DEF Numbered
<1>2. /\ \A k \in 1 .. Len(B) : B[k].hdr # x
      /\ \A j \in 1 .. Len(F) : F[j] # x
      /\ \A j \in 1 .. Len(F) : \E k \in 1 .. Len(E) : F[j] = E[k]
      /\ \A j, k \in 1 .. Len(F) : F[j] = F[k] => j = k
      /\ x <= hj /\ hi <= hj
      /\ \A y \in 0 .. hj : \/ y = x \/ \E k \in 1 .. Len(B) : B[k].hdr = y
                           \/ \E j \in 1 .. Len(F) : F[j] = y
  <2>1. CASE /\ hj = hi /\ Len(E) >= 1 /\ x = E[1] /\ Len(F) = Len(E) - 1
             /\ \A j \in 1 .. Len(F) : F[j] = E[j + 1]
    <3>1. \A j \in 1 .. Len(F) : j + 1 \in 1 .. Len(E) /\ F[j] = E[j + 1] /\ j + 1 # 1
      <4>1. Len(F) = Len(E) - 1 /\ Len(E) \in Nat
        BY <1>0, <2>1
      <4>2. \A j \in 1 .. Len(F) : j + 1 \in 1 .. Len(E) /\ j + 1 # 1
        BY <4>1
      <4> QED BY <2>1, <4>2
    <3>2. 1 \in 1 .. Len(E)
      BY <1>0, <2>1
    <3>3. /\ \A k \in 1 .. Len(B) : B[k].hdr # x
          /\ \A j \in 1 .. Len(F) : F[j] # x
          /\ \A j \in 1 .. Len(F) : \E k \in 1 .. Len(E) : F[j] = E[k]
          /\ x <= hj /\ hi <= hj
      <4>1. \A k \in 1 .. Len(B) : B[k].hdr # x
        BY <1>c, <2>1, <3>2
      <4>2. \A j \in 1 .. Len(F) : F[j] # x
        BY <1>b, <2>1, <3>1, <3>2
      <4>3. x <= hj /\ hi <= hj
        BY <1>d, <2>1, <3>2
      <4> QED BY <3>1, <4>1, <4>2, <4>3
    <3>4. ASSUME NEW j \in 1 .. Len(F), NEW k \in 1 .. Len(F), F[j] = F[k] PROVE j = k
      <4>1. j + 1 = k + 1
        BY <1>b, <3>1, <3>4
      <4> QED BY <4>1
    <3>5. ASSUME NEW j \in 1 .. Len(E) PROVE E[j] = x \/ \E k \in 1 .. Len(F) : F[k] = E[j]
      <4>1. j = 1 \/ j - 1 \in 1 .. Len(F)
        BY <1>0, <2>1
      <4>2. j - 1 \in 1 .. Len(F) => F[j - 1] = E[j]
        BY <2>1
      <4> QED BY <2>1, <4>1, <4>2
    <3>6. \A y \in 0 .. hj : y = x \/ (\E k \in 1 .. Len(B) : B[k].hdr = y) \/ \E j \in 1 .. Len(F) : F[j] = y
      <4> TAKE y \in 0 .. hj
      <4>1. CASE \E k \in 1 .. Len(B) : B[k].hdr = y
        BY <4>1
      <4>2. CASE \E j \in 1 .. Len(E) : E[j] = y
        BY <3>5, <4>2
      <4> QED BY <1>e, <2>1, <4>1, <4>2
    <3> QED BY <3>3, <3>4, <3>6
  <2>2. CASE hj = hi + 1 /\ x = hj /\ Len(E) = 0 /\ Len(F) = 0
    <3>1. \A k \in 1 .. Len(B) : B[k].hdr # x
      BY <1>0, <1>d, <2>2
    <3>2. \A y \in 0 .. hj : y = x \/ y \in 0 .. hi
      BY <2>2
    <3>3. \A j \in 1 .. Len(E) : FALSE
      BY <2>2
    <3>4. \A j \in 1 .. Len(F) : FALSE
      BY <2>2
    <3>5. x <= hj /\ hi <= hj
      BY <2>2
    <3> QED BY <1>e, <3>1, <3>2, <3>3, <3>4, <3>5
  <2> QED BY <2>1, <2>2 DEF Found
<1> QED BY <1>2 DEF Fresh

\* C is B with a fresh header added.
LEMMA HeaderUsed ==
    ASSUME NEW B \in Seq(Bin), NEW E \in Seq(Nat), NEW hi \in Nat, Numbered(B, E, hi),
           NEW C \in Seq(Bin), NEW F \in Seq(Nat), NEW hj \in Nat, NEW x \in Nat,
           NEW i \in 1 .. Len(B), NEW a, NEW s, Added(B, C, i, a, s), C[i + 1].hdr = x,
           Fresh(B, E, hi, x, F, hj)
    PROVE  Numbered(C, F, hj)
<1>0. /\ Len(B) \in Nat /\ Len(E) \in Nat /\ Len(F) \in Nat /\ i \in Nat /\ i >= 1 /\ i <= Len(B)
      /\ \A k \in 1 .. Len(B) : B[k].hdr \in Nat
      /\ \A k \in 1 .. Len(E) : E[k] \in Nat
  <2>1. Len(B) \in Nat /\ \A k \in 1 .. Len(B) : B[k].hdr \in Nat
    BY Field
  <2>2. Len(E) \in Nat /\ Len(F) \in Nat /\ \A k \in 1 .. Len(E) : E[k] \in Nat
    BY LenProperties, ElementOfSeq
  <2> QED BY <2>1, <2>2
<1>a. \A k, j \in 1 .. Len(B) : B[k].hdr = B[j].hdr => k = j
  BY DEF Numbered
<1>b. \A k, j \in 1 .. Len(E) : E[k] = E[j] => k = j
  BY DEF Numbered
<1>c. \A k \in 1 .. Len(B), j \in 1 .. Len(E) : B[k].hdr # E[j]
  BY DEF Numbered
<1>d. /\ \A k \in 1 .. Len(B) : B[k].hdr <= hi
      /\ \A j \in 1 .. Len(E) : E[j] <= hi
  BY DEF Numbered
<1>e. \A y \in 0 .. hi : (\E k \in 1 .. Len(B) : B[k].hdr = y) \/ \E j \in 1 .. Len(E) : E[j] = y
  BY DEF Numbered
<1>1. /\ Len(C) = Len(B) + 1
      /\ \A k \in 1 .. i : C[k].hdr = B[k].hdr
      /\ \A k \in i + 2 .. Len(B) + 1 : C[k].hdr = B[k - 1].hdr
  BY DEF Added
<1>2. /\ \A k \in 1 .. Len(B) : B[k].hdr # x
      /\ \A j \in 1 .. Len(F) : F[j] # x
      /\ \A j \in 1 .. Len(F) : \E k \in 1 .. Len(E) : F[j] = E[k]
      /\ \A j, k \in 1 .. Len(F) : F[j] = F[k] => j = k
      /\ x <= hj /\ hi <= hj
      /\ \A y \in 0 .. hj : \/ y = x \/ \E k \in 1 .. Len(B) : B[k].hdr = y
                           \/ \E j \in 1 .. Len(F) : F[j] = y
  BY DEF Fresh
<1>3. \A k \in 1 .. Len(C) :
         \/ k = i + 1 /\ C[k].hdr = x
         \/ k \in 1 .. i /\ k \in 1 .. Len(B) /\ C[k].hdr = B[k].hdr
         \/ k \in i + 2 .. Len(C) /\ k - 1 \in 1 .. Len(B) /\ C[k].hdr = B[k - 1].hdr
  <2> TAKE k \in 1 .. Len(C)
  <2>1. k = i + 1 \/ (k \in 1 .. i /\ k \in 1 .. Len(B)) \/ (k \in i + 2 .. Len(B) + 1 /\ k - 1 \in 1 .. Len(B))
    BY <1>0, <1>1
  <2> QED BY <1>1, <2>1
<1>4. ASSUME NEW k \in 1 .. Len(C), NEW j \in 1 .. Len(C), C[k].hdr = C[j].hdr PROVE k = j
  <2>1. k \in Int /\ j \in Int
    OBVIOUS
  <2>2. CASE k = i + 1 \/ j = i + 1
    <3>1. C[k].hdr = x /\ C[j].hdr = x
      BY <1>4, <2>2
    <3>2. ASSUME NEW l \in 1 .. Len(C), C[l].hdr = x PROVE l = i + 1
      <4>1. \A p \in 1 .. Len(B) : B[p].hdr # x
        BY <1>2
      <4> QED BY <1>3, <3>2, <4>1
    <3> QED BY <3>1, <3>2
  <2>3. CASE k # i + 1 /\ j # i + 1
    <3>0. ASSUME NEW l \in 1 .. Len(C), l # i + 1
          PROVE  \E p \in 1 .. Len(B) : /\ C[l].hdr = B[p].hdr
                                        /\ (l <= i /\ p = l) \/ (l >= i + 2 /\ p = l - 1)
      <4>1. CASE l \in 1 .. i /\ l \in 1 .. Len(B) /\ C[l].hdr = B[l].hdr
        <5>1. l <= i
          BY <1>0, <4>1
        <5> QED BY <4>1, <5>1
      <4>2. CASE l \in i + 2 .. Len(C) /\ l - 1 \in 1 .. Len(B) /\ C[l].hdr = B[l - 1].hdr
        <5>1. l >= i + 2
          BY <1>0, <4>2
        <5> QED BY <4>2, <5>1
      <4> QED BY <1>3, <3>0, <4>1, <4>2
    <3>1. PICK p \in 1 .. Len(B) : /\ C[k].hdr = B[p].hdr
                                   /\ (k <= i /\ p = k) \/ (k >= i + 2 /\ p = k - 1)
      BY <2>3, <3>0
    <3>2. PICK q \in 1 .. Len(B) : /\ C[j].hdr = B[q].hdr
                                   /\ (j <= i /\ q = j) \/ (j >= i + 2 /\ q = j - 1)
      BY <2>3, <3>0
    <3>3. p = q
      BY <1>4, <1>a, <3>1, <3>2
    <3> QED BY <1>0, <2>1, <3>1, <3>2, <3>3, SMTT(30)
  <2> QED BY <2>2, <2>3
<1>5. /\ \A k \in 1 .. Len(C), j \in 1 .. Len(F) : C[k].hdr # F[j]
      /\ \A k \in 1 .. Len(C) : C[k].hdr <= hj
      /\ \A j \in 1 .. Len(F) : F[j] <= hj
  <2>1. \A k \in 1 .. Len(C) : C[k].hdr = x \/ \E p \in 1 .. Len(B) : C[k].hdr = B[p].hdr
    BY <1>3
  <2>2. \A y \in Nat : y <= hi => y <= hj
    BY <1>2
  <2>3. \A k \in 1 .. Len(C), j \in 1 .. Len(F) : C[k].hdr # F[j]
    <3>1. /\ \A j \in 1 .. Len(F) : F[j] # x
          /\ \A j \in 1 .. Len(F) : \E k \in 1 .. Len(E) : F[j] = E[k]
      BY <1>2
    <3>2. \A p \in 1 .. Len(B), j \in 1 .. Len(F) : B[p].hdr # F[j]
      BY <1>c, <3>1
    <3> TAKE k \in 1 .. Len(C), j \in 1 .. Len(F)
    <3>3. CASE C[k].hdr = x
      BY <3>1, <3>3
    <3>4. CASE \E p \in 1 .. Len(B) : C[k].hdr = B[p].hdr
      BY <3>2, <3>4
    <3> QED BY <2>1, <3>3, <3>4
  <2>4. \A k \in 1 .. Len(C) : C[k].hdr <= hj
    BY <1>0, <1>2, <1>d, <2>1, <2>2
  <2>5. \A j \in 1 .. Len(F) : F[j] <= hj
    BY <1>0, <1>2, <1>d, <2>2
  <2> QED BY <2>3, <2>4, <2>5
<1>6. ASSUME NEW k \in 1 .. Len(B) PROVE \E j \in 1 .. Len(C) : C[j].hdr = B[k].hdr
  <2>1. CASE k <= i
    <3>1. k \in 1 .. Len(C) /\ k \in 1 .. i
      BY <1>0, <1>1, <2>1
    <3> QED BY <1>1, <3>1
  <2>2. CASE k > i
    <3>1. k + 1 \in 1 .. Len(C) /\ k + 1 \in i + 2 .. Len(B) + 1 /\ (k + 1) - 1 = k
      BY <1>0, <1>1, <2>2
    <3>2. C[k + 1].hdr = B[(k + 1) - 1].hdr
      BY <1>1, <3>1
    <3> QED BY <3>1, <3>2
  <2> QED BY <1>0, <2>1, <2>2
<1>7. i + 1 \in 1 .. Len(C)
  BY <1>0, <1>1
<1>8. \A y \in 0 .. hj : (\E k \in 1 .. Len(C) : C[k].hdr = y) \/ \E j \in 1 .. Len(F) : F[j] = y
  <2> TAKE y \in 0 .. hj
  <2>1. C[i + 1].hdr = x
    OBVIOUS
  <2>2. CASE y = x
    BY <1>7, <2>1, <2>2
  <2>3. CASE \E k \in 1 .. Len(B) : B[k].hdr = y
    BY <1>6, <2>3
  <2> QED BY <1>2, <2>2, <2>3
<1> QED BY <1>2, <1>4, <1>5, <1>8 DEF Numbered

\* InsertAt puts a bin after the i-th.
LEMMA InsertedBin ==
    ASSUME NEW B \in Seq(Bin), NEW i \in 1 .. Len(B), NEW bin \in Bin, ~bin.taken
    PROVE  LET C == InsertAt(B, i + 1, bin) IN Added(B, C, i, bin.addr, bin.size) /\ C[i + 1] = bin
<1> DEFINE n == i + 1
           C == InsertAt(B, n, bin)
<1>1. Len(B) \in Nat /\ n \in 1 .. Len(B) + 1
  BY LenProperties
<1>2. n = i + 1
  OBVIOUS
<1> HIDE DEF n
<1>3. ShiftedFrom(B, n, bin, C)
  BY <1>1, Inserted
<1> HIDE DEF C
<1>4. Added(B, C, i, bin.addr, bin.size) /\ C[i + 1] = bin
  BY <1>1, <1>2, <1>3 DEF Added, ShiftedFrom
<1> QED BY <1>2, <1>4 DEF C

\* A bin that is added has a header no other bin has.
LEMMA AddBin ==
    ASSUME NEW h, Sound(h), NEW i \in 1 .. Len(h.bins), NEW a \in Nat, NEW s \in Nat \ {0}
    PROVE  LET g == add_bin(h, i, a, s)
           IN  Sound(g) /\ Added(h.bins, g.bins, i, a, s)
<1> DEFINE f == find_free_bin(h)
           bin == [hdr |-> f.hdr, addr |-> a, size |-> s, taken |-> FALSE]
           C == InsertAt(h.bins, i + 1, bin)
           g == [h EXCEPT !.bins = C, !.empties = f.empties, !.hiaddr = f.hiaddr]
<1>0. /\ h.bins \in Seq(Bin) /\ h.empties \in Seq(Nat) /\ h.hiaddr \in Nat
      /\ Len(h.empties) \in Nat
  BY LenProperties DEF Sound, HeapType
<1>1. /\ f.hdr \in Nat /\ f.empties \in Seq(Nat) /\ f.hiaddr \in Nat
      /\ Found(h.empties, h.hiaddr, f.hdr, f.empties, f.hiaddr)
  <2>1. CASE h.empties # <<>>
    <3>1. /\ f.hdr = Head(h.empties) /\ f.empties = Tail(h.empties) /\ f.hiaddr = h.hiaddr
      BY <2>1 DEF find_free_bin
    <3>2. Len(h.empties) \in Nat \ {0}
      BY <1>0, <2>1, EmptySeq
    <3>3. h.empties[1] \in Nat /\ Head(h.empties) = h.empties[1]
      BY <1>0, <3>2, ElementOfSeq
    <3>4. /\ Tail(h.empties) \in Seq(Nat) /\ Len(Tail(h.empties)) = Len(h.empties) - 1
          /\ \A j \in 1 .. Len(Tail(h.empties)) : Tail(h.empties)[j] = h.empties[j + 1]
      BY <1>0, <2>1, HeadTailProperties
    <3> QED BY <1>0, <3>1, <3>2, <3>3, <3>4 DEF Found
  <2>2. CASE h.empties = <<>>
    <3>1. /\ f.hdr = h.hiaddr + 1 /\ f.empties = <<>> /\ f.hiaddr = h.hiaddr + 1
      BY <2>2 DEF find_free_bin
    <3>2. <<>> \in Seq(Nat) /\ Len(<<>>) = 0
      BY EmptySeq
    <3> QED BY <1>0, <2>2, <3>1, <3>2 DEF Found
  <2> QED BY <2>1, <2>2
<1> HIDE DEF f
<1>2. bin \in Bin /\ bin.hdr = f.hdr /\ bin.addr = a /\ bin.size = s /\ ~bin.taken
  BY <1>1 DEF Bin
<1> HIDE DEF bin
<1>3. Added(h.bins, C, i, a, s) /\ C[i + 1] = bin
  BY <1>0, <1>2, InsertedBin
<1> HIDE DEF C
<1>4. C \in Seq(Bin)
  BY <1>3 DEF Added
<1>5. g \in HeapType /\ g.bins = C /\ g.empties = f.empties /\ g.hiaddr = f.hiaddr
  BY <1>1, <1>4 DEF Sound, HeapType
<1>6. Numbered(C, f.empties, f.hiaddr)
  <2>1. Numbered(h.bins, h.empties, h.hiaddr)
    BY DEF Sound
  <2>2. Fresh(h.bins, h.empties, h.hiaddr, f.hdr, f.empties, f.hiaddr)
    BY <1>0, <1>1, <2>1, FreshHeader
  <2> QED BY <1>0, <1>1, <1>2, <1>3, <1>4, <2>1, <2>2, HeaderUsed
<1>7. Sound(g)
  BY <1>5, <1>6 DEF Sound
<1>8. s # 0 /\ s + PAGE \in Nat /\ add_bin(h, i, a, s) = allocpgs(g, a, s + PAGE)
  BY PageAssumption DEF add_bin, C, bin, f
<1> HIDE DEF g
<1>9. Sound(allocpgs(g, a, s + PAGE)) /\ allocpgs(g, a, s + PAGE).bins = C
  BY <1>5, <1>7, <1>8, Mapped
<1> QED BY <1>3, <1>8, <1>9

\* The headers when the i-th bin gives its own to the empty ones.
LEMMA HeaderFreed ==
    ASSUME NEW B \in Seq(Bin), NEW E \in Seq(Nat), NEW hi \in Nat, Numbered(B, E, hi),
           NEW i \in 1 .. Len(B), NEW C, Dropped(B, C, i),
           NEW F, Len(F) = Len(E) + 1, F[Len(E) + 1] = B[i].hdr,
           \A j \in 1 .. Len(E) : F[j] = E[j]
    PROVE  Numbered(C, F, hi)
<1>0. /\ Len(B) \in Nat /\ Len(E) \in Nat /\ i \in Nat /\ i >= 1 /\ i <= Len(B)
      /\ Len(C) = Len(B) - 1
      /\ \A k \in 1 .. Len(B) : B[k].hdr \in Nat
      /\ \A k \in 1 .. Len(E) : E[k] \in Nat
  <2>1. Len(B) \in Nat /\ \A k \in 1 .. Len(B) : B[k].hdr \in Nat
    BY Field
  <2>2. Len(E) \in Nat /\ \A k \in 1 .. Len(E) : E[k] \in Nat
    BY LenProperties, ElementOfSeq
  <2> QED BY <2>1, <2>2 DEF Dropped
<1>a. \A k, j \in 1 .. Len(B) : B[k].hdr = B[j].hdr => k = j
  BY DEF Numbered
<1>b. \A k, j \in 1 .. Len(E) : E[k] = E[j] => k = j
  BY DEF Numbered
<1>c. \A k \in 1 .. Len(B), j \in 1 .. Len(E) : B[k].hdr # E[j]
  BY DEF Numbered
<1>d. /\ \A k \in 1 .. Len(B) : B[k].hdr <= hi
      /\ \A j \in 1 .. Len(E) : E[j] <= hi
  BY DEF Numbered
<1>e. \A y \in 0 .. hi : (\E k \in 1 .. Len(B) : B[k].hdr = y) \/ \E j \in 1 .. Len(E) : E[j] = y
  BY DEF Numbered
<1>1. ASSUME NEW k \in 1 .. Len(C)
      PROVE  \E p \in 1 .. Len(B) : /\ p # i /\ C[k] = B[p]
                                    /\ (k < i /\ p = k) \/ (k >= i /\ p = k + 1)
  <2>1. CASE k < i
    <3>1. k \in 1 .. i - 1 /\ k \in 1 .. Len(B) /\ k # i
      BY <1>0, <2>1
    <3> QED BY <2>1, <3>1 DEF Dropped
  <2>2. CASE k >= i
    <3>1. k \in i .. Len(B) - 1 /\ k + 1 \in 1 .. Len(B) /\ k + 1 # i
      BY <1>0, <2>2
    <3> QED BY <2>2, <3>1 DEF Dropped
  <2> QED BY <1>0, <2>1, <2>2
<1>2. ASSUME NEW p \in 1 .. Len(B), p # i PROVE \E k \in 1 .. Len(C) : C[k] = B[p]
  <2>1. CASE p < i
    <3>1. p \in 1 .. i - 1 /\ p \in 1 .. Len(C)
      BY <1>0, <2>1
    <3> QED BY <3>1 DEF Dropped
  <2>2. CASE p > i
    <3>1. p - 1 \in i .. Len(B) - 1 /\ p - 1 \in 1 .. Len(C) /\ (p - 1) + 1 = p
      BY <1>0, <2>2
    <3>2. C[p - 1] = B[(p - 1) + 1]
      BY <3>1 DEF Dropped
    <3> QED BY <3>1, <3>2
  <2> QED BY <1>0, <1>2, <2>1, <2>2
<1>3. ASSUME NEW k \in 1 .. Len(C), NEW j \in 1 .. Len(C), C[k].hdr = C[j].hdr PROVE k = j
  <2>1. PICK p \in 1 .. Len(B) : C[k] = B[p] /\ ((k < i /\ p = k) \/ (k >= i /\ p = k + 1))
    BY <1>1
  <2>2. PICK q \in 1 .. Len(B) : C[j] = B[q] /\ ((j < i /\ q = j) \/ (j >= i /\ q = j + 1))
    BY <1>1
  <2>3. p = q
    BY <1>3, <1>a, <2>1, <2>2
  <2> QED BY <1>0, <2>1, <2>2, <2>3
<1>4. ASSUME NEW j \in 1 .. Len(F)
      PROVE  (j \in 1 .. Len(E) /\ F[j] = E[j]) \/ (j = Len(E) + 1 /\ F[j] = B[i].hdr)
  <2>1. j \in 1 .. Len(E) \/ j = Len(E) + 1
    BY <1>0
  <2> QED BY <2>1
<1>5. \A k, j \in 1 .. Len(F) : F[k] = F[j] => k = j
  BY <1>4, <1>b, <1>c
<1>6. \A k \in 1 .. Len(C), j \in 1 .. Len(F) : C[k].hdr # F[j]
  <2> TAKE k \in 1 .. Len(C), j \in 1 .. Len(F)
  <2>1. PICK p \in 1 .. Len(B) : p # i /\ C[k] = B[p]
    BY <1>1
  <2>2. C[k].hdr # B[i].hdr
    BY <1>a, <2>1
  <2> QED BY <1>4, <1>c, <2>1, <2>2
<1>7. \A k \in 1 .. Len(C) : C[k].hdr <= hi
  BY <1>1, <1>d
<1>8. \A j \in 1 .. Len(F) : F[j] <= hi
  BY <1>4, <1>d
<1>9. ASSUME NEW y \in 0 .. hi
      PROVE  (\E k \in 1 .. Len(C) : C[k].hdr = y) \/ \E j \in 1 .. Len(F) : F[j] = y
  <2>1. CASE \E k \in 1 .. Len(B) : B[k].hdr = y
    <3>1. PICK k \in 1 .. Len(B) : B[k].hdr = y
      BY <2>1
    <3>2. Len(E) + 1 \in 1 .. Len(F)
      BY <1>0
    <3> QED BY <1>2, <3>1, <3>2
  <2>2. CASE \E j \in 1 .. Len(E) : E[j] = y
    <3>1. PICK j \in 1 .. Len(E) : E[j] = y
      BY <2>2
    <3>2. j \in 1 .. Len(F)
      BY <1>0
    <3> QED BY <3>1, <3>2
  <2> QED BY <1>e, <2>1, <2>2
<1> QED BY <1>3, <1>5, <1>6, <1>7, <1>8, <1>9 DEF Numbered

\* remove_bin takes a bin from the list and keeps its header.
LEMMA RemoveBin ==
    ASSUME NEW h, Sound(h), NEW i \in 1 .. Len(h.bins)
    PROVE  LET g == remove_bin(h, i) IN Sound(g) /\ Dropped(h.bins, g.bins, i)
<1> DEFINE B == h.bins
           E == h.empties
           C == RemoveAt(B, i)
           F == Append(E, B[i].hdr)
           g == [h EXCEPT !.bins = C, !.empties = F]
<1>1. B \in Seq(Bin) /\ E \in Seq(Nat) /\ h.hiaddr \in Nat /\ B[i].hdr \in Nat
  BY Field DEF Sound, HeapType
<1>2. Dropped(B, C, i)
  BY <1>1, Removed DEF Dropped
<1>3. /\ F \in Seq(Nat) /\ Len(F) = Len(E) + 1 /\ F[Len(E) + 1] = B[i].hdr
      /\ \A j \in 1 .. Len(E) : F[j] = E[j]
  BY <1>1, AppendProperties
<1>4. remove_bin(h, i) = g
  BY DEF remove_bin
<1> HIDE DEF C, F
<1>5. C \in Seq(Bin)
  BY <1>2 DEF Dropped
<1>6. g \in HeapType /\ g.bins = C /\ g.empties = F /\ g.hiaddr = h.hiaddr
  BY <1>1, <1>3, <1>5 DEF Sound, HeapType
<1>7. Numbered(C, F, h.hiaddr)
  <2>1. Numbered(B, E, h.hiaddr)
    BY DEF Sound
  <2> QED BY <1>1, <1>2, <1>3, <2>1, HeaderFreed
<1> HIDE DEF g
<1> QED BY <1>2, <1>4, <1>6, <1>7 DEF Sound

\* The headers of the bins and the empty ones, one after the other.
LEMMA HeaderList ==
    ASSUME NEW B \in Seq(Bin), NEW E \in Seq(Nat), NEW hi \in Nat, Numbered(B, E, hi)
    PROVE  LET U == [i \in DOMAIN B |-> B[i].hdr] \o E
           IN  IsInjective(U) /\ Range(U) = 0 .. hi
<1> DEFINE H == [i \in DOMAIN B |-> B[i].hdr]
           U == H \o E
           n == Len(B)
           m == Len(E)
<1>1. /\ DOMAIN B = 1 .. n /\ n \in Nat /\ m \in Nat
      /\ \A k \in 1 .. n : B[k].hdr \in Nat
  BY LenProperties, Field
<1>2. H \in Seq(Nat) /\ Len(H) = n /\ \A k \in 1 .. n : H[k] = B[k].hdr
  <2>1. H = [k \in 1 .. n |-> B[k].hdr]
    BY <1>1
  <2> QED BY <1>1, <2>1, IsASeq
<1> HIDE DEF H
<1>3. /\ U \in Seq(Nat) /\ Len(U) = Len(H) + Len(E)
      /\ \A k \in 1 .. Len(H) + Len(E) : U[k] = IF k <= Len(H) THEN H[k] ELSE E[k - Len(H)]
  BY <1>2, ConcatProperties
<1>4. DOMAIN U = 1 .. Len(U)
  BY <1>3, LenProperties
<1> HIDE DEF U
<1>5. /\ Len(U) = n + m /\ DOMAIN U = 1 .. n + m
      /\ \A k \in 1 .. n + m : U[k] \in Nat /\ U[k] = IF k <= n THEN H[k] ELSE E[k - n]
  BY <1>2, <1>3, <1>4, ElementOfSeq
<1>6. /\ \A k, j \in 1 .. n : B[k].hdr = B[j].hdr => k = j
      /\ \A k, j \in 1 .. m : E[k] = E[j] => k = j
      /\ \A k \in 1 .. n, j \in 1 .. m : B[k].hdr # E[j]
      /\ \A k \in 1 .. n : B[k].hdr <= hi
      /\ \A j \in 1 .. m : E[j] <= hi
      /\ \A y \in 0 .. hi : (\E k \in 1 .. n : B[k].hdr = y) \/ \E j \in 1 .. m : E[j] = y
  BY DEF Numbered
<1> HIDE DEF n, m
<1>7. ASSUME NEW k \in 1 .. n + m
      PROVE  \/ k \in 1 .. n /\ U[k] = B[k].hdr
             \/ k > n /\ k - n \in 1 .. m /\ U[k] = E[k - n]
  <2>1. k \in 1 .. n \/ (k > n /\ k - n \in 1 .. m /\ ~(k <= n))
    BY <1>1
  <2>2. k \in 1 .. n => k <= n
    BY <1>1
  <2> QED BY <1>2, <1>5, <2>1, <2>2
<1>8. ASSUME NEW j \in 1 .. n + m, NEW k \in 1 .. n + m, U[j] = U[k] PROVE j = k
  <2>1. CASE j \in 1 .. n /\ k \in 1 .. n
    <3>1. U[j] = B[j].hdr /\ U[k] = B[k].hdr
      BY <1>1, <1>7, <2>1
    <3> QED BY <1>6, <1>8, <2>1, <3>1
  <2>2. CASE j > n /\ k > n
    <3>1. j - n \in 1 .. m /\ k - n \in 1 .. m /\ E[j - n] = E[k - n]
      BY <1>1, <1>7, <1>8, <2>2
    <3>2. j - n = k - n
      BY <1>6, <3>1
    <3> QED BY <1>1, <3>2
  <2>3. CASE j \in 1 .. n /\ k > n
    <3>1. ~(k \in 1 .. n) /\ ~(j > n)
      BY <1>1, <2>3
    <3>2. k - n \in 1 .. m /\ U[k] = E[k - n] /\ U[j] = B[j].hdr
      BY <1>7, <3>1
    <3> QED BY <1>6, <1>8, <2>3, <3>2
  <2>4. CASE k \in 1 .. n /\ j > n
    <3>1. j - n \in 1 .. m /\ U[j] = E[j - n] /\ U[k] = B[k].hdr
      BY <1>1, <1>7, <2>4
    <3>2. B[k].hdr = E[j - n]
      BY <1>8, <3>1
    <3> QED BY <1>6, <2>4, <3>1, <3>2
  <2> QED BY <1>1, <2>1, <2>2, <2>3, <2>4
<1>9. ASSUME NEW x \in Range(U) PROVE x \in 0 .. hi
  <2>1. PICK k \in 1 .. n + m : x = U[k]
    BY <1>5 DEF Range
  <2>2. x \in Nat
    BY <1>5, <2>1
  <2>3. x <= hi
    BY <1>6, <1>7, <2>1
  <2> QED BY <2>2, <2>3
<1>10. ASSUME NEW x \in 0 .. hi PROVE x \in Range(U)
  <2>1. CASE \E k \in 1 .. n : B[k].hdr = x
    <3>1. PICK k \in 1 .. n : B[k].hdr = x
      BY <2>1
    <3>2. k \in 1 .. n + m /\ k <= n
      BY <1>1
    <3>3. U[k] = x
      BY <1>2, <1>5, <3>1, <3>2
    <3> QED BY <1>5, <3>2, <3>3 DEF Range
  <2>2. CASE \E j \in 1 .. m : E[j] = x
    <3>1. PICK j \in 1 .. m : E[j] = x
      BY <2>2
    <3>2. n + j \in 1 .. n + m /\ ~(n + j <= n) /\ (n + j) - n = j
      BY <1>1
    <3>3. U[n + j] = E[(n + j) - n]
      BY <1>5, <3>2
    <3>4. U[n + j] = x
      BY <3>1, <3>2, <3>3
    <3> QED BY <1>5, <3>2, <3>4 DEF Range
  <2> QED BY <1>6, <2>1, <2>2
<1>11. IsInjective(U)
  BY <1>5, <1>8 DEF IsInjective
<1>12. Range(U) = 0 .. hi
  BY <1>9, <1>10
<1> QED BY <1>11, <1>12 DEF U, H

-----------------------------------------------------------------------------
(* Arithmetic.                                                             *)

\* Quotient and remainder.
LEMMA DivMod ==
    ASSUME NEW x \in Nat, NEW a \in Nat \ {0}
    PROVE  x = a * (x \div a) + (x % a) /\ x \div a \in Nat /\ x % a \in 0 .. a - 1
<1>1. x % a \in 0 .. a - 1
  OBVIOUS
<1>2. x = a * (x \div a) + (x % a)
  OBVIOUS
<1>3. x \div a \in Int
  OBVIOUS
<1>4. x \div a >= 0
  OBVIOUS
<1> QED BY <1>1, <1>2, <1>3, <1>4

\* A multiple leaves no remainder.
LEMMA UniqueRemainder ==
    ASSUME NEW a \in Nat \ {0}, NEW p \in Int, NEW q \in Int, NEW r \in 0 .. a - 1,
           a * p = a * q + r
    PROVE  r = 0
<1>1. a * (p - q) = r
  OBVIOUS
<1>2. p - q \in Int
  OBVIOUS
<1>3. CASE p - q <= 0
  <2>1. a * (p - q) <= 0
    BY <1>2, <1>3
  <2> QED BY <1>1, <2>1
<1>4. CASE p - q >= 1
  <2>1. a * (p - q) >= a
    BY <1>2, <1>4
  <2> QED BY <1>1, <2>1
<1> QED BY <1>2, <1>3, <1>4

\* The padding of kalloc_a reaches the alignment.
LEMMA Padded ==
    ASSUME NEW x \in Nat, NEW a \in Nat \ {0}
    PROVE  (x + (a - (x % a))) % a = 0 /\ a - (x % a) \in 1 .. a
<1> DEFINE q == x \div a
           r == x % a
           y == x + (a - r)
<1>1. x = a * q + r /\ q \in Nat /\ r \in 0 .. a - 1
  BY DivMod
<1> HIDE DEF q, r
<1>2. y \in Nat /\ y = a * (q + 1) /\ a - r \in 1 .. a
  BY <1>1
<1> HIDE DEF y
<1>3. y = a * (y \div a) + (y % a) /\ y \div a \in Nat /\ y % a \in 0 .. a - 1
  BY <1>2, DivMod
<1>4. y % a = 0
  BY <1>2, <1>3, <1>1, UniqueRemainder
<1> QED BY <1>2, <1>4 DEF y, r

\* The padding is whole grains.
LEMMA PadGrain ==
    ASSUME NEW x \in Nat, NEW a \in Nat \ {0}, x % 16 = 0, a % 16 = 0
    PROVE  (a - (x % a)) % 16 = 0
<1> DEFINE q == x \div a
           r == x % a
           b == a \div 16
<1>1. x = a * q + r /\ q \in Nat /\ r \in 0 .. a - 1
  BY DivMod
<1>2. a = 16 * b /\ b \in Nat
  OBVIOUS
<1> HIDE DEF q, r, b
<1>3. PICK p \in Nat : p = b * q
  BY <1>1, <1>2
<1>4. a * q = 16 * p
  BY <1>1, <1>2, <1>3
<1>5. x = 16 * p + r
  BY <1>1, <1>4
<1>6. r % 16 = 0
  BY <1>1, <1>3, <1>5
<1>7. (a - r) % 16 = 0
  BY <1>1, <1>6
<1> QED BY <1>7 DEF r

\* A size rounded up is whole grains and no less.
LEMMA Rounded ==
    ASSUME NEW n \in Nat
    PROVE  RoundUp(n, GRAIN) \in Nat /\ RoundUp(n, GRAIN) >= n /\ RoundUp(n, GRAIN) % GRAIN = 0
BY DEF RoundUp, GRAIN

\* The remainder of no more than the divisor.
LEMMA Small ==
    ASSUME NEW a \in Nat \ {0}, NEW r \in 0 .. a
    PROVE  r % a = IF r = a THEN 0 ELSE r
OBVIOUS

-----------------------------------------------------------------------------
(* The tiling.                                                             *)

\* A set of naturals that is not empty has a least element.
LEMMA LeastNat ==
    ASSUME NEW S \in SUBSET Nat, S # {}
    PROVE  \E x \in S : \A y \in S : x <= y
<1> DEFINE R == OpToRel(<, Nat)
<1>1. IsWellFoundedOn(R, Nat)
  BY NatLessThanWellFounded
<1> HIDE DEF R
<1>2. \E x \in S : \A y \in S : ~ (<<y, x>> \in R)
  BY <1>1, WFMin, Zenon
<1>3. PICK x \in S : \A y \in S : ~ (<<y, x>> \in R)
  BY <1>2
<1>4. \A y \in S : y < x => <<y, x>> \in R
  BY DEF R, OpToRel
<1>5. \A y \in S : ~(y < x)
  BY <1>3, <1>4
<1>6. \A y \in S : x <= y
  BY <1>5
<1> QED BY <1>6

\* Bins lie in the order of the list.
LEMMA Ordered ==
    ASSUME NEW B, Tiles(B), NEW j \in 1 .. Len(B), NEW k \in 1 .. Len(B), j < k
    PROVE  B[j].addr + B[j].size <= B[k].addr
<1> DEFINE Bad == {l \in j + 1 .. Len(B) : ~(B[j].addr + B[j].size <= B[l].addr)}
<1>0. /\ B \in Seq(Bin) /\ Len(B) \in Nat
      /\ \A l \in 1 .. Len(B) : B[l].addr \in Nat /\ B[l].size \in Nat
  <2>1. B \in Seq(Bin)
    BY DEF Tiles
  <2> QED BY <2>1, Field
<1>1. Bad \in SUBSET Nat
  BY <1>0
<1>2. SUFFICES ASSUME Bad # {} PROVE FALSE
  BY <1>0
<1>3. PICK l \in Bad : \A m \in Bad : l <= m
  BY <1>1, <1>2, LeastNat
<1>4. /\ l \in j + 1 .. Len(B) /\ l - 1 \in 1 .. Len(B) /\ l - 1 \in 1 .. Len(B) - 1
      /\ l \in 1 .. Len(B) /\ (l - 1) + 1 = l /\ ~(l <= l - 1)
  BY <1>0
<1>5. B[l - 1].addr + B[l - 1].size = B[l].addr
  BY <1>4 DEF Tiles
<1>6. l - 1 = j \/ (l - 1 \in j + 1 .. Len(B) /\ l - 1 \notin Bad)
  BY <1>0, <1>3, <1>4
<1>7. ~(B[j].addr + B[j].size <= B[l].addr)
  OBVIOUS
<1>8. l - 1 # j => B[j].addr + B[j].size <= B[l - 1].addr
  BY <1>6
<1>9. /\ B[j].addr \in Nat /\ B[j].size \in Nat /\ B[l].addr \in Nat
      /\ B[l - 1].addr \in Nat /\ B[l - 1].size \in Nat
  BY <1>0, <1>4
<1>10. CASE l - 1 = j
  <2>1. B[j].addr + B[j].size = B[l].addr
    BY <1>5, <1>10
  <2> QED BY <1>7, <1>9, <2>1
<1>11. CASE l - 1 # j
  <2>1. B[j].addr + B[j].size <= B[l - 1].addr
    BY <1>8, <1>11
  <2> QED BY <1>5, <1>7, <1>9, <2>1, SMTT(30)
<1> QED BY <1>10, <1>11

\* Two bins do not share an address.
LEMMA OneAddress ==
    ASSUME NEW B, Tiles(B), NEW j \in 1 .. Len(B), NEW k \in 1 .. Len(B), B[j].addr = B[k].addr
    PROVE  j = k
<1>1. B \in Seq(Bin)
  BY DEF Tiles
<1>2. \A l \in 1 .. Len(B) : B[l].addr \in Nat /\ B[l].size \in Nat /\ B[l].size > 0
  BY <1>1, Field
<1>3. ASSUME j < k PROVE FALSE
  BY <1>2, <1>3, Ordered
<1>4. ASSUME k < j PROVE FALSE
  BY <1>2, <1>4, Ordered
<1> QED BY <1>1, <1>3, <1>4, LenProperties

\* Sums and differences of whole grains are whole grains.
LEMMA Grains ==
    ASSUME NEW x \in Nat, NEW y \in Nat, x % 16 = 0, y % 16 = 0
    PROVE  (x + y) % 16 = 0 /\ (x - y) % 16 = 0
OBVIOUS

\* Adding a bin after the i-th and editing the i-th is a cut.
LEMMA AddedIsCut ==
    ASSUME NEW B, NEW i \in 1 .. Len(B), Len(B) \in Nat, NEW s,
           NEW C, Added(B, C, i, B[i].addr + s, B[i].size - s),
           NEW D, Edited(C, D, i, B[i].addr, s, TRUE)
    PROVE  Cut(B, D, i, s)
<1>1. Len(C) = Len(B) + 1
  BY DEF Added
<1>2. i + 1 \in 1 .. Len(B) + 1 /\ i + 1 # i
  OBVIOUS
<1>3. \A k \in 1 .. i - 1 : k \in 1 .. i /\ k \in 1 .. Len(B) + 1 /\ k # i
  OBVIOUS
<1>4. \A k \in i + 2 .. Len(B) + 1 : k \in 1 .. Len(B) + 1 /\ k # i
  OBVIOUS
<1> QED BY <1>1, <1>2, <1>3, <1>4 DEF Added, Edited, Cut

\* Splitting the i-th bin after s bytes.
LEMMA SplitTiles ==
    ASSUME NEW B, Tiles(B), NEW i \in 1 .. Len(B), NEW s \in Nat, s > 0, s < B[i].size,
           s % GRAIN = 0, NEW D, Cut(B, D, i, s)
    PROVE  Tiles(D)
<1>0. /\ B \in Seq(Bin) /\ Len(B) \in Nat /\ i \in Nat /\ 1 <= i /\ i <= Len(B)
      /\ \A l \in 1 .. Len(B) : B[l].addr \in Nat /\ B[l].size \in Nat
  <2>1. B \in Seq(Bin)
    BY DEF Tiles
  <2> QED BY <2>1, Field
<1>1. /\ D \in Seq(Bin) /\ Len(D) = Len(B) + 1
      /\ D[i].addr = B[i].addr /\ D[i].size = s
      /\ D[i + 1].addr = B[i].addr + s /\ D[i + 1].size = B[i].size - s
  BY DEF Cut
<1>2. ASSUME NEW k \in 1 .. i - 1 PROVE D[k] = B[k] /\ k \in 1 .. Len(B) /\ k + 1 \in 1 .. Len(B)
  <2>1. k \in 1 .. Len(B) /\ k + 1 \in 1 .. Len(B)
    BY <1>0
  <2> QED BY <2>1 DEF Cut
<1>3. ASSUME NEW k \in i + 2 .. Len(B) + 1 PROVE D[k] = B[k - 1] /\ k - 1 \in 1 .. Len(B)
  <2>1. k - 1 \in 1 .. Len(B)
    BY <1>0
  <2> QED BY <2>1 DEF Cut
<1>4. D[1].addr = 0
  <2>1. CASE i = 1
    BY <1>1, <2>1 DEF Tiles
  <2>2. CASE i # 1
    <3>1. 1 \in 1 .. i - 1
      BY <1>0, <2>2
    <3> QED BY <1>2, <3>1 DEF Tiles
  <2> QED BY <2>1, <2>2
<1>5. B[i].addr % 16 = 0 /\ B[i].size % 16 = 0 /\ s % 16 = 0
  BY DEF Tiles, GRAIN
<1>6. \A k \in 1 .. Len(D) : D[k].addr % GRAIN = 0 /\ D[k].size % GRAIN = 0
  <2> TAKE k \in 1 .. Len(D)
  <2>1. CASE k \in 1 .. i - 1
    BY <1>2, <2>1 DEF Tiles
  <2>2. CASE k \in i + 2 .. Len(B) + 1
    <3>1. D[k] = B[k - 1] /\ k - 1 \in 1 .. Len(B)
      BY <1>3, <2>2
    <3> QED BY <3>1 DEF Tiles
  <2>3. CASE k = i
    BY <1>1, <1>5, <2>3 DEF GRAIN
  <2>4. CASE k = i + 1
    <3>1. (B[i].addr + s) % 16 = 0 /\ (B[i].size - s) % 16 = 0
      BY <1>0, <1>5, Grains
    <3> QED BY <1>1, <2>4, <3>1 DEF GRAIN
  <2> QED BY <1>0, <1>1, <2>1, <2>2, <2>3, <2>4
<1>7. \A k \in 1 .. Len(D) - 1 : D[k].addr + D[k].size = D[k + 1].addr
  <2> TAKE k \in 1 .. Len(D) - 1
  <2>1. CASE k + 1 \in 1 .. i - 1
    <3>1. k \in 1 .. i - 1 /\ k \in 1 .. Len(B) - 1
      BY <1>0, <2>1
    <3> QED BY <1>2, <2>1, <3>1 DEF Tiles
  <2>2. CASE k + 1 = i
    <3>1. k \in 1 .. i - 1 /\ k \in 1 .. Len(B) - 1
      BY <1>0, <2>2
    <3> QED BY <1>1, <1>2, <2>2, <3>1 DEF Tiles
  <2>3. CASE k = i
    BY <1>1, <2>3
  <2>4. CASE k = i + 1
    <3>1. k + 1 \in i + 2 .. Len(B) + 1 /\ (k + 1) - 1 = i + 1 /\ i \in 1 .. Len(B) - 1
      BY <1>0, <1>1, <2>4
    <3>2. D[k + 1] = B[(k + 1) - 1]
      BY <1>3, <3>1
    <3>3. B[i].addr + B[i].size = B[i + 1].addr
      BY <3>1 DEF Tiles
    <3>4. (B[i].addr + s) + (B[i].size - s) = B[i].addr + B[i].size
      <4>1. B[i].addr \in Nat /\ B[i].size \in Nat
        BY <1>0
      <4> QED BY <4>1
    <3> QED BY <1>1, <2>4, <3>1, <3>2, <3>3, <3>4
  <2>5. CASE k \in i + 2 .. Len(B) + 1
    <3>1. k + 1 \in i + 2 .. Len(B) + 1 /\ (k + 1) - 1 = (k - 1) + 1 /\ k - 1 \in 1 .. Len(B) - 1
      BY <1>0, <1>1, <2>5, SMTT(30)
    <3>2. D[k] = B[k - 1] /\ D[k + 1] = B[(k + 1) - 1]
      BY <1>3, <2>5, <3>1
    <3> QED BY <3>1, <3>2 DEF Tiles
  <2> QED BY <1>0, <1>1, <2>1, <2>2, <2>3, <2>4, <2>5
<1> QED BY <1>0, <1>1, <1>4, <1>6, <1>7 DEF Tiles

\* The taken bins after a cut: the same, and the one that was cut.
LEMMA CutUsed ==
    ASSUME NEW B, NEW i \in 1 .. Len(B), Len(B) \in Nat, ~B[i].taken, NEW s,
           NEW D, Cut(B, D, i, s), NEW a, NEW z
    PROVE  Used(D, a, z) <=> Used(B, a, z) \/ (a = B[i].addr /\ z = s)
<1>1. ASSUME NEW k \in 1 .. Len(D), D[k].taken, D[k].addr = a, D[k].size = z
      PROVE  Used(B, a, z) \/ (a = B[i].addr /\ z = s)
  <2>1. k \in 1 .. Len(B) + 1
    BY DEF Cut
  <2>2. CASE k \in 1 .. i - 1
    <3>1. k \in 1 .. Len(B) /\ D[k] = B[k]
      BY <2>2 DEF Cut
    <3> QED BY <1>1, <3>1 DEF Used
  <2>3. CASE k \in i + 2 .. Len(B) + 1
    <3>1. k - 1 \in 1 .. Len(B) /\ D[k] = B[k - 1]
      BY <2>3 DEF Cut
    <3> QED BY <1>1, <3>1 DEF Used
  <2>4. CASE k = i
    BY <1>1, <2>4 DEF Cut
  <2>5. CASE k = i + 1
    BY <1>1, <2>5 DEF Cut
  <2>6. k \in 1 .. i - 1 \/ k \in i + 2 .. Len(B) + 1 \/ k = i \/ k = i + 1
    BY <2>1
  <2> QED BY <2>2, <2>3, <2>4, <2>5, <2>6
<1>2. ASSUME NEW k \in 1 .. Len(B), B[k].taken, B[k].addr = a, B[k].size = z PROVE Used(D, a, z)
  <2>1. CASE k \in 1 .. i - 1
    <3>1. k \in 1 .. Len(D) /\ D[k] = B[k]
      BY <2>1 DEF Cut
    <3> QED BY <1>2, <3>1 DEF Used
  <2>2. CASE k \in i + 1 .. Len(B)
    <3>1. k + 1 \in i + 2 .. Len(B) + 1 /\ k + 1 \in 1 .. Len(B) + 1 /\ (k + 1) - 1 = k
      BY <2>2
    <3>2. k + 1 \in 1 .. Len(D) /\ D[k + 1] = B[(k + 1) - 1]
      BY <3>1 DEF Cut
    <3> QED BY <1>2, <3>1, <3>2 DEF Used
  <2>3. k # i
    BY <1>2
  <2> QED BY <2>1, <2>2, <2>3
<1>3. ASSUME a = B[i].addr, z = s PROVE Used(D, a, z)
  <2>1. i \in 1 .. Len(D) /\ D[i].taken /\ D[i].addr = a /\ D[i].size = z
    BY <1>3 DEF Cut
  <2> QED BY <2>1 DEF Used
<1> QED BY <1>1, <1>2, <1>3 DEF Used

\* Free neighbours after a cut, when the bin after it was taken.
LEMMA CutPairs ==
    ASSUME NEW B, NEW i \in 1 .. Len(B), Len(B) \in Nat, i < Len(B) => B[i + 1].taken,
           FreePairs(B, {i - 1}), NEW s, NEW D, Cut(B, D, i, s)
    PROVE  FreePairs(D, {})
<1>1. Len(D) = Len(B) + 1 /\ D[i].taken
  BY DEF Cut
<1>2. SUFFICES ASSUME NEW k \in 1 .. Len(B), ~D[k].taken PROVE D[k + 1].taken
  BY <1>1 DEF FreePairs
<1>3. CASE k \in 1 .. i - 1
  <2>1. CASE k + 1 = i
    BY <1>1, <2>1
  <2>2. CASE k + 1 # i
    <3>1. k + 1 \in 1 .. i - 1 /\ k \in 1 .. Len(B) - 1 /\ k # i - 1
      BY <1>3, <2>2
    <3>2. D[k] = B[k] /\ D[k + 1] = B[k + 1]
      BY <1>3, <3>1 DEF Cut
    <3> QED BY <1>2, <3>1, <3>2 DEF FreePairs
  <2> QED BY <2>1, <2>2
<1>4. CASE k = i
  BY <1>1, <1>2, <1>4
<1>5. CASE k = i + 1
  <2>1. k + 1 \in i + 2 .. Len(B) + 1 /\ (k + 1) - 1 = i + 1 /\ i < Len(B)
    BY <1>5
  <2>2. D[k + 1] = B[(k + 1) - 1]
    BY <2>1 DEF Cut
  <2> QED BY <2>1, <2>2
<1>6. CASE k \in i + 2 .. Len(B)
  <2>1. /\ k \in i + 2 .. Len(B) + 1 /\ k + 1 \in i + 2 .. Len(B) + 1
        /\ (k + 1) - 1 = (k - 1) + 1 /\ k - 1 \in 1 .. Len(B) - 1 /\ k - 1 # i - 1
    BY <1>6
  <2>2. D[k] = B[k - 1] /\ D[k + 1] = B[(k + 1) - 1]
    BY <2>1 DEF Cut
  <2> QED BY <1>2, <2>1, <2>2 DEF FreePairs
<1> QED BY <1>3, <1>4, <1>5, <1>6

\* Making one bin of two neighbours keeps the tiling.
LEMMA MergeTiles ==
    ASSUME NEW B, Tiles(B), NEW i \in 1 .. Len(B) - 1, NEW D, Merged(B, D, i)
    PROVE  Tiles(D)
<1>0. /\ Len(B) \in Nat /\ i \in Nat /\ 1 <= i /\ i < Len(B)
      /\ \A l \in 1 .. Len(B) : B[l].addr \in Nat /\ B[l].size \in Nat
  <2>1. B \in Seq(Bin)
    BY DEF Tiles
  <2> QED BY <2>1, Field
<1>1. /\ D \in Seq(Bin) /\ Len(D) = Len(B) - 1 /\ D[i].addr = B[i].addr
      /\ D[i].size = B[i].size + B[i + 1].size
  BY DEF Merged
<1>2. ASSUME NEW k \in 1 .. i - 1 PROVE D[k] = B[k] /\ k \in 1 .. Len(B) - 1 /\ k \in 1 .. Len(B)
  <2>1. k \in 1 .. Len(B) - 1 /\ k \in 1 .. Len(B)
    BY <1>0
  <2> QED BY <2>1 DEF Merged
<1>3. ASSUME NEW k \in i + 1 .. Len(B) - 1 PROVE D[k] = B[k + 1] /\ k + 1 \in 1 .. Len(B)
  <2>1. k + 1 \in 1 .. Len(B)
    BY <1>0
  <2> QED BY <2>1 DEF Merged
<1>4. D[1].addr = 0
  <2>1. CASE i = 1
    BY <1>1, <2>1 DEF Tiles
  <2>2. CASE i # 1
    <3>1. 1 \in 1 .. i - 1
      BY <1>0, <2>2
    <3> QED BY <1>2, <3>1 DEF Tiles
  <2> QED BY <2>1, <2>2
<1>5. i \in 1 .. Len(B) /\ i + 1 \in 1 .. Len(B)
  BY <1>0
<1>6. B[i].addr % 16 = 0 /\ B[i].size % 16 = 0 /\ B[i + 1].size % 16 = 0
  BY <1>5 DEF Tiles, GRAIN
<1>7. (B[i].size + B[i + 1].size) % 16 = 0
  BY <1>0, <1>5, <1>6, Grains
<1>8. \A k \in 1 .. Len(D) : D[k].addr % GRAIN = 0 /\ D[k].size % GRAIN = 0
  <2> TAKE k \in 1 .. Len(D)
  <2>1. CASE k \in 1 .. i - 1
    BY <1>2, <2>1 DEF Tiles
  <2>2. CASE k \in i + 1 .. Len(B) - 1
    BY <1>3, <2>2 DEF Tiles
  <2>3. CASE k = i
    BY <1>1, <1>6, <1>7, <2>3 DEF GRAIN
  <2> QED BY <1>0, <1>1, <2>1, <2>2, <2>3
<1>9. \A k \in 1 .. Len(D) - 1 : D[k].addr + D[k].size = D[k + 1].addr
  <2> TAKE k \in 1 .. Len(D) - 1
  <2>1. CASE k + 1 \in 1 .. i
    <3>1. k \in 1 .. i - 1 /\ (k + 1 \in 1 .. i - 1 \/ k + 1 = i)
      BY <1>0, <2>1
    <3>2. D[k] = B[k] /\ D[k + 1].addr = B[k + 1].addr
      BY <1>1, <1>2, <3>1
    <3> QED BY <1>2, <3>1, <3>2 DEF Tiles
  <2>2. CASE k = i
    <3>1. i + 1 \in i + 1 .. Len(B) - 1 /\ i + 1 \in 1 .. Len(B) - 1 /\ i \in 1 .. Len(B) - 1
      BY <1>0, <1>1, <2>2
    <3>2. D[k + 1] = B[(i + 1) + 1]
      BY <1>3, <2>2, <3>1
    <3>3. B[i].addr + B[i].size = B[i + 1].addr /\ B[i + 1].addr + B[i + 1].size = B[(i + 1) + 1].addr
      BY <3>1 DEF Tiles
    <3>4. B[i].addr \in Nat /\ B[i].size \in Nat /\ B[i + 1].addr \in Nat /\ B[i + 1].size \in Nat
      BY <1>0, <1>5
    <3>5. B[i].addr + (B[i].size + B[i + 1].size) = B[(i + 1) + 1].addr
      BY <3>3, <3>4, SMTT(30)
    <3> QED BY <1>1, <2>2, <3>2, <3>5
  <2>3. CASE k \in i + 1 .. Len(B) - 1
    <3>1. k + 1 \in i + 1 .. Len(B) - 1 /\ k + 1 \in 1 .. Len(B) - 1
      BY <1>0, <1>1, <2>3
    <3>2. D[k] = B[k + 1] /\ D[k + 1] = B[(k + 1) + 1]
      BY <1>3, <2>3, <3>1
    <3> QED BY <3>1, <3>2 DEF Tiles
  <2> QED BY <1>0, <1>1, <2>1, <2>2, <2>3
<1> QED BY <1>0, <1>1, <1>4, <1>8, <1>9 DEF Tiles

\* Making one bin of two free ones changes no taken bin.
LEMMA MergeUsed ==
    ASSUME NEW B, Len(B) \in Nat, NEW i \in 1 .. Len(B) - 1, ~B[i].taken, ~B[i + 1].taken,
           NEW D, Merged(B, D, i), NEW a, NEW z
    PROVE  Used(D, a, z) <=> Used(B, a, z)
<1>1. ASSUME NEW k \in 1 .. Len(D), D[k].taken, D[k].addr = a, D[k].size = z PROVE Used(B, a, z)
  <2>1. k \in 1 .. Len(B) - 1
    BY DEF Merged
  <2>2. CASE k \in 1 .. i - 1
    <3>1. k \in 1 .. Len(B) /\ D[k] = B[k]
      BY <2>2 DEF Merged
    <3> QED BY <1>1, <3>1 DEF Used
  <2>3. CASE k \in i + 1 .. Len(B) - 1
    <3>1. k + 1 \in 1 .. Len(B) /\ D[k] = B[k + 1]
      BY <2>3 DEF Merged
    <3> QED BY <1>1, <3>1 DEF Used
  <2>4. k # i
    BY <1>1 DEF Merged
  <2>5. k \in 1 .. i - 1 \/ k \in i + 1 .. Len(B) - 1
    BY <2>1, <2>4
  <2> QED BY <2>2, <2>3, <2>5
<1>2. ASSUME NEW k \in 1 .. Len(B), B[k].taken, B[k].addr = a, B[k].size = z PROVE Used(D, a, z)
  <2>1. CASE k \in 1 .. i - 1
    <3>1. k \in 1 .. Len(D) /\ D[k] = B[k]
      BY <2>1 DEF Merged
    <3> QED BY <1>2, <3>1 DEF Used
  <2>2. CASE k \in i + 2 .. Len(B)
    <3>1. k - 1 \in i + 1 .. Len(B) - 1 /\ k - 1 \in 1 .. Len(B) - 1 /\ (k - 1) + 1 = k
      BY <2>2
    <3>2. k - 1 \in 1 .. Len(D) /\ D[k - 1] = B[(k - 1) + 1]
      BY <3>1 DEF Merged
    <3> QED BY <1>2, <3>1, <3>2 DEF Used
  <2>3. k # i /\ k # i + 1
    BY <1>2
  <2> QED BY <2>1, <2>2, <2>3
<1> QED BY <1>1, <1>2 DEF Used

\* Making one bin of two free neighbours ends that pair and begins none.
LEMMA MergePairs ==
    ASSUME NEW B, Len(B) \in Nat, NEW i \in 1 .. Len(B) - 1, ~B[i].taken, ~B[i + 1].taken,
           NEW X \in SUBSET {i - 1, i}, FreePairs(B, X), NEW D, Merged(B, D, i)
    PROVE  FreePairs(D, X \ {i})
<1>1. Len(D) = Len(B) - 1 /\ ~D[i].taken
  BY DEF Merged
<1>2. SUFFICES ASSUME NEW k \in 1 .. Len(B) - 2, ~D[k].taken, k \notin X \ {i} PROVE D[k + 1].taken
  BY <1>1 DEF FreePairs
<1>3. CASE k + 1 \in 1 .. i - 1
  <2>1. k \in 1 .. i - 1 /\ k \in 1 .. Len(B) - 1 /\ k \notin X
    BY <1>3
  <2>2. D[k] = B[k] /\ D[k + 1] = B[k + 1]
    BY <1>3, <2>1 DEF Merged
  <2> QED BY <1>2, <2>1, <2>2 DEF FreePairs
<1>4. CASE k + 1 = i
  <2>1. k \in 1 .. i - 1 /\ k \in 1 .. Len(B) - 1 /\ k \notin X
    BY <1>2, <1>4
  <2>2. D[k] = B[k]
    BY <2>1 DEF Merged
  <2>3. B[k].taken
    BY <1>4, <2>1 DEF FreePairs
  <2> QED BY <1>2, <2>2, <2>3
<1>5. CASE k \in i .. Len(B) - 2
  <2>1. k + 1 \in i + 1 .. Len(B) - 1 /\ k + 1 \in 1 .. Len(B) - 1 /\ k + 1 \notin X
    BY <1>5
  <2>2. D[k + 1] = B[(k + 1) + 1]
    BY <2>1 DEF Merged
  <2>3. ~B[k + 1].taken
    <3>1. k = i \/ k \in i + 1 .. Len(B) - 1
      BY <1>5
    <3> QED BY <1>2, <3>1 DEF Merged
  <2> QED BY <2>1, <2>2, <2>3 DEF FreePairs
<1> QED BY <1>3, <1>4, <1>5

\* Adding a bin at the end keeps the tiling.
LEMMA AppendTiles ==
    ASSUME NEW B, Tiles(B), NEW s \in Nat, s % GRAIN = 0,
           NEW D, Added(B, D, Len(B), B[Len(B)].addr + B[Len(B)].size, s)
    PROVE  Tiles(D)
<1> DEFINE n == Len(B)
<1>0. /\ n \in Nat /\ n >= 1
      /\ \A l \in 1 .. n : B[l].addr \in Nat /\ B[l].size \in Nat
  <2>1. B \in Seq(Bin)
    BY DEF Tiles
  <2> QED BY <2>1, Field DEF Tiles
<1>1. /\ D \in Seq(Bin) /\ Len(D) = n + 1 /\ \A k \in 1 .. n : D[k] = B[k]
      /\ D[n + 1].addr = B[n].addr + B[n].size /\ D[n + 1].size = s
  BY DEF Added
<1>2. /\ B[1].addr = 0
      /\ \A k \in 1 .. n : B[k].addr % GRAIN = 0 /\ B[k].size % GRAIN = 0
      /\ \A k \in 1 .. n - 1 : B[k].addr + B[k].size = B[k + 1].addr
  BY DEF Tiles
<1> HIDE DEF n
<1>3. n \in 1 .. n /\ 1 \in 1 .. n
  BY <1>0
<1>4. (B[n].addr + B[n].size) % 16 = 0
  BY <1>0, <1>2, <1>3, Grains DEF GRAIN
<1>5. \A k \in 1 .. Len(D) : D[k].addr % GRAIN = 0 /\ D[k].size % GRAIN = 0
  <2> TAKE k \in 1 .. Len(D)
  <2>1. k \in 1 .. n \/ k = n + 1
    BY <1>0, <1>1
  <2> QED BY <1>1, <1>2, <1>4, <2>1 DEF GRAIN
<1>6. \A k \in 1 .. Len(D) - 1 : D[k].addr + D[k].size = D[k + 1].addr
  <2> TAKE k \in 1 .. Len(D) - 1
  <2>1. k \in 1 .. n /\ ((k \in 1 .. n - 1 /\ k + 1 \in 1 .. n) \/ k = n)
    BY <1>0, <1>1
  <2> QED BY <1>1, <1>2, <2>1
<1>7. Len(D) >= 1
  BY <1>0, <1>1
<1> QED BY <1>1, <1>2, <1>3, <1>5, <1>6, <1>7 DEF Tiles

\* Editing the taken bit of a bin, or the size of the last, keeps the tiling.
LEMMA EditTiles ==
    ASSUME NEW B, Tiles(B), NEW i \in 1 .. Len(B), NEW s, s % GRAIN = 0,
           i = Len(B) \/ s = B[i].size, NEW t, NEW D, Edited(B, D, i, B[i].addr, s, t)
    PROVE  Tiles(D)
<1>1. /\ D \in Seq(Bin) /\ Len(D) = Len(B)
      /\ \A k \in 1 .. Len(B) : D[k].addr = B[k].addr
      /\ \A k \in 1 .. Len(B) : D[k].size = B[k].size \/ (k = i /\ D[k].size = s)
  BY DEF Edited
<1>2. /\ D[1].addr = 0 /\ Len(D) >= 1 /\ Len(B) \in Nat
  <2>1. Len(B) \in Nat /\ Len(B) >= 1
    BY LenProperties DEF Tiles
  <2>2. 1 \in 1 .. Len(B)
    BY <2>1
  <2> QED BY <1>1, <2>1, <2>2 DEF Tiles
<1>3. \A k \in 1 .. Len(D) : D[k].addr % GRAIN = 0 /\ D[k].size % GRAIN = 0
  BY <1>1 DEF Tiles
<1>4. \A k \in 1 .. Len(D) - 1 : D[k].addr + D[k].size = D[k + 1].addr
  <2> TAKE k \in 1 .. Len(D) - 1
  <2>1. k \in 1 .. Len(B) /\ k + 1 \in 1 .. Len(B) /\ k \in 1 .. Len(B) - 1 /\ k # Len(B)
    BY <1>1, <1>2
  <2> QED BY <1>1, <2>1 DEF Tiles
<1> QED BY <1>1, <1>2, <1>3, <1>4 DEF Tiles

\* The taken bins when a free one is added.
LEMMA AddUsed ==
    ASSUME NEW B, Len(B) \in Nat, NEW i \in 1 .. Len(B), NEW b, NEW s,
           NEW D, Added(B, D, i, b, s), NEW a, NEW z
    PROVE  Used(D, a, z) <=> Used(B, a, z)
<1>1. ASSUME NEW k \in 1 .. Len(D), D[k].taken, D[k].addr = a, D[k].size = z PROVE Used(B, a, z)
  <2>1. k \in 1 .. Len(B) + 1 /\ k # i + 1
    BY <1>1 DEF Added
  <2>2. CASE k \in 1 .. i
    <3>1. k \in 1 .. Len(B) /\ D[k] = B[k]
      BY <2>2 DEF Added
    <3> QED BY <1>1, <3>1 DEF Used
  <2>3. CASE k \in i + 2 .. Len(B) + 1
    <3>1. k - 1 \in 1 .. Len(B) /\ D[k] = B[k - 1]
      BY <2>3 DEF Added
    <3> QED BY <1>1, <3>1 DEF Used
  <2> QED BY <2>1, <2>2, <2>3
<1>2. ASSUME NEW k \in 1 .. Len(B), B[k].taken, B[k].addr = a, B[k].size = z PROVE Used(D, a, z)
  <2>1. CASE k \in 1 .. i
    <3>1. k \in 1 .. Len(D) /\ D[k] = B[k]
      BY <2>1 DEF Added
    <3> QED BY <1>2, <3>1 DEF Used
  <2>2. CASE k \in i + 1 .. Len(B)
    <3>1. k + 1 \in i + 2 .. Len(B) + 1 /\ k + 1 \in 1 .. Len(B) + 1 /\ (k + 1) - 1 = k
      BY <2>2
    <3>2. k + 1 \in 1 .. Len(D) /\ D[k + 1] = B[(k + 1) - 1]
      BY <3>1 DEF Added
    <3> QED BY <1>2, <3>1, <3>2 DEF Used
  <2> QED BY <2>1, <2>2
<1> QED BY <1>1, <1>2 DEF Used

\* The taken bins when a free one is edited and stays free.
LEMMA EditUsed ==
    ASSUME NEW B, NEW i \in 1 .. Len(B), ~B[i].taken, NEW b, NEW s,
           NEW D, Edited(B, D, i, b, s, FALSE)
    PROVE  SameUsed(B, D)
BY DEF Edited, Used, SameUsed

\* The taken bins when a free one is taken.
LEMMA TakeUsed ==
    ASSUME NEW B, NEW i \in 1 .. Len(B), ~B[i].taken, NEW b, NEW s,
           NEW D, Edited(B, D, i, b, s, TRUE)
    PROVE  MoreUsed(B, D, b, s)
BY DEF Edited, Used, MoreUsed

\* The taken bins when one of them is set free.
LEMMA FreeUsed ==
    ASSUME NEW B, Tiles(B), NEW i \in 1 .. Len(B), B[i].taken,
           NEW D, Edited(B, D, i, B[i].addr, B[i].size, FALSE), NEW a, NEW z
    PROVE  Used(D, a, z) <=> Used(B, a, z) /\ a # B[i].addr
<1>1. /\ Len(D) = Len(B) /\ ~D[i].taken
      /\ \A k \in 1 .. Len(B) : k # i => D[k] = B[k]
  BY DEF Edited
<1>2. \A k \in 1 .. Len(B) : k # i => B[k].addr # B[i].addr
  BY OneAddress
<1> QED BY <1>1, <1>2 DEF Used

-----------------------------------------------------------------------------
(* Allocation.                                                             *)

\* What Core says of the list.
LEMMA CoreList ==
    ASSUME NEW h, Core(h)
    PROVE  /\ Sound(h) /\ Tiles(h.bins) /\ h.bins \in Seq(Bin)
           /\ Len(h.bins) \in Nat /\ Len(h.bins) \in 1 .. Len(h.bins)
           /\ DOMAIN h.bins = 1 .. Len(h.bins)
<1>1. Sound(h) /\ Tiles(h.bins) /\ h.bins \in Seq(Bin) /\ Len(h.bins) >= 1
  BY DEF Core, Tiles
<1>2. Len(h.bins) \in Nat /\ DOMAIN h.bins = 1 .. Len(h.bins)
  BY <1>1, LenProperties
<1> QED BY <1>1, <1>2

\* Setting the taken bit.
LEMMA SetTaken ==
    ASSUME NEW h, Sound(h), NEW i \in 1 .. Len(h.bins), NEW t \in BOOLEAN
    PROVE  LET g == [h EXCEPT !.bins[i].taken = t]
           IN  Sound(g) /\ Edited(h.bins, g.bins, i, h.bins[i].addr, h.bins[i].size, t)
<1> DEFINE b == [hdr |-> h.bins[i].hdr, addr |-> h.bins[i].addr, size |-> h.bins[i].size, taken |-> t]
<1>1. h.bins \in Seq(Bin)
  BY DEF Sound, HeapType
<1>2. h.bins[i] \in Bin /\ h.bins[i].addr \in Nat /\ h.bins[i].size \in Nat \ {0}
  BY <1>1, Field
<1>3. [h.bins[i] EXCEPT !.taken = t] = b
  BY <1>2 DEF Bin
<1>4. [h EXCEPT !.bins[i].taken = t] = [h EXCEPT !.bins = [h.bins EXCEPT ![i] = b]]
  BY <1>3 DEF Sound, HeapType
<1>5. b = [hdr |-> h.bins[i].hdr, addr |-> h.bins[i].addr, size |-> h.bins[i].size, taken |-> t]
  OBVIOUS
<1> HIDE DEF b
<1>6. LET g == [h EXCEPT !.bins = [h.bins EXCEPT ![i] = b]]
      IN  Sound(g) /\ Edited(h.bins, g.bins, i, h.bins[i].addr, h.bins[i].size, t)
  BY <1>2, <1>5, EditBin
<1> QED BY <1>4, <1>6

\* Setting the size.
LEMMA SetSize ==
    ASSUME NEW h, Sound(h), NEW i \in 1 .. Len(h.bins), NEW s \in Nat \ {0}
    PROVE  LET g == [h EXCEPT !.bins[i].size = s]
           IN  Sound(g) /\ Edited(h.bins, g.bins, i, h.bins[i].addr, s, h.bins[i].taken)
<1> DEFINE b == [hdr |-> h.bins[i].hdr, addr |-> h.bins[i].addr, size |-> s, taken |-> h.bins[i].taken]
<1>1. h.bins \in Seq(Bin)
  BY DEF Sound, HeapType
<1>2. h.bins[i] \in Bin /\ h.bins[i].addr \in Nat /\ h.bins[i].taken \in BOOLEAN
  BY <1>1, Field
<1>3. [h.bins[i] EXCEPT !.size = s] = b
  BY <1>2 DEF Bin
<1>4. [h EXCEPT !.bins[i].size = s] = [h EXCEPT !.bins = [h.bins EXCEPT ![i] = b]]
  BY <1>3 DEF Sound, HeapType
<1>5. b = [hdr |-> h.bins[i].hdr, addr |-> h.bins[i].addr, size |-> s, taken |-> h.bins[i].taken]
  OBVIOUS
<1> HIDE DEF b
<1>6. LET g == [h EXCEPT !.bins = [h.bins EXCEPT ![i] = b]]
      IN  Sound(g) /\ Edited(h.bins, g.bins, i, h.bins[i].addr, s, h.bins[i].taken)
  BY <1>2, <1>5, EditBin
<1> QED BY <1>4, <1>6

\* Claim splits a bin and takes it.
LEMMA Claimed ==
    ASSUME NEW h, NEW i, NEW s \in Nat, s > 0, s % GRAIN = 0, Ready(h, i, s)
    PROVE  LET g == Claim(h, i, s)
           IN  /\ Core(g) /\ FreePairs(g.bins, {})
               /\ MoreUsed(h.bins, g.bins, h.bins[i].addr, s)
<1> DEFINE B == h.bins
           g == Claim(h, i, s)
<1>0. /\ Core(h) /\ i \in 1 .. Len(B) /\ ~B[i].taken /\ s <= B[i].size
      /\ FreePairs(B, {i - 1}) /\ (i < Len(B) => B[i + 1].taken)
  BY DEF Ready
<1>1. Sound(h) /\ Tiles(B) /\ B \in Seq(Bin) /\ Len(B) \in Nat
  BY <1>0, CoreList
<1>2. B[i].addr \in Nat /\ B[i].size \in Nat /\ B[i].size > 0
  BY <1>0, <1>1, Field
<1>3. CASE B[i].size = s
  <2>1. g = [h EXCEPT !.bins[i].taken = TRUE]
    BY <1>3 DEF Claim, split_bin
  <2>2. Sound(g) /\ Edited(B, g.bins, i, B[i].addr, s, TRUE)
    BY <1>0, <1>1, <1>3, <2>1, SetTaken, ZenonT(40)
  <2> HIDE DEF g
  <2>3. Tiles(g.bins)
    BY <1>0, <1>1, <1>3, <2>2, EditTiles
  <2>4. MoreUsed(B, g.bins, B[i].addr, s)
    BY <1>0, <2>2, TakeUsed
  <2>5. FreePairs(g.bins, {})
    <3>1. Len(g.bins) = Len(B) /\ g.bins[i].taken /\ \A k \in 1 .. Len(B) : k # i => g.bins[k] = B[k]
      BY <2>2 DEF Edited
    <3>2. SUFFICES ASSUME NEW k \in 1 .. Len(B) - 1 PROVE g.bins[k].taken \/ g.bins[k + 1].taken
      BY <3>1 DEF FreePairs
    <3>3. k \in 1 .. Len(B) /\ k + 1 \in 1 .. Len(B) /\ (k = i - 1 => k + 1 = i)
      BY <1>0, <1>1
    <3> QED BY <1>0, <3>1, <3>3 DEF FreePairs
  <2> QED BY <2>2, <2>3, <2>4, <2>5 DEF Core, g
<1>4. CASE B[i].size # s
  <2> DEFINE g1 == add_bin(h, i, B[i].addr + s, B[i].size - s)
             g2 == [g1 EXCEPT !.bins[i].size = s]
             g3 == [g2 EXCEPT !.bins[i].taken = TRUE]
  <2>0. g = g3
    BY <1>4 DEF Claim, split_bin
  <2>1. s < B[i].size /\ B[i].size - s \in Nat \ {0} /\ B[i].addr + s \in Nat /\ s \in Nat \ {0}
    BY <1>0, <1>2, <1>4, SMTT(30)
  <2>2. Sound(g1) /\ Added(B, g1.bins, i, B[i].addr + s, B[i].size - s)
    BY <1>0, <1>1, <2>1, AddBin
  <2> HIDE DEF g1
  <2>3. g1.bins[i] = B[i] /\ i \in 1 .. Len(g1.bins)
    BY <1>0, <1>1, <2>2 DEF Added
  <2>4. Sound(g2) /\ Edited(g1.bins, g2.bins, i, B[i].addr, s, B[i].taken)
    BY <2>1, <2>2, <2>3, SetSize
  <2> HIDE DEF g2
  <2>5. i \in 1 .. Len(g2.bins) /\ g2.bins[i].addr = B[i].addr /\ g2.bins[i].size = s
    BY <2>3, <2>4 DEF Edited
  <2>6. Sound(g3) /\ Edited(g2.bins, g3.bins, i, B[i].addr, s, TRUE)
    BY <2>4, <2>5, SetTaken
  <2> HIDE DEF g3
  <2>7. Edited(g1.bins, g3.bins, i, B[i].addr, s, TRUE)
    BY <2>3, <2>4, <2>6 DEF Edited
  <2>8. Cut(B, g3.bins, i, s)
    BY <1>0, <1>1, <2>2, <2>7, AddedIsCut
  <2>9. Tiles(g3.bins)
    BY <1>0, <1>1, <2>1, <2>8, SplitTiles
  <2>10. MoreUsed(B, g3.bins, B[i].addr, s)
    BY <1>0, <1>1, <2>8, CutUsed DEF MoreUsed
  <2>11. FreePairs(g3.bins, {})
    BY <1>0, <1>1, <2>8, CutPairs
  <2> QED BY <2>0, <2>6, <2>9, <2>10, <2>11 DEF Core
<1> QED BY <1>3, <1>4

\* append_bin adds a bin at the end.
LEMMA Appended ==
    ASSUME NEW h, Core(h), NEW s \in Nat \ {0}, s % GRAIN = 0
    PROVE  LET g == append_bin(h, s) IN Core(g) /\ Longer(h.bins, g.bins, s)
<1> DEFINE B == h.bins
           n == Len(B)
           g == add_bin(h, n, B[n].addr + B[n].size, s)
<1>1. Sound(h) /\ Tiles(B) /\ B \in Seq(Bin) /\ n \in Nat /\ n \in 1 .. n
  BY CoreList
<1>2. B[n].addr + B[n].size \in Nat
  BY <1>1, Field
<1>3. append_bin(h, s) = g
  BY DEF append_bin, EndOf, Last
<1>4. Sound(g) /\ Added(B, g.bins, n, B[n].addr + B[n].size, s)
  BY <1>1, <1>2, AddBin
<1> HIDE DEF g
<1>5. Tiles(g.bins)
  BY <1>1, <1>4, AppendTiles
<1>6. SameUsed(B, g.bins)
  BY <1>1, <1>4, AddUsed DEF SameUsed
<1>7. Longer(B, g.bins, s)
  BY <1>4, <1>6 DEF Added, Longer
<1> QED BY <1>3, <1>4, <1>5, <1>7 DEF Core

\* The free last bin gets another size, and its pages are mapped.
LEMMA Resized ==
    ASSUME NEW h, Core(h), ~h.bins[Len(h.bins)].taken, NEW s \in Nat \ {0}, s % GRAIN = 0,
           NEW z \in Nat
    PROVE  LET n == Len(h.bins)
               g == allocpgs([h EXCEPT !.bins[n].size = s], h.bins[n].addr, z)
           IN  Core(g) /\ Stretched(h.bins, g.bins, s)
<1> DEFINE B == h.bins
           n == Len(B)
           f == [h EXCEPT !.bins[n].size = s]
           g == allocpgs(f, B[n].addr, z)
<1>1. Sound(h) /\ Tiles(B) /\ B \in Seq(Bin) /\ n \in Nat /\ n \in 1 .. n
  BY CoreList
<1>2. B[n].addr \in Nat /\ B[n].taken = FALSE
  BY <1>1, Field
<1>3. Sound(f) /\ Edited(B, f.bins, n, B[n].addr, s, FALSE)
  BY <1>1, <1>2, SetSize
<1> HIDE DEF f
<1>4. Sound(g) /\ g.bins = f.bins
  BY <1>2, <1>3, Mapped
<1>5. Tiles(f.bins)
  BY <1>1, <1>3, EditTiles
<1>6. SameUsed(B, f.bins)
  BY <1>1, <1>2, <1>3, EditUsed
<1>7. \A k \in 1 .. n - 1 : k \in 1 .. n /\ k # n
  BY <1>1
<1>8. Stretched(B, f.bins, s)
  BY <1>3, <1>6, <1>7 DEF Edited, Stretched
<1> QED BY <1>4, <1>5, <1>8 DEF Core, f

\* Free neighbours when the list gets longer or its last bin another size.
LEMMA LongerPairs ==
    ASSUME NEW B, Len(B) \in Nat, NEW X, FreePairs(B, X), NEW D, NEW s,
           Longer(B, D, s) \/ Stretched(B, D, s), Stretched(B, D, s) => ~B[Len(B)].taken
    PROVE  FreePairs(D, X \cup {Len(B)})
<1>1. CASE Longer(B, D, s)
  <2>1. SUFFICES ASSUME NEW k \in 1 .. Len(B), k # Len(B) PROVE D[k].taken \/ D[k + 1].taken \/ k \in X
    BY <1>1 DEF Longer, FreePairs
  <2>2. k \in 1 .. Len(B) - 1 /\ k + 1 \in 1 .. Len(B)
    BY <2>1
  <2> QED BY <1>1, <2>2 DEF Longer, FreePairs
<1>2. CASE Stretched(B, D, s)
  <2>1. SUFFICES ASSUME NEW k \in 1 .. Len(B) - 1 PROVE D[k].taken \/ D[k + 1].taken \/ k \in X
    BY <1>2 DEF Stretched, FreePairs
  <2>2. k + 1 \in 1 .. Len(B) - 1 \/ k + 1 = Len(B)
    OBVIOUS
  <2>3. CASE k + 1 = Len(B)
    BY <1>2, <2>3 DEF Stretched, FreePairs
  <2>4. CASE k + 1 \in 1 .. Len(B) - 1
    BY <1>2, <2>4 DEF Stretched, FreePairs
  <2> QED BY <2>2, <2>3, <2>4
<1> QED BY <1>1, <1>2

\* A heap that can be claimed from at its last bin.
LEMMA ReadyLast ==
    ASSUME NEW g, Core(g), NEW n \in Nat, Len(g.bins) = n + 1, FreePairs(g.bins, {n}),
           NEW s, g.bins[n + 1].size = s, ~g.bins[n + 1].taken
    PROVE  Ready(g, Len(g.bins), s)
<1>1. g.bins[n + 1].size \in Nat /\ Len(g.bins) \in 1 .. Len(g.bins)
  BY CoreList, Field
<1>2. s <= g.bins[n + 1].size
  BY <1>1
<1>3. (n + 1) - 1 = n
  OBVIOUS
<1> QED BY <1>1, <1>2, <1>3 DEF Ready

\* A heap grown for a request, with its last bin to claim at the alignment.
GrownFor(h, g, s, a) ==
    /\ Ready(g, Len(g.bins), s) /\ SameUsed(h.bins, g.bins)
    /\ g.bins[Len(g.bins)].addr % a = 0

\* kalloc's growth.
LEMMA GrowReady ==
    ASSUME NEW h, Core(h), FreePairs(h.bins, {}), NEW s \in Nat \ {0}, s % GRAIN = 0
    PROVE  GrownFor(h, Grow(h, s), s, 1)
<1> DEFINE B == h.bins
           n == Len(B)
           g == Grow(h, s)
<1>1. B \in Seq(Bin) /\ n \in Nat /\ n \in 1 .. n
  BY CoreList
<1>2. \A x \in Nat : x % 1 = 0
  OBVIOUS
<1>3. CASE B[n].taken
  <2>1. g = append_bin(h, s)
    BY <1>3 DEF Grow
  <2>2. Core(g) /\ Longer(B, g.bins, s)
    BY <2>1, Appended
  <2> HIDE DEF g
  <2>3. FreePairs(g.bins, {} \cup {n})
    <3>1. ~Stretched(B, g.bins, s)
      BY <1>1, <2>2 DEF Longer, Stretched
    <3> QED BY <1>1, <2>2, <3>1, LongerPairs
  <2>4. Len(g.bins) = n + 1 /\ g.bins[n + 1].size = s /\ ~g.bins[n + 1].taken
    BY <2>2 DEF Longer
  <2>5. {} \cup {n} = {n}
    OBVIOUS
  <2>6. Ready(g, Len(g.bins), s)
    BY <1>1, <2>2, <2>3, <2>4, <2>5, ReadyLast
  <2>7. g.bins[Len(g.bins)].addr \in Nat
    BY <2>2, CoreList, Field
  <2> QED BY <1>2, <2>2, <2>6, <2>7 DEF GrownFor, Longer, g
<1>4. CASE ~B[n].taken
  <2>1. g = allocpgs([h EXCEPT !.bins[n].size = s], B[n].addr, s + 1) /\ s + 1 \in Nat
    BY <1>4 DEF Grow
  <2>2. Core(g) /\ Stretched(B, g.bins, s)
    BY <1>4, <2>1, Resized
  <2> HIDE DEF g
  <2>3. FreePairs(g.bins, {} \cup {n})
    BY <1>1, <1>4, <2>2, LongerPairs
  <2>4. FreePairs(g.bins, {n - 1})
    BY <1>1, <2>2, <2>3 DEF FreePairs, Stretched
  <2>5. Len(g.bins) = (n - 1) + 1 /\ g.bins[(n - 1) + 1].size = s /\ ~g.bins[(n - 1) + 1].taken /\ n - 1 \in Nat
    BY <1>1, <2>2 DEF Stretched
  <2>6. Ready(g, Len(g.bins), s)
    BY <2>2, <2>4, <2>5, ReadyLast
  <2>7. g.bins[Len(g.bins)].addr \in Nat
    BY <2>2, CoreList, Field
  <2> QED BY <1>2, <2>2, <2>6, <2>7 DEF GrownFor, Stretched, g
<1> QED BY <1>3, <1>4

\* Appending a bin of s bytes to a heap whose end has the alignment.
LEMMA AppendReady ==
    ASSUME NEW h, NEW f, Core(f), SameUsed(h.bins, f.bins), NEW a,
           FreePairs(f.bins, {}),
           (f.bins[Len(f.bins)].addr + f.bins[Len(f.bins)].size) % a = 0,
           NEW s \in Nat \ {0}, s % GRAIN = 0
    PROVE  GrownFor(h, append_bin(f, s), s, a)
<1> DEFINE B == f.bins
           n == Len(B)
           g == append_bin(f, s)
<1>1. n \in Nat
  BY CoreList
<1>2. Core(g) /\ Longer(B, g.bins, s)
  BY Appended
<1> HIDE DEF g
<1>3. ~Stretched(B, g.bins, s)
  BY <1>1, <1>2 DEF Longer, Stretched
<1>4. FreePairs(g.bins, {} \cup {n})
  BY <1>1, <1>2, <1>3, LongerPairs
<1>5. {} \cup {n} = {n}
  OBVIOUS
<1>6. /\ Len(g.bins) = n + 1 /\ g.bins[n + 1].size = s /\ ~g.bins[n + 1].taken
      /\ g.bins[Len(g.bins)].addr % a = 0
  BY <1>2 DEF Longer
<1>7. Ready(g, Len(g.bins), s)
  BY <1>1, <1>2, <1>4, <1>5, <1>6, ReadyLast
<1>8. SameUsed(h.bins, g.bins)
  BY <1>2 DEF Longer, SameUsed
<1> QED BY <1>6, <1>7, <1>8 DEF GrownFor, g

\* kalloc_a's growth.
LEMMA GrowAlignedReady ==
    ASSUME NEW h, Core(h), FreePairs(h.bins, {}), NEW s \in Nat \ {0}, s % GRAIN = 0,
           NEW a \in Nat \ {0}, a % GRAIN = 0
    PROVE  GrownFor(h, GrowAligned(h, s, a), s, a)
<1> DEFINE B == h.bins
           n == Len(B)
           e == B[n].addr + B[n].size
<1>1. Tiles(B) /\ B \in Seq(Bin) /\ n \in Nat /\ n \in 1 .. n
  BY CoreList
<1>2. B[n].addr \in Nat /\ B[n].size \in Nat
  BY <1>1, Field
<1>3. B[n].addr % 16 = 0 /\ B[n].size % 16 = 0 /\ a % 16 = 0
  BY <1>1 DEF Tiles, GRAIN
<1>4. e \in Nat /\ e % 16 = 0
  <2> HIDE DEF n
  <2>1. (B[n].addr + B[n].size) % 16 = 0
    BY <1>2, <1>3, Grains
  <2> QED BY <1>2, <2>1
<1>5. CASE B[n].taken
  <2> DEFINE p == a - (e % a)
             q == p % a
             f == append_bin(h, q)
  <2>1. GrowAligned(h, s, a) = append_bin(f, s)
    BY <1>5 DEF GrowAligned, EndOf
  <2>2. (e + p) % a = 0 /\ p \in 1 .. a /\ p % 16 = 0
    BY <1>3, <1>4, Padded, PadGrain
  <2>3. (p = a => e % a = 0) /\ q = IF p = a THEN 0 ELSE p
    <3>1. e % a \in 0 .. a - 1
      BY <1>4
    <3>2. q = IF p = a THEN 0 ELSE p
      BY <2>2, Small
    <3> QED BY <3>1, <3>2
  <2> HIDE DEF p, q
  <2>4. CASE q = 0
    <3>1. f = h
      BY <2>4 DEF append_bin, add_bin
    <3>2. e % a = 0
      BY <2>2, <2>3, <2>4
    <3>3. SameUsed(B, B)
      BY DEF SameUsed
    <3> QED BY <2>1, <3>1, <3>2, <3>3, AppendReady
  <2>5. CASE q # 0
    <3>1. q = p /\ q \in Nat \ {0} /\ q % GRAIN = 0
      BY <2>2, <2>3, <2>5 DEF GRAIN
    <3>2. Core(f) /\ Longer(B, f.bins, q)
      BY <3>1, Appended
    <3> HIDE DEF f
    <3>3. f.bins[Len(f.bins)].addr = e /\ f.bins[Len(f.bins)].size = q /\ SameUsed(B, f.bins)
      BY <3>2 DEF Longer
    <3>4. FreePairs(f.bins, {})
      <4>1. SUFFICES ASSUME NEW k \in 1 .. n PROVE f.bins[k].taken \/ f.bins[k + 1].taken
        BY <3>2 DEF FreePairs, Longer
      <4>2. k = n \/ (k \in 1 .. n - 1 /\ k + 1 \in 1 .. n)
        BY <1>1
      <4> QED BY <1>5, <3>2, <4>2 DEF FreePairs, Longer
    <3>5. (f.bins[Len(f.bins)].addr + f.bins[Len(f.bins)].size) % a = 0
      BY <2>2, <3>1, <3>3
    <3>6. GrownFor(h, append_bin(f, s), s, a)
      BY <3>2, <3>3, <3>4, <3>5, AppendReady
    <3> QED BY <2>1, <3>6
  <2> QED BY <2>4, <2>5
<1>6. CASE ~B[n].taken
  <2> DEFINE p == a - (B[n].addr % a)
             f == allocpgs([h EXCEPT !.bins[n].size = p], B[n].addr, p)
  <2>1. GrowAligned(h, s, a) = append_bin(f, s)
    BY <1>6 DEF GrowAligned
  <2>2. (B[n].addr + p) % a = 0 /\ p \in 1 .. a /\ p % GRAIN = 0
    BY <1>2, <1>3, Padded, PadGrain DEF GRAIN
  <2> HIDE DEF p
  <2>3. p \in Nat \ {0} /\ p \in Nat
    BY <2>2
  <2>4. Core(f) /\ Stretched(B, f.bins, p)
    BY <1>6, <2>2, <2>3, Resized
  <2> HIDE DEF f
  <2>5. /\ f.bins[Len(f.bins)].addr = B[n].addr /\ f.bins[Len(f.bins)].size = p
        /\ SameUsed(B, f.bins) /\ Len(f.bins) = n
    BY <2>4 DEF Stretched
  <2>6. FreePairs(f.bins, {})
    <3>1. FreePairs(f.bins, {} \cup {n})
      BY <1>1, <1>6, <2>4, LongerPairs
    <3> QED BY <1>1, <2>5, <3>1 DEF FreePairs
  <2>7. GrownFor(h, append_bin(f, s), s, a)
    BY <2>2, <2>4, <2>5, <2>6, AppendReady
  <2> QED BY <2>1, <2>7
<1> QED BY <1>5, <1>6

\* find_best_fit finds a bin that fits, if there is one.
LEMMA BestFit ==
    ASSUME NEW h, Core(h), NEW s \in Nat, NEW a, Fitting(h, s, a) # {}
    PROVE  find_best_fit(h, s, a) \in Fitting(h, s, a)
<1> DEFINE B == h.bins
           fits == Fitting(h, s, a)
           sizes == {B[i].size : i \in fits}
<1>1. B \in Seq(Bin) /\ DOMAIN B = 1 .. Len(B) /\ Len(B) \in Nat
  BY CoreList
<1>2. fits \subseteq 1 .. Len(B)
  BY <1>1 DEF Fitting
<1>3. \A i \in fits : B[i].size \in Nat
  BY <1>1, <1>2, Field
<1> HIDE DEF fits
<1>4. sizes \in SUBSET Nat /\ sizes # {}
  BY <1>3 DEF fits
<1>5. PICK z \in sizes : \A y \in sizes : z <= y
  BY <1>4, LeastNat
<1> DEFINE best == {i \in fits : B[i].size = z}
<1>6. best \in SUBSET Nat /\ best # {}
  <2>1. \E i \in fits : B[i].size = z
    BY <1>5
  <2>2. fits \in SUBSET Nat
    BY <1>1, <1>2
  <2> QED BY <2>1, <2>2
<1> HIDE DEF best
<1>7. PICK i \in best : \A j \in best : i <= j
  BY <1>6, LeastNat
<1>8. i \in fits /\ B[i].size = z
  BY <1>7 DEF best
<1>9. ASSUME NEW j \in fits PROVE B[i].size < B[j].size \/ (B[i].size = B[j].size /\ i <= j)
  <2>1. z <= B[j].size /\ z \in Nat /\ B[j].size \in Nat
    BY <1>3, <1>4, <1>5
  <2>2. CASE z = B[j].size
    <3>1. j \in best
      BY <2>2 DEF best
    <3> QED BY <1>7, <1>8, <2>2, <3>1
  <2>3. CASE z # B[j].size
    BY <1>8, <2>1, <2>3
  <2> QED BY <2>2, <2>3
<1>10. \E x \in fits : \A j \in fits : B[x].size < B[j].size \/ (B[x].size = B[j].size /\ x <= j)
  BY <1>8, <1>9
<1>11. find_best_fit(h, s, a) =
         CHOOSE x \in fits : \A j \in fits : B[x].size < B[j].size \/ (B[x].size = B[j].size /\ x <= j)
  BY DEF find_best_fit, fits
<1> QED BY <1>10, <1>11 DEF fits

-----------------------------------------------------------------------------
(* Release.                                                                *)

\* g is f with the same bins in use and free neighbours only at X.
Tidied(f, g, X) == Core(g) /\ SameUsed(f.bins, g.bins) /\ FreePairs(g.bins, X)

\* Merging a free bin with a free one after it.
LEMMA MergedNext ==
    ASSUME NEW f, Core(f), NEW i \in 1 .. Len(f.bins), ~f.bins[i].taken,
           FreePairs(f.bins, {i - 1, i})
    PROVE  LET g == MergeNext(f, i)
           IN  Tidied(f, g, {i - 1}) /\ i \in 1 .. Len(g.bins) /\ ~g.bins[i].taken
<1> DEFINE B == f.bins
           g == MergeNext(f, i)
<1>1. /\ Sound(f) /\ Tiles(B) /\ B \in Seq(Bin) /\ Len(B) \in Nat /\ DOMAIN B = 1 .. Len(B)
  BY CoreList
<1>2. CASE ~IsFree(f, i + 1)
  <2>1. g = f
    BY <1>2 DEF MergeNext
  <2>2. i + 1 \in 1 .. Len(B) => B[i + 1].taken
    BY <1>1, <1>2 DEF IsFree
  <2>3. FreePairs(B, {i - 1})
    <3>1. SUFFICES ASSUME NEW k \in 1 .. Len(B) - 1, k # i - 1 PROVE B[k].taken \/ B[k + 1].taken
      BY DEF FreePairs
    <3>2. k = i => k + 1 \in 1 .. Len(B)
      BY <1>1
    <3> QED BY <2>2, <3>1, <3>2 DEF FreePairs
  <2>4. SameUsed(B, B)
    BY DEF SameUsed
  <2> QED BY <2>1, <2>3, <2>4 DEF Tidied
<1>3. CASE IsFree(f, i + 1)
  <2> DEFINE z == B[i].size + B[i + 1].size
             e == [f EXCEPT !.bins[i].size = z]
             d == remove_bin(e, i + 1)
  <2>1. /\ i \in 1 .. Len(B) - 1 /\ i + 1 \in 1 .. Len(B) /\ ~B[i + 1].taken
    BY <1>1, <1>3 DEF IsFree
  <2>2. z \in Nat \ {0} /\ B[i].taken = FALSE
    <3>1. B[i].size \in Nat /\ B[i].size > 0 /\ B[i].taken = FALSE
      BY <1>1, Field
    <3>2. B[i + 1].size \in Nat
      BY <1>1, <2>1, Field
    <3>3. B[i].size + B[i + 1].size \in Nat /\ B[i].size + B[i + 1].size > 0
      BY <3>1, <3>2
    <3> QED BY <3>1, <3>3
  <2>3. g = d
    BY <1>3 DEF MergeNext
  <2> HIDE DEF z
  <2>4. Sound(e) /\ Edited(B, e.bins, i, B[i].addr, z, FALSE)
    BY <1>1, <2>2, SetSize
  <2> HIDE DEF e
  <2>5. i + 1 \in 1 .. Len(e.bins)
    BY <2>1, <2>4 DEF Edited
  <2>6. Sound(d) /\ Dropped(e.bins, d.bins, i + 1)
    BY <2>4, <2>5, RemoveBin
  <2> HIDE DEF d
  <2>7. Merged(B, d.bins, i)
    <3>1. /\ d.bins \in Seq(Bin) /\ Len(d.bins) = Len(B) - 1
      BY <2>4, <2>6 DEF Edited, Dropped
    <3>2. ASSUME NEW k \in 1 .. i - 1 PROVE d.bins[k] = B[k]
      <4>1. k \in 1 .. (i + 1) - 1 /\ k \in 1 .. Len(B) /\ k # i
        BY <1>1
      <4> QED BY <2>4, <2>6, <4>1 DEF Edited, Dropped
    <3>3. ASSUME NEW k \in i + 1 .. Len(B) - 1 PROVE d.bins[k] = B[k + 1]
      <4>1. k + 1 \in 1 .. Len(B) /\ k + 1 # i
        BY <1>1
      <4> QED BY <2>4, <2>6, <4>1 DEF Edited, Dropped
    <3>4. d.bins[i] = e.bins[i]
      <4>1. i \in 1 .. (i + 1) - 1
        BY <1>1
      <4> QED BY <2>6, <4>1 DEF Dropped
    <3>5. d.bins[i].addr = B[i].addr /\ d.bins[i].size = z /\ ~d.bins[i].taken
      BY <2>4, <3>4 DEF Edited
    <3> QED BY <3>1, <3>2, <3>3, <3>5 DEF Merged, z
  <2>8. Tiles(d.bins)
    BY <1>1, <2>1, <2>7, MergeTiles
  <2>9. SameUsed(B, d.bins)
    BY <1>1, <2>1, <2>7, MergeUsed DEF SameUsed
  <2>10. FreePairs(d.bins, {i - 1, i} \ {i})
    BY <1>1, <2>1, <2>7, MergePairs
  <2>11. {i - 1, i} \ {i} = {i - 1}
    OBVIOUS
  <2>12. i \in 1 .. Len(d.bins) /\ ~d.bins[i].taken
    BY <2>1, <2>7 DEF Merged
  <2> QED BY <2>3, <2>6, <2>8, <2>9, <2>10, <2>11, <2>12 DEF Tidied, Core
<1> QED BY <1>2, <1>3

\* Merging a free bin with a free one before it.
LEMMA MergedPrev ==
    ASSUME NEW f, Core(f), NEW i \in 1 .. Len(f.bins), ~f.bins[i].taken,
           FreePairs(f.bins, {i - 1})
    PROVE  Tidied(f, MergePrev(f, i), {})
<1> DEFINE B == f.bins
           g == MergePrev(f, i)
<1>1. /\ Sound(f) /\ Tiles(B) /\ B \in Seq(Bin) /\ Len(B) \in Nat /\ DOMAIN B = 1 .. Len(B)
  BY CoreList
<1>2. CASE ~IsFree(f, i - 1)
  <2>1. g = f
    BY <1>2 DEF MergePrev
  <2>2. i - 1 \in 1 .. Len(B) => B[i - 1].taken
    BY <1>1, <1>2 DEF IsFree
  <2>3. FreePairs(B, {})
    <3>1. SUFFICES ASSUME NEW k \in 1 .. Len(B) - 1 PROVE B[k].taken \/ B[k + 1].taken
      BY DEF FreePairs
    <3>2. k \in 1 .. Len(B)
      BY <1>1
    <3> QED BY <2>2, <3>1, <3>2 DEF FreePairs
  <2>4. SameUsed(B, B)
    BY DEF SameUsed
  <2> QED BY <2>1, <2>3, <2>4 DEF Tidied
<1>3. CASE IsFree(f, i - 1)
  <2> DEFINE j == i - 1
             a == B[j].addr
             z == B[i].size + B[j].size
             b == [hdr |-> B[i].hdr, addr |-> a, size |-> z, taken |-> B[i].taken]
             e == [f EXCEPT !.bins = [B EXCEPT ![i] = b]]
             d == remove_bin(e, j)
  <2>1. /\ j \in 1 .. Len(B) - 1 /\ j \in 1 .. Len(B) /\ j + 1 = i /\ ~B[j].taken
    BY <1>1, <1>3 DEF IsFree
  <2>2. z \in Nat \ {0} /\ a \in Nat /\ B[i].taken = FALSE /\ B[i].taken \in BOOLEAN /\ B[i] \in Bin
    <3>1. B[i] \in Bin /\ B[i].size \in Nat /\ B[i].size > 0 /\ B[i].taken = FALSE /\ B[i].taken \in BOOLEAN
      BY <1>1, Field
    <3>2. B[j].addr \in Nat /\ B[j].size \in Nat
      BY <1>1, <2>1, Field
    <3> HIDE DEF j
    <3>3. B[i].size + B[j].size \in Nat /\ B[i].size + B[j].size > 0
      BY <3>1, <3>2, SMTT(30)
    <3> QED BY <3>1, <3>2, <3>3
  <2>3. g = d
    <3>1. g = remove_bin([f EXCEPT !.bins[i].size = @ + B[j].size, !.bins[i].addr = a], j)
      BY <1>3 DEF MergePrev
    <3>2. [[B[i] EXCEPT !.size = @ + B[j].size] EXCEPT !.addr = a] = b
      <4> DEFINE r == B[i]
      <4>1. r \in Bin /\ z = r.size + B[j].size
        BY <2>2
      <4> HIDE DEF r, a, z
      <4>2. [[r EXCEPT !.size = z] EXCEPT !.addr = a] = [hdr |-> r.hdr, addr |-> a, size |-> z, taken |-> r.taken]
        <5>1. [r EXCEPT !.size = z] = [hdr |-> r.hdr, addr |-> r.addr, size |-> z, taken |-> r.taken]
          BY <4>1 DEF Bin
        <5>2. [[hdr |-> r.hdr, addr |-> r.addr, size |-> z, taken |-> r.taken] EXCEPT !.addr = a]
                = [hdr |-> r.hdr, addr |-> a, size |-> z, taken |-> r.taken]
          OBVIOUS
        <5> QED BY <5>1, <5>2
      <4> QED BY <4>1, <4>2 DEF r
    <3>3. [f EXCEPT !.bins[i].size = @ + B[j].size, !.bins[i].addr = a] = e
      BY <1>1, <3>2 DEF Sound, HeapType
    <3> QED BY <3>1, <3>3
  <2>4. b = [hdr |-> B[i].hdr, addr |-> a, size |-> z, taken |-> B[i].taken]
    OBVIOUS
  <2> HIDE DEF j, a, z, b
  <2>5. Sound(e) /\ Edited(B, e.bins, i, a, z, FALSE)
    <3>0. Sound(f) /\ a \in Nat /\ z \in Nat \ {0} /\ B[i].taken \in BOOLEAN
      BY <1>1, <2>2
    <3>1. Sound(e) /\ Edited(B, e.bins, i, a, z, B[i].taken)
      BY <3>0, <2>4, EditBin, Zenon
    <3> QED BY <2>2, <3>1
  <2> HIDE DEF e
  <2>6. j \in 1 .. Len(e.bins)
    BY <2>1, <2>5 DEF Edited
  <2>7. Sound(d) /\ Dropped(e.bins, d.bins, j)
    BY <2>5, <2>6, RemoveBin
  <2> HIDE DEF d
  <2>8. Merged(B, d.bins, j)
    <3>1. /\ d.bins \in Seq(Bin) /\ Len(d.bins) = Len(B) - 1
      BY <2>5, <2>7 DEF Edited, Dropped
    <3>2. ASSUME NEW k \in 1 .. j - 1 PROVE d.bins[k] = B[k]
      <4>1. k \in 1 .. Len(B) /\ k # i
        BY <1>1, <2>1
      <4> QED BY <2>5, <2>7, <4>1 DEF Edited, Dropped
    <3>3. ASSUME NEW k \in j + 1 .. Len(B) - 1 PROVE d.bins[k] = B[k + 1]
      <4>1. k + 1 \in 1 .. Len(B) /\ k + 1 # i /\ k \in j .. Len(B) - 1
        BY <1>1, <2>1
      <4> QED BY <2>5, <2>7, <4>1 DEF Edited, Dropped
    <3>4. d.bins[j] = e.bins[i]
      <4>1. j \in j .. Len(B) - 1
        BY <1>1, <2>1
      <4> QED BY <2>1, <2>5, <2>7, <4>1 DEF Dropped, Edited
    <3>5. d.bins[j].addr = B[j].addr /\ d.bins[j].size = z /\ ~d.bins[j].taken
      BY <2>5, <3>4 DEF Edited, a
    <3>6. z = B[j].size + B[j + 1].size
      BY <1>1, <2>1, Field DEF z
    <3> QED BY <3>1, <3>2, <3>3, <3>5, <3>6 DEF Merged
  <2>9. Tiles(d.bins)
    BY <1>1, <2>1, <2>8, MergeTiles
  <2>10. SameUsed(B, d.bins)
    BY <1>1, <2>1, <2>8, MergeUsed DEF SameUsed
  <2>11. FreePairs(d.bins, {j} \ {j})
    <3>1. FreePairs(B, {j}) /\ {j} \in SUBSET {j - 1, j}
      BY DEF j
    <3> QED BY <1>1, <2>1, <2>8, <3>1, MergePairs
  <2>12. {j} \ {j} = {}
    OBVIOUS
  <2> QED BY <2>3, <2>7, <2>9, <2>10, <2>11, <2>12 DEF Tidied, Core
<1> QED BY <1>2, <1>3

\* g is h with its i-th bin free.
Freed(h, g, i) ==
    /\ Core(g) /\ FreePairs(g.bins, {})
    /\ h.bins[i].taken => LessUsed(h.bins, g.bins, h.bins[i].addr)
    /\ ~h.bins[i].taken => SameUsed(h.bins, g.bins)

\* Clearing the taken bit and merging.
LEMMA FreedBin ==
    ASSUME NEW h, Core(h), FreePairs(h.bins, {}), NEW i \in 1 .. Len(h.bins)
    PROVE  Freed(h, merge_bin([h EXCEPT !.bins[i].taken = FALSE], i), i)
<1> DEFINE B == h.bins
           f == [h EXCEPT !.bins[i].taken = FALSE]
           g == MergeNext(f, i)
           d == MergePrev(g, i)
<1>1. Sound(h) /\ Tiles(B) /\ B \in Seq(Bin) /\ Len(B) \in Nat
  BY CoreList
<1>2. Sound(f) /\ Edited(B, f.bins, i, B[i].addr, B[i].size, FALSE)
  BY <1>1, SetTaken
<1>3. merge_bin(f, i) = d
  BY DEF merge_bin
<1> HIDE DEF f
<1>4. Core(f) /\ i \in 1 .. Len(f.bins) /\ ~f.bins[i].taken
  <2>1. B[i].size % GRAIN = 0
    BY <1>1 DEF Tiles
  <2>2. Tiles(f.bins)
    BY <1>1, <1>2, <2>1, EditTiles
  <2> QED BY <1>2, <2>2 DEF Core, Edited
<1>5. FreePairs(f.bins, {i - 1, i})
  <2>1. Len(f.bins) = Len(B) /\ \A k \in 1 .. Len(B) : k # i => f.bins[k] = B[k]
    BY <1>2 DEF Edited
  <2>2. SUFFICES ASSUME NEW k \in 1 .. Len(B) - 1, k # i - 1, k # i
                 PROVE  f.bins[k].taken \/ f.bins[k + 1].taken
    BY <2>1 DEF FreePairs
  <2>3. k \in 1 .. Len(B) /\ k + 1 \in 1 .. Len(B) /\ k + 1 # i
    BY <1>1, <2>2
  <2> QED BY <2>1, <2>2, <2>3 DEF FreePairs
<1>6. Tidied(f, g, {i - 1}) /\ i \in 1 .. Len(g.bins) /\ ~g.bins[i].taken
  BY <1>4, <1>5, MergedNext
<1> HIDE DEF g
<1>7. Tidied(g, d, {})
  BY <1>6, MergedPrev DEF Tidied
<1> HIDE DEF d
<1>8. SameUsed(f.bins, d.bins)
  BY <1>6, <1>7 DEF Tidied, SameUsed
<1>9. ASSUME B[i].taken PROVE LessUsed(B, d.bins, B[i].addr)
  <2>1. LessUsed(B, f.bins, B[i].addr)
    BY <1>1, <1>2, <1>9, FreeUsed DEF LessUsed
  <2> QED BY <1>8, <2>1 DEF LessUsed, SameUsed
<1>10. ASSUME ~B[i].taken PROVE SameUsed(B, d.bins)
  <2>1. SameUsed(B, f.bins)
    BY <1>2, <1>10, EditUsed
  <2> QED BY <1>8, <2>1 DEF SameUsed
<1> QED BY <1>3, <1>7, <1>9, <1>10 DEF Tidied, Freed, f

-----------------------------------------------------------------------------
(* The inductive invariant.                                                *)

\* Two taken bins do not overlap.
LEMMA UsedApart ==
    ASSUME NEW D, Tiles(D), NEW a, NEW b, NEW s, NEW z, Used(D, a, s), Used(D, b, z), a # b
    PROVE  /\ a \in Nat /\ b \in Nat /\ s \in Nat /\ z \in Nat
           /\ a + s <= b \/ b + z <= a
<1>1. PICK j \in 1 .. Len(D) : D[j].addr = a /\ D[j].size = s
  BY DEF Used
<1>2. PICK k \in 1 .. Len(D) : D[k].addr = b /\ D[k].size = z
  BY DEF Used
<1>3. D \in Seq(Bin)
  BY DEF Tiles
<1>4. a \in Nat /\ b \in Nat /\ s \in Nat /\ z \in Nat /\ Len(D) \in Nat
  BY <1>1, <1>2, <1>3, Field
<1>5. j < k \/ k < j
  BY <1>1, <1>2, <1>4
<1>6. j < k => a + s <= b
  BY <1>1, <1>2, Ordered
<1>7. k < j => b + z <= a
  BY <1>1, <1>2, Ordered
<1> QED BY <1>4, <1>5, <1>6, <1>7

\* An allocation at p.
Allocates(p, req) ==
    /\ Core(heap') /\ FreePairs(heap'.bins, {})
    /\ MoreUsed(heap.bins, heap'.bins, p, RoundUp(req.size, GRAIN))
    /\ \A z : ~Used(heap.bins, p, z)
    /\ p \in Places /\ p % req.align = 0
    /\ live' = live \cup {[addr |-> p, size |-> req.size]}

\* What kalloc and kalloc_a do.
LEMMA AllocateStep ==
    ASSUME IInv, NEW req \in Request, Allocate(req)
    PROVE  \E p \in Nat : Allocates(p, req)
<1> DEFINE rsize == RoundUp(req.size, GRAIN)
           best  == find_best_fit(heap, rsize, req.align)
           grown == IF req.align = 1 THEN Grow(heap, rsize)
                                     ELSE GrowAligned(heap, rsize, req.align)
           h     == IF best # 0 THEN heap ELSE grown
           i     == IF best # 0 THEN best ELSE Len(grown.bins)
<1>0. Core(heap) /\ FreePairs(heap.bins, {})
  BY DEF IInv
<1>1. /\ EndOf(Last(h.bins)) <= HEAPMAX /\ heap' = Claim(h, i, rsize)
      /\ live' = live \cup {[addr |-> h.bins[i].addr, size |-> req.size]}
  BY DEF Allocate
<1>2. req.size \in Nat \ {0} /\ req.align \in Nat \ {0} /\ (req.align = 1 \/ req.align % GRAIN = 0)
  BY RequestAssumption
<1>3. rsize \in Nat \ {0} /\ rsize % GRAIN = 0 /\ rsize \in Nat /\ rsize > 0
  <2>1. rsize \in Nat /\ rsize >= req.size /\ rsize % GRAIN = 0
    BY <1>2, Rounded
  <2> HIDE DEF rsize
  <2> QED BY <1>2, <2>1
<1> HIDE DEF rsize
<1>4. Ready(h, i, rsize) /\ SameUsed(heap.bins, h.bins) /\ h.bins[i].addr % req.align = 0
  <2>1. CASE best # 0
    <3>1. Fitting(heap, rsize, req.align) # {}
      BY <2>1 DEF find_best_fit
    <3>2. best \in Fitting(heap, rsize, req.align)
      BY <1>0, <1>3, <3>1, BestFit
    <3>3. h = heap /\ i = best
      BY <2>1
    <3> HIDE DEF best, h, i
    <3>4. /\ best \in 1 .. Len(heap.bins) /\ ~heap.bins[best].taken
          /\ heap.bins[best].size >= rsize /\ heap.bins[best].addr % req.align = 0
          /\ heap.bins \in Seq(Bin) /\ Len(heap.bins) \in Nat
      BY <1>0, <3>2, CoreList DEF Fitting
    <3>5. rsize <= heap.bins[best].size
      BY <1>3, <3>4, Field
    <3>6. FreePairs(heap.bins, {best - 1})
      BY <1>0 DEF FreePairs
    <3>7. best < Len(heap.bins) => heap.bins[best + 1].taken
      <4>1. best < Len(heap.bins) => best \in 1 .. Len(heap.bins) - 1
        BY <3>4
      <4> QED BY <1>0, <3>4, <4>1 DEF FreePairs
    <3>8. SameUsed(heap.bins, heap.bins)
      BY DEF SameUsed
    <3> QED BY <1>0, <3>3, <3>4, <3>5, <3>6, <3>7, <3>8 DEF Ready
  <2>2. CASE best = 0
    <3>1. h = grown /\ i = Len(grown.bins)
      BY <2>2
    <3>2. GrownFor(heap, grown, rsize, req.align)
      <4>1. CASE req.align = 1
        <5>1. GrownFor(heap, Grow(heap, rsize), rsize, 1)
          BY <1>0, <1>3, GrowReady
        <5> QED BY <4>1, <5>1
      <4>2. CASE req.align # 1
        <5>1. GrownFor(heap, GrowAligned(heap, rsize, req.align), rsize, req.align)
          BY <1>0, <1>2, <1>3, <4>2, GrowAlignedReady
        <5> QED BY <4>2, <5>1
      <4> QED BY <4>1, <4>2
    <3> HIDE DEF grown, h, i
    <3> QED BY <3>1, <3>2 DEF GrownFor
  <2> QED BY <2>1, <2>2
<1> HIDE DEF h, i
<1> DEFINE p == h.bins[i].addr
<1>5. /\ Core(heap') /\ FreePairs(heap'.bins, {})
      /\ MoreUsed(h.bins, heap'.bins, p, rsize)
  BY <1>1, <1>3, <1>4, Claimed
<1>6. MoreUsed(heap.bins, heap'.bins, p, rsize)
  BY <1>4, <1>5 DEF MoreUsed, SameUsed
<1>7. /\ Core(h) /\ i \in 1 .. Len(h.bins) /\ ~h.bins[i].taken
  BY <1>4 DEF Ready
<1>8. /\ Tiles(h.bins) /\ h.bins \in Seq(Bin) /\ Len(h.bins) \in Nat
      /\ Len(h.bins) \in 1 .. Len(h.bins)
  BY <1>7, CoreList
<1>9. \A z : ~Used(heap.bins, p, z)
  <2>1. ASSUME NEW z, Used(h.bins, p, z) PROVE FALSE
    <3>1. PICK k \in 1 .. Len(h.bins) : h.bins[k].taken /\ h.bins[k].addr = p
      BY <2>1 DEF Used
    <3>2. k = i
      BY <1>7, <1>8, <3>1, OneAddress
    <3> QED BY <1>7, <3>1, <3>2
  <2> QED BY <1>4, <2>1 DEF SameUsed
<1>10. p \in Places
  <2>1. p \in Nat /\ p % GRAIN = 0
    BY <1>7, <1>8, Field DEF Tiles
  <2> DEFINE n == Len(h.bins)
  <2>2. /\ h.bins[n].addr \in Nat /\ h.bins[n].size \in Nat /\ h.bins[i].size \in Nat
        /\ h.bins[n].addr + h.bins[n].size <= HEAPMAX
    BY <1>1, <1>7, <1>8, Field DEF EndOf, Last
  <2>3. i = n \/ h.bins[i].addr + h.bins[i].size <= h.bins[n].addr
    BY <1>7, <1>8, Ordered
  <2>4. p <= HEAPMAX
    <3> HIDE DEF n
    <3> QED BY <2>1, <2>2, <2>3, HeapMaxAssumption
  <2> QED BY <2>1, <2>4, HeapMaxAssumption DEF Places
<1>11. p \in Nat
  BY <1>10 DEF Places
<1>12. Allocates(p, req)
  BY <1>1, <1>4, <1>5, <1>6, <1>9, <1>10 DEF Allocates, rsize
<1> QED BY <1>11, <1>12

\* The bins, the headers and the blocks at the start.
LEMMA InitInv == Init => IInv
<1> SUFFICES ASSUME Init PROVE IInv
  OBVIOUS
<1> DEFINE b == [hdr |-> 0, addr |-> 0, size |-> PAGE, taken |-> FALSE]
           B == <<b>>
           E == <<>>
<1>1. heap.bins = B /\ heap.empties = E /\ heap.hiaddr = 0 /\ live = {}
  BY DEF Init, heap_init
<1>2. b \in Bin /\ b.hdr = 0 /\ b.addr = 0 /\ b.size = PAGE /\ ~b.taken
  BY PageAssumption DEF Bin
<1> HIDE DEF b
<1>3. B \in Seq(Bin) /\ Len(B) = 1 /\ B[1] = b
  BY <1>2
<1>4. E \in Seq(Nat) /\ Len(E) = 0
  BY EmptySeq
<1>5. heap \in HeapType
  BY <1>3, <1>4 DEF Init, heap_init, HeapType, b
<1> HIDE DEF B, E
<1>6. \A k \in 1 .. 1 : k = 1
  OBVIOUS
<1>7. Numbered(B, E, 0)
  <2>1. \A k \in 1 .. Len(B) : k = 1 /\ B[k].hdr = 0
    BY <1>2, <1>3
  <2>2. \A k \in 1 .. Len(E) : FALSE
    BY <1>4
  <2>3. \A y \in 0 .. 0 : y = 0
    OBVIOUS
  <2>4. 1 \in 1 .. Len(B)
    BY <1>3
  <2> QED BY <2>1, <2>2, <2>3, <2>4 DEF Numbered
<1>8. Tiles(B)
  <2>1. \A k \in 1 .. Len(B) : B[k].addr = 0 /\ B[k].size = PAGE
    BY <1>2, <1>3
  <2>2. \A k \in 1 .. Len(B) - 1 : FALSE
    BY <1>3
  <2>3. 0 % GRAIN = 0
    BY DEF GRAIN
  <2> QED BY <1>2, <1>3, <2>1, <2>2, <2>3, PageAssumption DEF Tiles
<1>9. FreePairs(B, {})
  BY <1>3 DEF FreePairs
<1>10. \A a, z : ~Used(B, a, z)
  BY <1>2, <1>3 DEF Used
<1>11. Blocks(B)
  BY <1>1, <1>10 DEF Blocks
<1> QED BY <1>1, <1>5, <1>7, <1>8, <1>9, <1>11 DEF IInv, Core, Sound

\* Allocation keeps the invariant.
LEMMA AllocateInv ==
    ASSUME IInv, NEW req \in Request, Allocate(req)
    PROVE  IInv'
<1> DEFINE B == heap.bins
           D == heap'.bins
           s == RoundUp(req.size, GRAIN)
<1>1. PICK p \in Nat : Allocates(p, req)
  BY AllocateStep
<1> DEFINE new == [addr |-> p, size |-> req.size]
<1>2. /\ Core(heap') /\ FreePairs(D, {}) /\ live' = live \cup {new}
      /\ \A a, z : Used(D, a, z) <=> Used(B, a, z) \/ (a = p /\ z = s)
      /\ \A z : ~Used(B, p, z)
  BY <1>1 DEF Allocates, MoreUsed
<1>3. req.size \in Nat \ {0}
  BY RequestAssumption
<1>4. /\ live \subseteq [addr : Nat, size : Nat \ {0}]
      /\ \A b, c \in live : b.addr = c.addr => b = c
      /\ \A b \in live : Used(B, b.addr, RoundUp(b.size, GRAIN))
      /\ \A a, z \in Nat : Used(B, a, z) => \E b \in live : b.addr = a /\ RoundUp(b.size, GRAIN) = z
  BY DEF IInv, Blocks
<1>5. new.addr = p /\ RoundUp(new.size, GRAIN) = s /\ new \in [addr : Nat, size : Nat \ {0}]
  BY <1>3
<1> HIDE DEF new, s
<1>6. \A b \in live : b.addr # p
  BY <1>2, <1>4
<1>7. /\ live' \subseteq [addr : Nat, size : Nat \ {0}]
      /\ \A b, c \in live' : b.addr = c.addr => b = c
  BY <1>2, <1>4, <1>5, <1>6
<1>8. \A b \in live' : Used(D, b.addr, RoundUp(b.size, GRAIN))
  BY <1>2, <1>4, <1>5
<1>9. \A a, z \in Nat : Used(D, a, z) => \E b \in live' : b.addr = a /\ RoundUp(b.size, GRAIN) = z
  BY <1>2, <1>4, <1>5
<1> QED BY <1>2, <1>7, <1>8, <1>9 DEF IInv, Blocks

\* What Release does: nothing, or it frees the bin at p.
LEMMA ReleaseStep ==
    ASSUME IInv, NEW p, Release(p)
    PROVE  \/ heap' = heap /\ \A i \in 1 .. Len(heap.bins) : heap.bins[i].addr # p
           \/ \E i \in 1 .. Len(heap.bins) : heap.bins[i].addr = p /\ Freed(heap, heap', i)
<1> DEFINE at == {i \in DOMAIN heap.bins : heap.bins[i].addr = p}
<1>1. Core(heap) /\ FreePairs(heap.bins, {}) /\ DOMAIN heap.bins = 1 .. Len(heap.bins) /\ Len(heap.bins) \in Nat
  BY CoreList DEF IInv
<1>2. CASE at = {}
  BY <1>1, <1>2 DEF Release
<1>3. CASE at # {}
  <2> DEFINE least == CHOOSE i \in at : \A j \in at : i <= j
  <2>1. heap' = merge_bin([heap EXCEPT !.bins[least].taken = FALSE], least)
    BY <1>3 DEF Release
  <2>2. at \in SUBSET Nat
    BY <1>1
  <2>3. \E i \in at : \A j \in at : i <= j
    BY <1>3, <2>2, LeastNat
  <2>4. least \in at
    BY <2>3
  <2> HIDE DEF least
  <2>5. least \in 1 .. Len(heap.bins) /\ heap.bins[least].addr = p
    BY <1>1, <2>4
  <2>6. Freed(heap, heap', least)
    BY <1>1, <2>1, <2>5, FreedBin
  <2> QED BY <2>5, <2>6
<1> QED BY <1>2, <1>3

\* Freeing a block keeps the invariant.
LEMMA FreeInv ==
    ASSUME IInv, NEW block \in live, Release(block.addr), live' = live \ {block}
    PROVE  IInv'
<1> DEFINE B == heap.bins
           D == heap'.bins
           p == block.addr
<1>1. /\ live \subseteq [addr : Nat, size : Nat \ {0}]
      /\ \A b, c \in live : b.addr = c.addr => b = c
      /\ \A b \in live : Used(B, b.addr, RoundUp(b.size, GRAIN))
      /\ \A a, z \in Nat : Used(B, a, z) => \E b \in live : b.addr = a /\ RoundUp(b.size, GRAIN) = z
  BY DEF IInv, Blocks
<1>2. PICK k \in 1 .. Len(B) : B[k].taken /\ B[k].addr = p
  BY <1>1 DEF Used
<1>3. PICK i \in 1 .. Len(B) : B[i].addr = p /\ Freed(heap, heap', i)
  BY <1>2, ReleaseStep
<1>4. Tiles(B)
  BY DEF IInv, Core
<1>5. i = k
  BY <1>2, <1>3, <1>4, OneAddress
<1>6. /\ Core(heap') /\ FreePairs(D, {})
      /\ \A a, z : Used(D, a, z) <=> Used(B, a, z) /\ a # p
  BY <1>2, <1>3, <1>5 DEF Freed, LessUsed
<1>7. /\ live' \subseteq [addr : Nat, size : Nat \ {0}]
      /\ \A b, c \in live' : b.addr = c.addr => b = c
  BY <1>1
<1>8. \A b \in live' : b \in live /\ b.addr # p
  BY <1>1
<1>9. \A b \in live' : Used(D, b.addr, RoundUp(b.size, GRAIN))
  BY <1>1, <1>6, <1>8
<1>10. \A a, z \in Nat : Used(D, a, z) => \E b \in live' : b.addr = a /\ RoundUp(b.size, GRAIN) = z
  BY <1>1, <1>6
<1> QED BY <1>6, <1>7, <1>9, <1>10 DEF IInv, Blocks

\* Freeing what is no block in use keeps the invariant.
LEMMA StaleInv ==
    ASSUME IInv, NEW p \in Places, \A block \in live : block.addr # p, Release(p), UNCHANGED live
    PROVE  IInv'
<1> DEFINE B == heap.bins
           D == heap'.bins
<1>1. CASE heap' = heap
  BY <1>1 DEF IInv, Blocks
<1>2. CASE \E i \in 1 .. Len(B) : B[i].addr = p /\ Freed(heap, heap', i)
  <2>1. PICK i \in 1 .. Len(B) : B[i].addr = p /\ Freed(heap, heap', i)
    BY <1>2
  <2>2. B \in Seq(Bin)
    BY CoreList DEF IInv
  <2>3. B[i].addr \in Nat /\ B[i].size \in Nat
    BY <2>2, Field
  <2>4. ~B[i].taken
    <3>1. ASSUME B[i].taken PROVE Used(B, B[i].addr, B[i].size)
      BY <3>1 DEF Used
    <3> QED BY <2>1, <2>3, <3>1 DEF IInv, Blocks
  <2>5. Core(heap') /\ FreePairs(D, {}) /\ \A a, z : Used(D, a, z) <=> Used(B, a, z)
    BY <2>1, <2>4 DEF Freed, SameUsed
  <2>6. Blocks(B)
    BY DEF IInv
  <2>8. /\ live' \subseteq [addr : Nat, size : Nat \ {0}]
        /\ \A b, c \in live' : b.addr = c.addr => b = c
        /\ \A b \in live' : Used(D, b.addr, RoundUp(b.size, GRAIN))
        /\ \A a, z \in Nat : Used(D, a, z) => \E b \in live' : b.addr = a /\ RoundUp(b.size, GRAIN) = z
    BY <2>5, <2>6 DEF Blocks
  <2> QED BY <2>5, <2>8 DEF IInv, Blocks
<1> QED BY <1>1, <1>2, ReleaseStep

\* No call breaks the invariant.
LEMMA NextInv == IInv /\ [Next]_vars => IInv'
<1> SUFFICES ASSUME IInv, [Next]_vars PROVE IInv'
  OBVIOUS
<1>1. CASE kalloc \/ kalloc_a
  BY <1>1, AllocateInv DEF kalloc, kalloc_a
<1>2. CASE kfree
  BY <1>2, FreeInv DEF kfree
<1>3. CASE kfree_stale
  BY <1>3, StaleInv DEF kfree_stale
<1>4. CASE UNCHANGED vars
  BY <1>4 DEF vars, IInv, Blocks
<1> QED BY <1>1, <1>2, <1>3, <1>4 DEF Next

\* The bins, the headers and the blocks after every call.
LEMMA HeapInv == Spec => []IInv
<1>1. Init => IInv
  BY InitInv
<1>2. IInv /\ [Next]_vars => IInv'
  BY NextInv
<1> QED BY <1>1, <1>2, PTL DEF Spec

-----------------------------------------------------------------------------
(* The theorems.                                                           *)

\* The bins tile the heap and the taken ones are, rounded up, the blocks in
\* use, whatever kalloc and kalloc_a split, append or stretch and kfree merges.
THEOREM HeapTiled == Spec => []BinsTileHeap
<1>1. IInv => BinsTileHeap
  <2> SUFFICES ASSUME IInv PROVE BinsTileHeap
    OBVIOUS
  <2> DEFINE B == heap.bins
  <2>1. Core(heap) /\ Blocks(B)
    BY DEF IInv
  <2>2. /\ Tiles(B) /\ B \in Seq(Bin) /\ DOMAIN B = 1 .. Len(B)
    BY <2>1, CoreList
  <2>3. /\ B[1].addr = 0
        /\ \A i \in 1 .. Len(B) - 1 : EndOf(B[i]) = B[i + 1].addr
    BY <2>2 DEF Tiles, EndOf
  <2> DEFINE In  == {<<b.addr, b.size>> : b \in {b \in Range(B) : b.taken}}
             Out == {<<b.addr, RoundUp(b.size, GRAIN)>> : b \in live}
  <2>4. ASSUME NEW x \in In PROVE x \in Out
    <3>1. PICK b \in Range(B) : b.taken /\ x = <<b.addr, b.size>>
      OBVIOUS
    <3>2. PICK k \in 1 .. Len(B) : B[k] = b
      BY <2>2, <3>1 DEF Range
    <3>3. Used(B, b.addr, b.size)
      BY <3>1, <3>2 DEF Used
    <3>4. b.addr \in Nat /\ b.size \in Nat
      BY <2>2, <3>2, Field
    <3>5. PICK c \in live : c.addr = b.addr /\ RoundUp(c.size, GRAIN) = b.size
      BY <2>1, <3>3, <3>4 DEF Blocks
    <3> QED BY <3>1, <3>5
  <2>5. ASSUME NEW x \in Out PROVE x \in In
    <3>1. PICK c \in live : x = <<c.addr, RoundUp(c.size, GRAIN)>>
      OBVIOUS
    <3>2. Used(B, c.addr, RoundUp(c.size, GRAIN))
      BY <2>1 DEF Blocks
    <3>3. PICK k \in 1 .. Len(B) : B[k].taken /\ B[k].addr = c.addr /\ B[k].size = RoundUp(c.size, GRAIN)
      BY <3>2 DEF Used
    <3>4. B[k] \in {b \in Range(B) : b.taken}
      BY <2>2, <3>3 DEF Range
    <3> QED BY <3>1, <3>3, <3>4
  <2>6. In = Out
    BY <2>4, <2>5
  <2> QED BY <2>3, <2>6 DEF BinsTileHeap
<1> QED BY <1>1, HeapInv, PTL

\* No two neighbours are free: after kfree one turn of merge_bin's loop is
\* enough, and kalloc_a leaves no padding beside a free bin.
THEOREM HeapCoalesced == Spec => []Coalesced
<1>1. IInv => Coalesced
  BY DEF IInv, FreePairs, Coalesced
<1> QED BY <1>1, HeapInv, PTL

\* Every header describes one bin or is empty, never both: find_free_bin and
\* remove_bin lose none.
THEOREM HeapHeaders == Spec => []HeadersConserved
<1>1. IInv => HeadersConserved
  <2> SUFFICES ASSUME IInv PROVE HeadersConserved
    OBVIOUS
  <2> DEFINE B == heap.bins
             E == heap.empties
             U == [i \in DOMAIN B |-> B[i].hdr] \o E
  <2>1. /\ Core(heap) /\ heap \in HeapType /\ Numbered(B, E, heap.hiaddr)
    BY DEF IInv, Core, Sound
  <2>2. /\ B \in Seq(Bin) /\ Len(B) \in Nat /\ Len(B) \in 1 .. Len(B)
        /\ E \in Seq(Nat) /\ heap.hiaddr \in Nat /\ heap.mapped \subseteq Nat
    BY <2>1, CoreList DEF HeapType
  <2>3. TypeOK
    <3>1. B # <<>>
      BY <2>2, EmptySeq
    <3> QED BY <2>2, <3>1 DEF TypeOK
  <2>4. IsInjective(U) /\ Range(U) = 0 .. heap.hiaddr
    BY <2>1, <2>2, HeaderList
  <2> QED BY <2>3, <2>4 DEF HeadersConserved
<1> QED BY <1>1, HeapInv, PTL

\* The heap implements the allocator: a block of kalloc or kalloc_a lies where
\* the alignment asks and overlaps no block in use, and kfree takes that one away.
THEOREM HeapImplementsAllocator == Spec => ImplementsAllocator
<1>1. Init => Memory!Init
  BY DEF Init, Memory!Init
<1>2. ASSUME IInv, NEW req \in Request, Allocate(req) PROVE Memory!Alloc(req)
  <2>1. PICK p \in Nat : Allocates(p, req)
    BY <1>2, AllocateStep
  <2> DEFINE block == [addr |-> p, size |-> req.size]
             s == RoundUp(req.size, GRAIN)
  <2>2. /\ p \in Places /\ p % req.align = 0 /\ live' = live \cup {block}
        /\ Tiles(heap'.bins) /\ \A z : ~Used(heap.bins, p, z)
        /\ \A a, z : Used(heap'.bins, a, z) <=> Used(heap.bins, a, z) \/ (a = p /\ z = s)
    BY <2>1 DEF Allocates, Core, MoreUsed
  <2>3. req.size \in Nat /\ s \in Nat /\ s >= req.size
    BY RequestAssumption, Rounded
  <2>4. ASSUME NEW b \in live PROVE Memory!Disjoint(b, block)
    <3> DEFINE z == RoundUp(b.size, GRAIN)
    <3>1. b.addr \in Nat /\ b.size \in Nat /\ Used(heap.bins, b.addr, z)
      BY <1>2 DEF IInv, Blocks
    <3>2. z \in Nat /\ z >= b.size
      BY <3>1, Rounded
    <3> HIDE DEF z, s
    <3>3. b.addr # p /\ Used(heap'.bins, b.addr, z) /\ Used(heap'.bins, p, s)
      BY <2>2, <3>1
    <3>4. b.addr + z <= p \/ p + s <= b.addr
      BY <2>2, <3>3, UsedApart
    <3>5. b.addr + b.size <= p \/ p + req.size <= b.addr
      BY <2>3, <3>1, <3>2, <3>4
    <3> QED BY <3>5 DEF Memory!Disjoint
  <2> QED BY <2>2, <2>4 DEF Memory!Alloc
<1>3. IInv /\ [Next]_vars => [Memory!Next]_live
  <2> SUFFICES ASSUME IInv, [Next]_vars PROVE [Memory!Next]_live
    OBVIOUS
  <2>1. CASE kalloc \/ kalloc_a
    BY <1>2, <2>1 DEF kalloc, kalloc_a, Memory!Next
  <2>2. CASE kfree
    BY <2>2 DEF kfree, Memory!Next, Memory!Free
  <2>3. CASE kfree_stale \/ UNCHANGED vars
    BY <2>3 DEF kfree_stale, vars
  <2> QED BY <2>1, <2>2, <2>3 DEF Next
<1> QED BY <1>1, <1>3, HeapInv, PTL DEF Spec, ImplementsAllocator, Memory!Spec
=============================================================================
