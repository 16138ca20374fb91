------------------------------ MODULE MCKHeap ------------------------------
(* Requests for the kernel heap.                                           *)
EXTENDS KHeap

Asked(s, a) == [size |-> s, align |-> a]

\* With pages of two grains: a size that rounds up, one of nearly two pages,
\* and a page at page alignment, the only alignment the kernel asks for.
TwoGrainRequest == {Asked(9, 1), Asked(48, 1), Asked(32, 32)}

\* With pages of four grains: the same.
FourGrainRequest == {Asked(9, 1), Asked(112, 1), Asked(64, 64)}
=============================================================================
