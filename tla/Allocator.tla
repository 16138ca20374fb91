----------------------------- MODULE Allocator -----------------------------
(***************************************************************************)
(* What kalloc, kalloc_a and kfree promise their callers: a block of the   *)
(* size and alignment asked for that overlaps no block handed out before   *)
(* and not yet freed.  Where the block lies is left open.                  *)
(***************************************************************************)
EXTENDS Naturals

CONSTANTS
    Request,    \* the requests made: records [size, align]
    Address     \* where a block may start

VARIABLE live   \* the blocks handed out and not freed: records [addr, size]

Disjoint(b, c) == b.addr + b.size <= c.addr \/ c.addr + c.size <= b.addr

Init == live = {}

Alloc(req) ==
    \E a \in Address :
        LET block == [addr |-> a, size |-> req.size] IN
        /\ a % req.align = 0
        /\ \A b \in live : Disjoint(b, block)
        /\ live' = live \cup {block}

Free(block) == live' = live \ {block}

Next ==
    \/ \E req \in Request : Alloc(req)
    \/ \E block \in live : Free(block)

Spec == Init /\ [][Next]_live
=============================================================================
