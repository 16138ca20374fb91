-------------------------------- MODULE List --------------------------------
(***************************************************************************)
(* The linked lists of module/dthelper/list.c, pointer by pointer: one     *)
(* plain or round list under every sequence of calls.  A node is never     *)
(* reused: what a freed one held stays readable, as it does until the heap *)
(* hands out its memory again.                                             *)
(***************************************************************************)
EXTENDS Naturals, SequencesExt

CONSTANTS
    Data,           \* what the elements point to
    MAXNODES        \* bound: nodes allocated in a behaviour

ASSUME MaxNodesAssumption == MAXNODES \in Nat
ASSUME DataAssumption     == 0 \notin Data

Node == 1 .. MAXNODES

VARIABLES
    list,           \* list_t: rnd, head, tail, elements
    node,           \* list_node_t of every node: prev, next, data
    nalloc,         \* nodes allocated so far
    freed,          \* nodes passed to kfree
    hung,           \* a search runs round for ever
    \* history
    content,        \* the nodes that should be in the list, in order
    broken          \* a deletion of an end, or an insertion before the head of
                    \* a round list: the links do not survive those

listVars == <<list, node, nalloc, freed, hung, content, broken>>

\* new_list or new_round_list.
ListInit ==
    /\ list \in [rnd : BOOLEAN, head : {0}, tail : {0}, elements : {0}]
    /\ node = [n \in Node |-> [prev |-> 0, next |-> 0, data |-> 0]]
    /\ nalloc = 0
    /\ freed = {}
    /\ hung = FALSE
    /\ content = <<>>
    /\ broken = FALSE

-----------------------------------------------------------------------------
\* The node k links after the head, or 0 where the list ends before.
Follow(k) ==
    LET at[j \in 0 .. k] == IF j = 0 THEN list.head
                            ELSE IF at[j - 1] = 0 THEN 0
                            ELSE node[at[j - 1]].next
    IN  at[k]

\* The index _seek_node really follows.
SeekIndex(i) == IF list.rnd /\ i > list.elements THEN i % list.elements ELSE i

_seek_node(i) == IF SeekIndex(i) > list.elements THEN 0 ELSE Follow(SeekIndex(i))

\* list_push with the node it allocated.  In a round list the head does not
\* learn of its new predecessor.
PushNode(n, d) ==
    IF list.elements = 0
    THEN LET self == IF list.rnd THEN n ELSE 0
         IN  /\ list' = [list EXCEPT !.head = n, !.tail = n, !.elements = 1]
             /\ node' = [node EXCEPT ![n] = [prev |-> self, next |-> self, data |-> d]]
    ELSE /\ list' = [list EXCEPT !.tail = n, !.elements = @ + 1]
         /\ node' = [node EXCEPT
                        ![list.tail].next = n,
                        ![n] = [prev |-> list.tail,
                                next |-> IF list.rnd THEN list.head ELSE 0,
                                data |-> d]]

list_push(d) ==
    /\ ~hung
    /\ nalloc < MAXNODES
    /\ PushNode(nalloc + 1, d)
    /\ nalloc' = nalloc + 1
    /\ content' = Append(content, nalloc + 1)
    /\ UNCHANGED <<freed, hung, broken>>

\* Link n before the node dp.
InsertNode(n, d, dp) ==
    LET prev   == node[dp].prev
        linked == [node EXCEPT ![n] = [prev |-> prev, next |-> dp, data |-> d],
                               ![dp].prev = n]
    IN  /\ list' = [list EXCEPT !.head = IF @ = dp THEN n ELSE @, !.elements = @ + 1]
        /\ node' = IF prev = 0 THEN linked ELSE [linked EXCEPT ![prev].next = n]

\* Where the element belongs: before the one that has index i now, or last.
InsertPlace(i) ==
    IF content = <<>> THEN 1
    ELSE IF list.rnd THEN (SeekIndex(i) % Len(content)) + 1
    ELSE IF i < Len(content) THEN i + 1 ELSE Len(content) + 1

\* Where no node has the index, list_insert falls back on list_push, which
\* allocates a second node; the first is lost.  Any index but 0 in an empty
\* round list is a division by zero: such calls are left out.
list_insert(d, i) ==
    /\ ~hung
    /\ list.rnd /\ list.elements = 0 => i = 0
    /\ LET dp == _seek_node(i)
           n  == IF dp = 0 THEN nalloc + 2 ELSE nalloc + 1
       IN  /\ n <= MAXNODES
           /\ IF dp = 0 THEN PushNode(n, d) ELSE InsertNode(n, d, dp)
           /\ nalloc' = n
           /\ content' = InsertAt(content, InsertPlace(i), n)
           /\ broken' = (broken \/ (list.rnd /\ dp # 0 /\ dp = list.head))
    /\ UNCHANGED <<freed, hung>>

\* Mutant: the node after keeps pointing at the deleted one.
Bug_Unlink(n) ==
    node' = IF node[n].prev = 0 THEN node
            ELSE [node EXCEPT ![node[n].prev].next = node[n].next]

\* The pointers list_delete changes: head, tail and elements stay as they are.
Unlink(n) ==
    LET prev == node[n].prev
        next == node[n].next
        one  == IF prev = 0 THEN node ELSE [node EXCEPT ![prev].next = next]
    IN  node' = IF next = 0 THEN one ELSE [one EXCEPT ![next].prev = prev]

DeleteNode(n) ==
    /\ Unlink(n)
    /\ freed' = freed \cup {n}
    /\ content' = RemoveFirst(content, n)
    /\ broken' = (broken \/ n \in {list.head, list.tail})
    /\ UNCHANGED <<list, nalloc, hung>>

list_delete(i) ==
    /\ ~hung
    /\ Follow(i) # 0
    /\ DeleteNode(Follow(i))

\* list_find follows next until it is null: in a round list it returns only if
\* the data is there.
list_find(d) == {k \in 0 .. MAXNODES : Follow(k) # 0 /\ node[Follow(k)].data = d}

list_remove(d) ==
    /\ ~hung
    /\ IF list_find(d) # {}
       THEN DeleteNode(Follow(Min(list_find(d))))
       ELSE /\ hung' = (list.rnd /\ list.head # 0)
            /\ UNCHANGED <<list, node, nalloc, freed, content, broken>>

Hung == hung /\ UNCHANGED listVars

ListNext ==
    \/ \E d \in Data : list_push(d) \/ list_remove(d)
    \/ \E d \in Data, i \in 0 .. MAXNODES : list_insert(d, i)
    \/ \E i \in 0 .. MAXNODES : list_delete(i)
    \/ Hung

ListSpec == ListInit /\ [][ListNext]_listVars

-----------------------------------------------------------------------------
(* Properties.                                                             *)

\* Type invariant.
ListTypeOK ==
    /\ list \in [rnd : BOOLEAN, head : Node \cup {0}, tail : Node \cup {0},
                elements : 0 .. MAXNODES]
    /\ node \in [Node -> [prev : Node \cup {0}, next : Node \cup {0},
                          data : Data \cup {0}]]
    /\ nalloc \in 0 .. MAXNODES
    /\ freed \subseteq 1 .. nalloc
    /\ hung \in BOOLEAN /\ broken \in BOOLEAN
    /\ content \in Seq(Node)

\* Until an end is deleted or something is put before the head of a round list,
\* following next from the head, and prev from the tail, meets the elements in
\* order and nothing else, whatever was pushed, inserted and deleted inside, and
\* although elements counts the deleted ones too.  This is what the scheduler
\* relies on when it follows a round list it only pushes to.  Types hold always.
LinksSpellContent ==
    /\ ListTypeOK
    /\ ~broken =>
          LET n == Len(content) IN
          IF n = 0 THEN list.head = 0 /\ list.tail = 0 ELSE
          /\ list.head = content[1] /\ list.tail = content[n]
          /\ \A k \in 1 .. n - 1 : /\ node[content[k]].next = content[k + 1]
                                   /\ node[content[k + 1]].prev = content[k]
          /\ node[content[n]].next = IF list.rnd THEN list.head ELSE 0

\* list.h, "Removes element i from the list": a node that was freed is not met
\* again.  list_delete leaves head and tail alone.
RemovedIsGone == \A k \in 0 .. MAXNODES : Follow(k) \notin freed

\* list.h, "Adds new data to the list": an element that was added and not removed
\* is met from the head.  In a round list the head's prev is not the tail, and
\* an insertion before the head redirects the wrong node.
AddedIsFound == \A k \in 1 .. Len(content) : \E j \in 0 .. MAXNODES : Follow(j) = content[k]
=============================================================================
