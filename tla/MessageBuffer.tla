---------------------------- MODULE MessageBuffer ----------------------------
(***************************************************************************)
(* The kernel's per-process ring of message pointers (message_buffer_t)    *)
(* and the two operations on it, message_push and message_pop, as pure     *)
(* operators on a ring record.  The module keeps no state: MessageRing     *)
(* checks one ring on its own and Ipc keeps one ring per process.          *)
(***************************************************************************)
EXTENDS Integers, Sequences

CONSTANTS
    MSG_MAXCOUNT,   \* slots of a ring (128 in the code)
    INT16_MAX,      \* largest value of the int16_t read index (32767)
    NULL,           \* the null pointer
    STRAY           \* a word found past the end of the array, read as a pointer

ASSUME MaxCountAssumption == MSG_MAXCOUNT \in Nat \ {0}
ASSUME Int16Assumption    == INT16_MAX \in Nat /\ INT16_MAX > MSG_MAXCOUNT

Slots == 0 .. MSG_MAXCOUNT - 1

\* message_buffer_t, for messages from the set S.
RingType(S) ==
    [head : 0 .. INT16_MAX, tail : Slots, count : 0 .. MSG_MAXCOUNT,
     buffer : [Slots -> S \cup {NULL}]]

\* A ring as user_spawn and user_fork leave it: the user_task_t is zeroed.
EmptyBuffer ==
    [head |-> 0, tail |-> 0, count |-> 0, buffer |-> [s \in Slots |-> NULL]]

\* The write index wraps; a push on a full ring still writes its slot and
\* leaves count at its maximum.
Bug_push_no_wrap(buf, msg) ==
    [buf EXCEPT !.buffer = [@ EXCEPT ![buf.tail] = msg],
                !.tail   = @ + 1,
                !.count  = IF @ < MSG_MAXCOUNT THEN @ + 1 ELSE @]

Bug_push_at_head(buf, msg) ==
    [buf EXCEPT !.buffer = [@ EXCEPT ![IF buf.head \in Slots THEN buf.head ELSE 0] = msg],
                !.tail   = (@ + 1) % MSG_MAXCOUNT,
                !.count  = IF @ < MSG_MAXCOUNT THEN @ + 1 ELSE @]

message_push(buf, msg) ==
    LET next == buf.tail + 1
    IN  [buf EXCEPT !.buffer = [@ EXCEPT ![buf.tail] = msg],
                    !.tail   = IF next >= MSG_MAXCOUNT THEN 0 ELSE next,
                    !.count  = IF @ < MSG_MAXCOUNT THEN @ + 1 ELSE @]

\* The read index has no wrap at MSG_MAXCOUNT: the only test is for a negative
\* value, which the 16-bit increment produces after INT16_MAX.
NextHead(head) ==
    IF head = INT16_MAX THEN MSG_MAXCOUNT - 1 ELSE head + 1

\* What a read of buffer[head] can yield.  The word after the array is the
\* sendbuf pointer of user_task_t, the one after it the zeroed msg_ack; what
\* lies beyond belongs to the heap.
ReadSlot(buf) ==
    CASE buf.head \in Slots           -> {buf.buffer[buf.head]}
      [] buf.head = MSG_MAXCOUNT      -> {STRAY}
      [] buf.head = MSG_MAXCOUNT + 1  -> {NULL}
      [] OTHER                        -> {NULL, STRAY}

\* message_pop is split in two: Popped is the set of pointers it may return
\* and AfterPop the ring it leaves.  On an empty ring it returns NULL.
Popped(buf) == IF buf.count = 0 THEN {NULL} ELSE ReadSlot(buf)

Bug_AfterPop(buf) == [buf EXCEPT !.head = NextHead(@)]

AfterPop(buf) ==
    IF buf.count = 0
    THEN buf
    ELSE [buf EXCEPT !.head = NextHead(@), !.count = @ - 1]

=============================================================================
