----------------------------- MODULE MessageRing -----------------------------
(***************************************************************************)
(* One message ring of one process, driven only by message_push and        *)
(* message_pop.  A sender pushes when it found room, and also when it was  *)
(* woken after blocking on a full ring, in which case nothing checks for   *)
(* room again: Push is therefore not guarded by count.                     *)
(***************************************************************************)
EXTENDS MessageBuffer

CONSTANTS
    Message,        \* the message pointers senders push
    MAXPUSH         \* bound: pushes in a behaviour

ASSUME MessageAssumption == NULL \notin Message /\ STRAY \notin Message
ASSUME MaxPushAssumption == MAXPUSH \in Nat

VARIABLES
    buf,            \* the ring
    pushed,         \* history: every message pushed, in order
    popped,         \* history: every pointer popped, in order
    overrun         \* history: some push found the ring full

vars == <<buf, pushed, popped, overrun>>

Init ==
    /\ buf = EmptyBuffer
    /\ pushed = <<>>
    /\ popped = <<>>
    /\ overrun = FALSE

Push(m) ==
    /\ buf' = message_push(buf, m)
    /\ pushed' = Append(pushed, m)
    /\ overrun' = (overrun \/ buf.count = MSG_MAXCOUNT)
    /\ UNCHANGED popped

Pop ==
    /\ buf.count # 0
    /\ \E m \in Popped(buf) : popped' = Append(popped, m)
    /\ buf' = AfterPop(buf)
    /\ UNCHANGED <<pushed, overrun>>

BoundedPush == Len(pushed) < MAXPUSH /\ \E m \in Message : Push(m)

Next == BoundedPush \/ Pop

Spec == Init /\ [][Next]_vars

-----------------------------------------------------------------------------
\* Type invariant: the write index and the count stay inside the array.
TypeOK ==
    /\ buf \in RingType(Message)
    /\ pushed \in Seq(Message)
    /\ popped \in Seq(Message \cup {NULL, STRAY})
    /\ overrun \in BOOLEAN

\* Until some push finds the ring full, the first MSG_MAXCOUNT pops return the
\* pushed messages in order, each once: message_push and message_pop are a
\* FIFO for as long as the read index has not run past the array, even though
\* the write index wraps earlier.
FifoUntilWrap ==
    ~overrun => \A i \in 1 .. Len(popped) :
                    i <= MSG_MAXCOUNT => /\ i <= Len(pushed)
                                         /\ popped[i] = pushed[i]

\* Until some push finds the ring full, count is the number of messages
\* pushed and not yet popped, before and after the indices wrap: the wait of
\* message_async_recv on count = 0 and of message_async_send on
\* count >= MSG_MAXCOUNT test what they mean to test.
CountIsBacklog ==
    ~overrun => buf.count = Len(pushed) - Len(popped)

-----------------------------------------------------------------------------
\* The messages in the ring, read from its slots as a ring would be.
Pending ==
    [i \in 1 .. buf.count |-> buf.buffer[(buf.head + i - 1) % MSG_MAXCOUNT]]

Queue == INSTANCE Fifo WITH
             queue <- Pending, delivered <- popped, Capacity <- MSG_MAXCOUNT

\* message_push and message_pop implement a bounded FIFO queue up to the first
\* push on a full ring or the first pop past the end of the array: each step
\* is a step of the queue that the slots spell out.
FifoStepsUntilWrap ==
    /\ Queue!Init
    /\ [][~overrun' /\ Len(popped') <= MSG_MAXCOUNT => [Queue!Next]_(Queue!vars)]_vars

\* What syscall_msg_recv documents ("Gets a message from the current tasks
\* message queue"): whatever a pop returns was pushed.
PopReturnsMessages == \A i \in 1 .. Len(popped) : popped[i] \in Message

=============================================================================
