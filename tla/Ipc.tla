--------------------------------- MODULE Ipc ---------------------------------
(***************************************************************************)
(* Processes, the round-robin scheduler and message passing: the modules   *)
(* tasking, user and message and the system calls that drive them.         *)
(*                                                                         *)
(* The machine has one processor.  A system call enters through an         *)
(* interrupt gate, so kernel code runs with interrupts off, except where   *)
(* task_newtask turns them on again inside user_spawn and user_fork.  An   *)
(* action is therefore a stretch of kernel code nothing can interrupt:     *)
(* a whole send or receive, but one step of a process creation.            *)
(***************************************************************************)
EXTENDS MessageBuffer, FiniteSets

CONSTANTS
    MAXPROCS,       \* bound: processes ever created
    MAXMSGS         \* bound: messages ever sent

ASSUME MaxProcsAssumption == MAXPROCS \in Nat \ {0}
ASSUME MaxMsgsAssumption  == MAXMSGS \in Nat
ASSUME PointerAssumption  == NULL \notin 1 .. MAXMSGS /\ STRAY \notin 1 .. MAXMSGS

KERNEL  == -1                       \* the bootstrap task; it has no pid
Pids    == 0 .. MAXPROCS - 1
Task    == {KERNEL} \cup Pids
Message == 1 .. MAXMSGS             \* kmsg pointers, in order of allocation
NOBODY  == -2                       \* a lock that is free

VARIABLES
    \* tasking
    task_order,     \* the round list of tasks, from its head
    current_task,   \* the node of the running task, as its place in the list
    enabled,        \* _enabled
    task_lock,      \* its holder, or NOBODY
    intr,           \* the processor's interrupt flag
    blocked,        \* task_t.blocked
    \* user
    next_pid,
    utsk_list,      \* the pids in the process list, oldest first
    utsk_lock,      \* its holder, or NOBODY
    pc,             \* where each task is
    utsk,           \* local of user_spawn and user_fork: the pid they create
    \* message
    recvbuf,        \* user_task_t.recvbuf
    sendbuf,        \* user_task_t.sendbuf
    kmsg,           \* local of a send that waits: [msg, dst]
    nsent,          \* messages allocated so far
    halted,         \* a kernel panic stopped the machine
    \* history
    pushed, popped, overrun,    \* per ring, as in MessageRing
    nowhere                     \* messages sent to a pid nobody has

schedVars == <<task_order, current_task, enabled, task_lock, intr, blocked>>
procVars  == <<next_pid, utsk_list, utsk_lock, utsk>>
ringVars  == <<recvbuf, pushed, popped, overrun>>
mailVars  == <<ringVars, sendbuf, kmsg, nsent, nowhere>>
vars      == <<schedVars, procVars, mailVars, pc, halted>>

Current == task_order[current_task]

\* tasking_init leaves the bootstrap task alone in the list and tasking off;
\* user_init creates an empty process list.
Init ==
    /\ task_order = <<KERNEL>>
    /\ current_task = 1
    /\ enabled = FALSE
    /\ task_lock = NOBODY
    /\ intr = TRUE
    /\ blocked = [t \in Task |-> FALSE]
    /\ next_pid = 0
    /\ utsk_list = <<>>
    /\ utsk_lock = NOBODY
    /\ pc = [t \in Task |-> IF t = KERNEL THEN "boot" ELSE "none"]
    /\ utsk = [t \in Task |-> NULL]
    /\ recvbuf = [p \in Pids |-> EmptyBuffer]
    /\ sendbuf = [p \in Pids |-> <<>>]
    /\ kmsg = [p \in Pids |-> [msg |-> NULL, dst |-> 0]]
    /\ nsent = 0
    /\ halted = FALSE
    /\ pushed = [p \in Pids |-> <<>>]
    /\ popped = [p \in Pids |-> <<>>]
    /\ overrun = [p \in Pids |-> FALSE]
    /\ nowhere = {}

-----------------------------------------------------------------------------
(* The scheduler.                                                          *)

\* Nodes passed when the list is followed from node i to node j, one turn at most.
Hops(i, j) == IF j > i THEN j - i ELSE j + Len(task_order) - i

\* task_switch: follow the round list from the current node to the first task
\* that is not blocked; isBlocked is the flags as the caller leaves them.  The
\* task resumes with interrupts off inside the kernel, or with interrupts on
\* where the timer had interrupted it.
task_switch(isBlocked) ==
    \E j \in 1 .. Len(task_order) :
        /\ ~isBlocked[task_order[j]]
        /\ \A k \in 1 .. Len(task_order) :
               Hops(current_task, k) < Hops(current_task, j) => isBlocked[task_order[k]]
        /\ current_task' = j
        /\ intr' = (pc[task_order[j]] \in {"user", "idle"})

\* tasking_tick switches only when there is another task and tasking is on.
tasking_tick_switches == Len(task_order) > 1 /\ enabled

\* The timer interrupt calls tasking_tick in whatever task it interrupts.  The
\* LOCK of tasking_tick is released by task_switch.
Timer ==
    /\ ~halted
    /\ intr
    /\ tasking_tick_switches
    /\ task_lock = NOBODY
    /\ task_switch(blocked)
    /\ UNCHANGED <<task_order, enabled, task_lock, blocked, procVars, mailVars, pc, halted>>

\* The early returns of tasking_tick.
TimerIgnored == ~halted /\ intr /\ ~tasking_tick_switches /\ UNCHANGED vars

-----------------------------------------------------------------------------
(* Process creation: user_spawn and user_fork, which create a process by   *)
(* the same steps.  task_newtask is called from both.                      *)

Running(t, at) == ~halted /\ Current = t /\ pc[t] = at

Goto(t, to) == pc' = [pc EXCEPT ![t] = to]

\* init_init spawns the first process from the bootstrap task, with interrupts
\* on; a process spawns or forks in a system call.
Creator(t) == Running(t, IF t = KERNEL THEN "boot" ELSE "user")

\* Mutant: process creation without tasking_disable.
Bug_SpawnEnter(t) ==
    /\ Creator(t)
    /\ next_pid < MAXPROCS
    /\ utsk_lock = NOBODY
    /\ utsk_lock' = t
    /\ utsk' = [utsk EXCEPT ![t] = next_pid]
    /\ next_pid' = next_pid + 1
    /\ intr' = (t = KERNEL)
    /\ Goto(t, "newtask")
    /\ UNCHANGED <<enabled, task_order, current_task, task_lock, blocked, utsk_list,
                   mailVars, halted>>

\* LOCK(utsk_lock), tasking_disable(), next_pid++.
SpawnEnter(t) ==
    /\ Creator(t)
    /\ next_pid < MAXPROCS
    /\ utsk_lock = NOBODY
    /\ utsk_lock' = t
    /\ enabled' = FALSE
    /\ utsk' = [utsk EXCEPT ![t] = next_pid]
    /\ next_pid' = next_pid + 1
    /\ intr' = (t = KERNEL)
    /\ Goto(t, "newtask")
    /\ UNCHANGED <<task_order, current_task, task_lock, blocked, utsk_list, mailVars, halted>>

\* task_newtask up to its LOCK(task_lock).
NewTaskLock(t) ==
    /\ Running(t, "newtask")
    /\ task_lock = NOBODY
    /\ task_lock' = t
    /\ Goto(t, "alloc")
    /\ UNCHANGED <<task_order, current_task, enabled, intr, blocked, procVars, mailVars, halted>>

\* Mutant: task_newtask without its UNLOCK(task_lock).
Bug_NewTaskPush(t) ==
    /\ Running(t, "alloc")
    /\ task_order' = Append(task_order, utsk[t])
    /\ intr' = TRUE
    /\ pc' = [pc EXCEPT ![t] = "link", ![utsk[t]] = "new"]
    /\ UNCHANGED <<current_task, enabled, task_lock, blocked, procVars, mailVars, halted>>

\* The rest of task_newtask: the task enters the round list with interrupts
\* off; enable_interrupts then turns them on, in a system call too.
NewTaskPush(t) ==
    /\ Running(t, "alloc")
    /\ task_order' = Append(task_order, utsk[t])
    /\ task_lock' = NOBODY
    /\ intr' = TRUE
    /\ pc' = [pc EXCEPT ![t] = "link", ![utsk[t]] = "new"]
    /\ UNCHANGED <<current_task, enabled, blocked, procVars, mailVars, halted>>

\* Mutant: tasking_enable before UNLOCK(utsk_lock).
Bug_SpawnLink(t) ==
    /\ Running(t, "link")
    /\ utsk_list' = Append(utsk_list, utsk[t])
    /\ enabled' = TRUE
    /\ pc' = [pc EXCEPT ![t] = "unlock", ![utsk[t]] = "start"]
    /\ UNCHANGED <<task_order, current_task, task_lock, intr, blocked,
                   next_pid, utsk_lock, utsk, mailVars, halted>>

\* parent_struct, and for a fork the copied register state, are set only now:
\* until here the child is in the round list but not fit to run.
SpawnLink(t) ==
    /\ Running(t, "link")
    /\ utsk_list' = Append(utsk_list, utsk[t])
    /\ pc' = [pc EXCEPT ![t] = "unlock", ![utsk[t]] = "start"]
    /\ UNCHANGED <<schedVars, next_pid, utsk_lock, utsk, mailVars, halted>>

SpawnUnlock(t) ==
    /\ Running(t, "unlock")
    /\ utsk_lock' = NOBODY
    /\ Goto(t, "enable")
    /\ UNCHANGED <<schedVars, next_pid, utsk_list, utsk, mailVars, halted>>

\* Mutant: process creation without the final tasking_enable.
Bug_SpawnEnable(t) ==
    /\ Running(t, "enable")
    /\ utsk' = [utsk EXCEPT ![t] = NULL]
    /\ Goto(t, IF t = KERNEL THEN "idle" ELSE "user")
    /\ UNCHANGED <<schedVars, next_pid, utsk_list, utsk_lock, mailVars, halted>>

SpawnEnable(t) ==
    /\ Running(t, "enable")
    /\ enabled' = TRUE
    /\ utsk' = [utsk EXCEPT ![t] = NULL]
    /\ Goto(t, IF t = KERNEL THEN "idle" ELSE "user")
    /\ UNCHANGED <<task_order, current_task, task_lock, intr, blocked,
                   next_pid, utsk_list, utsk_lock, mailVars, halted>>

SpawnStep(t) ==
    \/ SpawnEnter(t)
    \/ NewTaskLock(t)
    \/ NewTaskPush(t)
    \/ SpawnLink(t)
    \/ SpawnUnlock(t)
    \/ SpawnEnable(t)

\* A new process runs for the first time: _user_spawn_second_half loads the
\* program and enters user mode; a forked child enters it through usr_ret.
Start(p) ==
    /\ Running(p, "start")
    /\ intr' = TRUE
    /\ Goto(p, "user")
    /\ UNCHANGED <<task_order, current_task, enabled, task_lock, blocked, procVars, mailVars, halted>>

-----------------------------------------------------------------------------
(* Message passing.                                                        *)

\* task_t.blocked of every task after user_block(id) and after user_awake(id).
user_block(id) == [blocked EXCEPT ![id] = TRUE]
user_awake(id) == [blocked EXCEPT ![id] = FALSE]

user_find(d) == \E i \in 1 .. Len(utsk_list) : utsk_list[i] = d

\* Mutants: no user_awake; everybody awake; the pointer of the message before.
Bug_Deposit_no_awake(d, m) ==
    /\ recvbuf' = [recvbuf EXCEPT ![d] = message_push(@, m)]
    /\ pushed' = [pushed EXCEPT ![d] = Append(@, m)]
    /\ overrun' = [overrun EXCEPT ![d] = @ \/ recvbuf[d].count = MSG_MAXCOUNT]
    /\ blocked' = blocked
    /\ UNCHANGED popped

Bug_Deposit_awake_all(d, m) ==
    /\ recvbuf' = [recvbuf EXCEPT ![d] = message_push(@, m)]
    /\ pushed' = [pushed EXCEPT ![d] = Append(@, m)]
    /\ overrun' = [overrun EXCEPT ![d] = @ \/ recvbuf[d].count = MSG_MAXCOUNT]
    /\ blocked' = [t \in Task |-> FALSE]
    /\ UNCHANGED popped

Bug_Deposit_stale(d, m) ==
    /\ recvbuf' = [recvbuf EXCEPT ![d] = message_push(@, IF m > 1 THEN m - 1 ELSE m)]
    /\ pushed' = [pushed EXCEPT ![d] = Append(@, m)]
    /\ overrun' = [overrun EXCEPT ![d] = @ \/ recvbuf[d].count = MSG_MAXCOUNT]
    /\ blocked' = user_awake(d)
    /\ UNCHANGED popped

\* message_push on the ring of d and, as message_async_send does next,
\* user_awake(d).
Deposit(d, m) ==
    /\ recvbuf' = [recvbuf EXCEPT ![d] = message_push(@, m)]
    /\ pushed' = [pushed EXCEPT ![d] = Append(@, m)]
    /\ overrun' = [overrun EXCEPT ![d] = @ \/ recvbuf[d].count = MSG_MAXCOUNT]
    /\ blocked' = user_awake(d)
    /\ UNCHANGED popped

\* syscall_msg_send to a pid nobody has: message_async_send returns -1, which
\* syscall_msg_send drops, returning 0.
MsgSendNobody(p, d) ==
    /\ Running(p, "user")
    /\ nsent < MAXMSGS
    /\ ~user_find(d)
    /\ nsent' = nsent + 1
    /\ nowhere' = nowhere \cup {nsent + 1}
    /\ UNCHANGED <<schedVars, procVars, ringVars, sendbuf, kmsg, pc, halted>>

\* syscall_msg_send when the ring of d has room.
MsgSend(p, d) ==
    /\ Running(p, "user")
    /\ nsent < MAXMSGS
    /\ user_find(d)
    /\ recvbuf[d].count < MSG_MAXCOUNT
    /\ nsent' = nsent + 1
    /\ Deposit(d, nsent + 1)
    /\ enabled' = TRUE
    /\ UNCHANGED <<task_order, current_task, task_lock, intr, procVars, sendbuf, kmsg, nowhere,
                   pc, halted>>

\* syscall_msg_send when the ring of d is full: the message is listed in the
\* sendbuf of d, the sender blocks itself and gives up the processor.
MsgSendBlock(p, d) ==
    /\ Running(p, "user")
    /\ nsent < MAXMSGS
    /\ user_find(d)
    /\ recvbuf[d].count >= MSG_MAXCOUNT
    /\ nsent' = nsent + 1
    /\ sendbuf' = [sendbuf EXCEPT ![d] = Append(@, nsent + 1)]
    /\ kmsg' = [kmsg EXCEPT ![p] = [msg |-> nsent + 1, dst |-> d]]
    /\ blocked' = user_block(p)
    /\ enabled' = TRUE
    /\ Goto(p, "sendwait")
    /\ task_switch(blocked')
    /\ UNCHANGED <<task_order, task_lock, procVars, ringVars, nowhere, halted>>

\* Mutant: a sender that tries again after it has pushed.
Bug_SendResume(p) ==
    /\ Running(p, "sendwait")
    /\ Deposit(kmsg[p].dst, kmsg[p].msg)
    /\ enabled' = TRUE
    /\ UNCHANGED <<task_order, current_task, task_lock, intr, procVars, sendbuf, kmsg,
                   nsent, nowhere, pc, halted>>

\* The sender runs again: it pushes without looking at the ring again.
SendResume(p) ==
    /\ Running(p, "sendwait")
    /\ Deposit(kmsg[p].dst, kmsg[p].msg)
    /\ kmsg' = [kmsg EXCEPT ![p] = [msg |-> NULL, dst |-> 0]]
    /\ enabled' = TRUE
    /\ intr' = TRUE
    /\ Goto(p, "user")
    /\ UNCHANGED <<task_order, current_task, task_lock, procVars, sendbuf, nsent, nowhere, halted>>

\* message_pop on the caller's own ring, and its return to user mode.  A
\* pointer that is no message is dereferenced: the read may fault, and the
\* kernel panics, or find mapped memory.  A poll returns before it reads
\* through the null pointer.
Take(p, polling) ==
    \E m \in Popped(recvbuf[p]) :
        /\ recvbuf' = [recvbuf EXCEPT ![p] = AfterPop(@)]
        /\ popped' = [popped EXCEPT ![p] = IF recvbuf[p].count = 0 THEN @ ELSE Append(@, m)]
        /\ halted' \in IF m \in Message \/ (polling /\ m = NULL) THEN {FALSE} ELSE BOOLEAN
        /\ intr' = ~halted'
        /\ enabled' = TRUE
        /\ Goto(p, "user")
        /\ UNCHANGED <<task_order, current_task, task_lock, blocked, procVars,
                       pushed, overrun, sendbuf, kmsg, nsent, nowhere>>

\* syscall_msg_recv: with an empty ring the receiver blocks itself and gives up
\* the processor; otherwise it pops at once.
MsgRecv(p) ==
    /\ Running(p, "user")
    /\ recvbuf[p].count # 0
    /\ Take(p, FALSE)

MsgRecvBlock(p) ==
    /\ Running(p, "user")
    /\ recvbuf[p].count = 0
    /\ blocked' = user_block(p)
    /\ enabled' = TRUE
    /\ Goto(p, "recvwait")
    /\ task_switch(blocked')
    /\ UNCHANGED <<task_order, task_lock, procVars, mailVars, halted>>

\* The receiver runs again and pops once, without looking at count again.
RecvResume(p) == Running(p, "recvwait") /\ Take(p, FALSE)

MsgPoll(p) == Running(p, "user") /\ Take(p, TRUE)

\* After a panic the processor stays in a hlt loop.
Halted == halted /\ UNCHANGED vars

-----------------------------------------------------------------------------
UserStep(p) ==
    \/ MsgRecv(p) \/ MsgRecvBlock(p) \/ MsgPoll(p)
    \/ \E d \in Pids : MsgSendNobody(p, d) \/ MsgSend(p, d) \/ MsgSendBlock(p, d)

Next ==
    \/ Timer
    \/ TimerIgnored
    \/ \E t \in Task : SpawnStep(t)
    \/ \E p \in Pids : Start(p) \/ SendResume(p) \/ RecvResume(p) \/ UserStep(p)
    \/ Halted

Spec == Init /\ [][Next]_vars

\* The timer keeps ticking and kernel code that can run does; what a program
\* in user mode asks for is up to the program, so its system calls have no
\* fairness.
KernelStep(t) ==
    \/ NewTaskLock(t) \/ NewTaskPush(t) \/ SpawnLink(t) \/ SpawnUnlock(t) \/ SpawnEnable(t)
    \/ t \in Pids /\ (Start(t) \/ SendResume(t) \/ RecvResume(t))

Fairness == WF_vars(Timer) /\ \A t \in Task : WF_vars(KernelStep(t))

LiveSpec == Spec /\ Fairness

-----------------------------------------------------------------------------
SpawnPcs == {"newtask", "alloc", "link", "unlock", "enable"}

\* Type invariant.
TypeOK ==
    /\ task_order \in Seq(Task)
    /\ current_task \in 1 .. Len(task_order)
    /\ enabled \in BOOLEAN /\ intr \in BOOLEAN /\ halted \in BOOLEAN
    /\ task_lock \in Task \cup {NOBODY}
    /\ utsk_lock \in Task \cup {NOBODY}
    /\ blocked \in [Task -> BOOLEAN]
    /\ next_pid \in 0 .. MAXPROCS
    /\ utsk_list \in Seq(Pids)
    /\ pc \in [Task -> SpawnPcs \cup {"none", "new", "start", "boot", "idle", "user",
                                      "sendwait", "recvwait"}]
    /\ utsk \in [Task -> Pids \cup {NULL}]
    /\ recvbuf \in [Pids -> RingType(Message)]
    /\ sendbuf \in [Pids -> Seq(Message)]
    /\ kmsg \in [Pids -> [msg : Message \cup {NULL}, dst : Pids]]
    /\ nsent \in 0 .. MAXMSGS
    /\ pushed \in [Pids -> Seq(Message)]
    /\ popped \in [Pids -> Seq(Message \cup {NULL, STRAY})]
    /\ overrun \in [Pids -> BOOLEAN]
    /\ nowhere \subseteq Message

\* No wakeup is lost between a receiver that goes to sleep and a sender that
\* deposits: a process asleep in message_async_recv has an empty ring.
NoLostWakeup ==
    \A p \in Pids : pc[p] = "recvwait" /\ blocked[p] => recvbuf[p].count = 0

\* message_async_recv tests count only once, before it sleeps.  Whenever it
\* runs again there is a message to pop: no wakeup is spurious.
RecvNeverEmpty ==
    \A p \in Pids : pc[p] = "recvwait" /\ ~blocked[p] => recvbuf[p].count > 0

\* A process is never run before user_spawn or user_fork has given it its
\* parent_struct and registers, and the running task is never a blocked one.
RunsOnlyReady == pc[Current] \notin {"none", "new"} /\ ~blocked[Current]

\* The holder of utsk_lock or task_lock is the running task: with interrupts
\* off in a system call, a LOCK of either by another task would spin forever.
LocksHeldByRunning ==
    /\ utsk_lock \in {NOBODY, Current}
    /\ task_lock \in {NOBODY, Current}

\* When the timer interrupt would switch tasks it finds task_lock free: the
\* LOCK in tasking_tick never spins inside the handler.
TickNeverSpins == intr /\ tasking_tick_switches => task_lock = NOBODY

\* While nothing overran a ring and nobody has popped more than MSG_MAXCOUNT
\* messages, receivers get the messages sent to them, in order, and the
\* kernel does not panic.
InOrderUntilWrap ==
    (\A p \in Pids : ~overrun[p] /\ Len(popped[p]) <= MSG_MAXCOUNT) =>
        /\ \A p \in Pids : \A i \in 1 .. Len(popped[p]) :
               i <= Len(pushed[p]) /\ popped[p][i] = pushed[p][i]
        /\ ~halted

\* Rings a message was pushed on, with its places; senders that sleep with it.
Pushes(m)  == UNION {{<<p, i>> : i \in {j \in 1 .. Len(pushed[p]) : pushed[p][j] = m}} : p \in Pids}
Senders(m) == {p \in Pids : pc[p] = "sendwait" /\ kmsg[p].msg = m}

\* Every message given to syscall_msg_send has one fate: it was pushed on one ring,
\* once; or one sender sleeps with it; or it was sent to a pid nobody has.  A sender
\* that slept and goes on pushes no second time, and none is left out.
OneFate ==
    \A m \in 1 .. nsent :
        Cardinality(Pushes(m)) + Cardinality(Senders(m)) + (IF m \in nowhere THEN 1 ELSE 0) = 1

\* A receiver asleep in message_async_recv that was sent a message is reached by
\* the round robin of task_switch and returns to its program.
WokenReceiverRuns ==
    \A p \in Pids : (pc[p] = "recvwait" /\ recvbuf[p].count > 0) ~> (pc[p] = "user" \/ halted)

\* A process that user_spawn or user_fork created gets to run.
CreatedProcessStarts == \A p \in Pids : pc[p] = "start" ~> (pc[p] = "user" \/ halted)

-----------------------------------------------------------------------------
(* What the comments on the system calls promise and the code does not     *)
(* keep.                                                                   *)

\* syscall_msg_send, "Sends a message to the requested pid", returns "Success":
\* a message whose send returned 0 was put on a ring.
AcceptedIsQueued == \A m \in 1 .. nsent : Senders(m) = {} => Pushes(m) # {}

\* A send that returned 0 reached "the requested pid": a message that
\* message_push queued and no message_pop has read yet is still in the ring.
UnreadSurvives ==
    \A p \in Pids : \A i \in Len(popped[p]) + 1 .. Len(pushed[p]) :
        \E s \in Slots : recvbuf[p].buffer[s] = pushed[p][i]

\* A send that waits in message_async_send for room goes on once there is room.
BlockedSenderResumes ==
    \A p \in Pids : (pc[p] = "sendwait" /\ recvbuf[kmsg[p].dst].count < MSG_MAXCOUNT)
                        ~> (pc[p] = "user" \/ halted)

=============================================================================
