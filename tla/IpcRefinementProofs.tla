------------------------ MODULE IpcRefinementProofs ------------------------
(***************************************************************************)
(* Safety of the scheduler and of message passing, and that the kernel     *)
(* implements Mailbox, and each of its rings MessageRing, for any number   *)
(* of processes, messages and ring slots.                                  *)
(***************************************************************************)
EXTENDS IpcRefinement, FiniteSetTheorems, TLAPS

-----------------------------------------------------------------------------
(* Facts about one ring.                                                   *)

\* What MessageRingProofs says of message_push and message_pop, which are the
\* same operators in both modules.
Rings == INSTANCE MessageRingProofs WITH MAXPUSH <- MAXMSGS, buf <- recvbuf

LEMMA SameRing ==
    /\ \A S : Rings!RingType(S) = RingType(S)
    /\ \A b, m : Rings!message_push(b, m) = message_push(b, m)
    /\ \A b : Rings!AfterPop(b) = AfterPop(b)
    /\ \A b : Rings!Popped(b) = Popped(b)
<1>1. \A S : Rings!RingType(S) = RingType(S)
  BY DEF Rings!RingType, RingType, Rings!Slots, Slots
<1>2. \A b, m : Rings!message_push(b, m) = message_push(b, m)
  BY DEF Rings!message_push, message_push
<1>3. \A b : Rings!AfterPop(b) = AfterPop(b)
  BY DEF Rings!AfterPop, AfterPop, Rings!NextHead, NextHead
<1>4. \A b : Rings!Popped(b) = Popped(b)
  BY DEF Rings!Popped, Popped, Rings!ReadSlot, ReadSlot, Rings!Slots, Slots
<1> QED BY <1>1, <1>2, <1>3, <1>4

\* The assumptions of MessageRingProofs hold of the kernel's rings.
LEMMA RingAssumptions ==
    /\ MSG_MAXCOUNT \in Nat \ {0} /\ INT16_MAX \in Nat /\ INT16_MAX > MSG_MAXCOUNT
    /\ NULL \notin Message /\ STRAY \notin Message /\ MAXMSGS \in Nat
  BY MaxCountAssumption, Int16Assumption, MaxMsgsAssumption, PointerAssumption DEF Message

LEMMA PushType ==
    ASSUME NEW S, NEW b \in RingType(S), NEW m \in S
    PROVE  message_push(b, m) \in RingType(S)
  BY Rings!PushType, SameRing, RingAssumptions

LEMMA PushCount ==
    ASSUME NEW S, NEW b \in RingType(S), NEW m
    PROVE  message_push(b, m).count > 0
  BY Rings!PushCount, SameRing, RingAssumptions

LEMMA PopType ==
    ASSUME NEW S, NEW b \in RingType(S)
    PROVE  AfterPop(b) \in RingType(S)
  BY Rings!PopType, SameRing, RingAssumptions

LEMMA PoppedType ==
    ASSUME NEW S, NEW b \in RingType(S)
    PROVE  Popped(b) \subseteq S \cup {NULL, STRAY}
  BY Rings!PoppedType, SameRing, RingAssumptions

LEMMA PushRing ==
    ASSUME NEW S, NEW b \in RingType(S), NEW m \in S,
           NEW pu \in Seq(S), NEW po \in Seq(S \cup {NULL, STRAY}),
           NEW ov \in BOOLEAN,
           Rings!RingInv(b, pu, po, ov)
    PROVE  Rings!RingInv(message_push(b, m), Append(pu, m), po, ov \/ b.count = MSG_MAXCOUNT)
  BY Rings!PushRing, SameRing, RingAssumptions

LEMMA PopRing ==
    ASSUME NEW S, NEW b \in RingType(S), b.count # 0,
           NEW m \in Popped(b),
           NEW pu \in Seq(S), NEW po \in Seq(S \cup {NULL, STRAY}),
           NEW ov \in BOOLEAN,
           Rings!RingInv(b, pu, po, ov)
    PROVE  Rings!RingInv(AfterPop(b), pu, Append(po, m), ov)
  BY Rings!PopRing, SameRing, RingAssumptions

LEMMA PopMessage ==
    ASSUME NEW S, NEW b \in RingType(S), b.count # 0,
           NEW m \in Popped(b),
           NEW pu \in Seq(S), NEW po \in Seq(S \cup {NULL, STRAY}),
           Rings!RingInv(b, pu, po, FALSE), Len(po) < MSG_MAXCOUNT
    PROVE  m \in S
  BY Rings!PopMessage, SameRing, RingAssumptions

-----------------------------------------------------------------------------
(* Safety.                                                                 *)

Creating == SpawnPcs \cup {"boot"}

\* Tasking is off exactly while the running task boots or creates a process,
\* and no other task is in the middle of that.
ModeInv ==
    /\ enabled <=> pc[Current] \notin Creating
    /\ \A t \in Task : t # Current => pc[t] \notin Creating

\* Both locks belong to the running task, at the steps that hold them.
LockInv ==
    /\ utsk_lock = IF pc[Current] \in {"newtask", "alloc", "link", "unlock"}
                   THEN Current ELSE NOBODY
    /\ task_lock = IF pc[Current] = "alloc" THEN Current ELSE NOBODY

\* The pid being created has no task until task_newtask has pushed one, and
\* the only task that is not ready is that one.
ChildInv ==
    /\ \A p \in Pids : p >= next_pid => pc[p] = "none"
    /\ pc[Current] \in SpawnPcs => utsk[Current] \in Pids /\ utsk[Current] < next_pid
    /\ pc[Current] \in {"newtask", "alloc"} => pc[utsk[Current]] = "none"
    /\ pc[Current] = "link" => pc[utsk[Current]] = "new"
    /\ \A t \in Task : pc[t] = "new" => pc[Current] = "link" /\ t = utsk[Current]
    /\ \A i \in 1 .. Len(task_order) : pc[task_order[i]] # "none"

\* Only a task that waits in a send or a receive is blocked, and not while it
\* runs; a receiver waits blocked exactly while its ring is empty; a waiting
\* sender has a message in hand.
WaitInv ==
    /\ ~blocked[Current]
    /\ \A t \in Task : blocked[t] => pc[t] \in {"sendwait", "recvwait"}
    /\ \A p \in Pids : pc[p] = "recvwait" => (blocked[p] <=> recvbuf[p].count = 0)
    /\ \A p \in Pids : pc[p] = "sendwait" => kmsg[p].msg \in Message

\* Every ring keeps its messages, and the kernel has panicked only where one
\* was overrun or read past its end.
MailInv ==
    /\ \A p \in Pids : Rings!RingInv(recvbuf[p], pushed[p], popped[p], overrun[p])
    /\ halted => \E p \in Pids : overrun[p] \/ Len(popped[p]) > MSG_MAXCOUNT

IInv == TypeOK /\ ModeInv /\ LockInv /\ ChildInv /\ WaitInv /\ MailInv

-----------------------------------------------------------------------------
\* Messages are allocated in order.
LEMMA MessageFact == TypeOK /\ nsent < MAXMSGS => nsent + 1 \in Message /\ nsent + 1 \in 0 .. MAXMSGS
BY MaxMsgsAssumption DEF TypeOK, Message

LEMMA SwitchFact ==
    ASSUME NEW isBlocked, task_switch(isBlocked)
    PROVE  /\ current_task' \in 1 .. Len(task_order)
           /\ ~isBlocked[task_order[current_task']]
           /\ intr' \in BOOLEAN
BY DEF task_switch

LEMMA CurrentFact == TypeOK => Current \in Task
BY DEF TypeOK, Current

LEMMA PidFact == /\ Pids \subseteq Task /\ KERNEL \in Task /\ KERNEL \notin Pids
                 /\ NOBODY \notin Task
BY MaxProcsAssumption DEF Task, Pids, KERNEL, NOBODY

\* What a deposit does to the types.
LEMMA DepositType ==
    ASSUME TypeOK, NEW d \in Pids, NEW m \in Message, Deposit(d, m)
    PROVE  /\ recvbuf' \in [Pids -> RingType(Message)]
           /\ pushed' \in [Pids -> Seq(Message)]
           /\ popped' \in [Pids -> Seq(Message \cup {NULL, STRAY})]
           /\ overrun' \in [Pids -> BOOLEAN]
           /\ blocked' \in [Task -> BOOLEAN]
<1>1. message_push(recvbuf[d], m) \in RingType(Message)
  BY PushType DEF TypeOK
<1>2. Append(pushed[d], m) \in Seq(Message)
  BY DEF TypeOK
<1> QED BY <1>1, <1>2 DEF Deposit, user_awake, TypeOK

LEMMA TypeNext ==
    ASSUME IInv, [Next]_vars
    PROVE  TypeOK'
<1> USE PidFact
<1>0. TypeOK /\ Current \in Task
  BY CurrentFact DEF IInv
<1>1. CASE Timer
  BY <1>0, <1>1, SwitchFact DEF Timer, TypeOK, procVars, mailVars, ringVars
<1>2. CASE TimerIgnored \/ Halted \/ UNCHANGED vars
  BY <1>0, <1>2 DEF TimerIgnored, Halted, TypeOK, vars, schedVars, procVars, mailVars, ringVars
<1>3. ASSUME NEW t \in Task, SpawnEnter(t) PROVE TypeOK'
  <2>1. next_pid \in Pids /\ next_pid + 1 \in 0 .. MAXPROCS
    BY <1>0, <1>3, MaxProcsAssumption DEF SpawnEnter, Creator, TypeOK, Pids
  <2> QED BY <2>1, <1>0, <1>3 DEF SpawnEnter, Creator, Goto, TypeOK, SpawnPcs, mailVars, ringVars
<1>4. ASSUME NEW t \in Task, NewTaskLock(t) PROVE TypeOK'
  BY <1>0, <1>4 DEF NewTaskLock, Goto, TypeOK, SpawnPcs, procVars, mailVars, ringVars
<1>5. ASSUME NEW t \in Task, NewTaskPush(t) PROVE TypeOK'
  <2>1. utsk[t] \in Pids
    BY <1>5 DEF IInv, ChildInv, NewTaskPush, Running, SpawnPcs
  <2>2. task_order' \in Seq(Task) /\ current_task' \in 1 .. Len(task_order')
    BY <2>1, <1>0, <1>5 DEF NewTaskPush, TypeOK
  <2> QED BY <2>1, <2>2, <1>0, <1>5
          DEF NewTaskPush, TypeOK, SpawnPcs, procVars, mailVars, ringVars
<1>6. ASSUME NEW t \in Task, SpawnLink(t) PROVE TypeOK'
  <2>1. utsk[t] \in Pids
    BY <1>6 DEF IInv, ChildInv, SpawnLink, Running, SpawnPcs
  <2>2. utsk_list' \in Seq(Pids)
    BY <2>1, <1>0, <1>6 DEF SpawnLink, TypeOK
  <2> QED BY <2>1, <2>2, <1>0, <1>6
          DEF SpawnLink, TypeOK, SpawnPcs, schedVars, mailVars, ringVars
<1>7. ASSUME NEW t \in Task, SpawnUnlock(t) PROVE TypeOK'
  BY <1>0, <1>7 DEF SpawnUnlock, Goto, TypeOK, SpawnPcs, schedVars, mailVars, ringVars
<1>8. ASSUME NEW t \in Task, SpawnEnable(t) PROVE TypeOK'
  BY <1>0, <1>8 DEF SpawnEnable, Goto, TypeOK, SpawnPcs, mailVars, ringVars
<1>9. ASSUME NEW p \in Pids, Start(p) PROVE TypeOK'
  BY <1>0, <1>9 DEF Start, Goto, TypeOK, SpawnPcs, procVars, mailVars, ringVars
<1>10. ASSUME NEW p \in Pids, SendResume(p) PROVE TypeOK'
  <2>1. kmsg[p].msg \in Message /\ kmsg[p].dst \in Pids
    BY <1>0, <1>10 DEF IInv, WaitInv, SendResume, Running, TypeOK
  <2>2. kmsg' \in [Pids -> [msg : Message \cup {NULL}, dst : Pids]]
    <3>1. [msg |-> NULL, dst |-> 0] \in [msg : Message \cup {NULL}, dst : Pids]
      BY MaxProcsAssumption DEF Pids
    <3> QED BY <3>1, <1>0, <1>10 DEF SendResume, TypeOK
  <2> QED BY <2>1, <2>2, <1>0, <1>10, DepositType
          DEF SendResume, Goto, TypeOK, SpawnPcs, procVars
<1>11. ASSUME NEW p \in Pids, NEW polling \in BOOLEAN, Take(p, polling) PROVE TypeOK'
  <2>1. PICK m \in Popped(recvbuf[p]) :
            /\ recvbuf' = [recvbuf EXCEPT ![p] = AfterPop(@)]
            /\ popped' = [popped EXCEPT ![p] = IF recvbuf[p].count = 0 THEN @ ELSE Append(@, m)]
            /\ halted' \in BOOLEAN
    BY <1>11 DEF Take
  <2>2. m \in Message \cup {NULL, STRAY}
    BY <1>0, PoppedType DEF TypeOK
  <2>3. popped' \in [Pids -> Seq(Message \cup {NULL, STRAY})]
    BY <2>1, <2>2, <1>0 DEF TypeOK
  <2>4. recvbuf' \in [Pids -> RingType(Message)]
    <3>1. AfterPop(recvbuf[p]) \in RingType(Message)
      BY <1>0, PopType DEF TypeOK
    <3> QED BY <3>1, <2>1, <1>0 DEF TypeOK
  <2>5. enabled' \in BOOLEAN /\ intr' \in BOOLEAN /\ halted' \in BOOLEAN
    BY <1>11, <2>1 DEF Take
  <2>6. UNCHANGED <<task_order, current_task, task_lock, blocked, procVars,
                    pushed, overrun, sendbuf, kmsg, nsent, nowhere>>
    BY <1>11 DEF Take
  <2>7. pc' = [pc EXCEPT ![p] = "user"]
    BY <1>11 DEF Take, Goto
  <2> QED BY <2>3, <2>4, <2>5, <2>6, <2>7, <1>0 DEF TypeOK, procVars
<1>12. ASSUME NEW p \in Pids, MsgRecvBlock(p) PROVE TypeOK'
  BY <1>0, <1>12, SwitchFact DEF MsgRecvBlock, user_block, Goto, TypeOK, procVars, mailVars, ringVars
<1>13. ASSUME NEW p \in Pids, NEW d \in Pids, MsgSendNobody(p, d) PROVE TypeOK'
  BY <1>0, <1>13, MessageFact DEF MsgSendNobody, TypeOK, schedVars, procVars, ringVars
<1>14. ASSUME NEW p \in Pids, NEW d \in Pids, MsgSend(p, d) PROVE TypeOK'
  BY <1>0, <1>14, MessageFact, DepositType DEF MsgSend, TypeOK, procVars
<1>15. ASSUME NEW p \in Pids, NEW d \in Pids, MsgSendBlock(p, d) PROVE TypeOK'
  <2>1. nsent + 1 \in Message /\ nsent' \in 0 .. MAXMSGS
    BY <1>0, <1>15, MessageFact DEF MsgSendBlock
  <2>2. sendbuf' \in [Pids -> Seq(Message)]
    BY <2>1, <1>0, <1>15 DEF MsgSendBlock, user_block, TypeOK
  <2>3. kmsg' \in [Pids -> [msg : Message \cup {NULL}, dst : Pids]]
    BY <2>1, <1>0, <1>15 DEF MsgSendBlock, user_block, TypeOK
  <2> QED BY <2>1, <2>2, <2>3, <1>0, <1>15, SwitchFact
          DEF MsgSendBlock, user_block, Goto, TypeOK, procVars, ringVars
<1> QED
  BY <1>1, <1>2, <1>3, <1>4, <1>5, <1>6, <1>7, <1>8, <1>9, <1>10, <1>11, <1>12, <1>13, <1>14, <1>15
  DEF Next, SpawnStep, UserStep, RecvResume, MsgRecv, MsgPoll

-----------------------------------------------------------------------------
(* The scheduler.                                                          *)

SchedInv == ModeInv /\ LockInv /\ ChildInv

\* A step that leaves the scheduler's and the creator's variables alone and
\* moves the running process between places where it creates nothing, or
\* switches to another task when tasking is on.
LEMMA SchedQuiet ==
    ASSUME TypeOK, TypeOK', SchedInv, enabled, enabled',
           UNCHANGED <<task_order, task_lock, utsk_lock, utsk, next_pid>>,
           current_task' \in 1 .. Len(task_order),
           NEW t \in Task,
           NEW w \in {"start", "user", "idle", "sendwait", "recvwait"},
           pc' = [pc EXCEPT ![t] = w],
           pc[t] # "none"
    PROVE  SchedInv'
<1> USE PidFact
<1>1. Current \in Task /\ Current' \in Task
  <2>1. Current \in Task
    BY CurrentFact
  <2>2. Current' = task_order[current_task']
    BY DEF Current
  <2> QED BY <2>1, <2>2 DEF TypeOK
<1>2. \A x \in Task : pc[x] \notin Creating /\ pc[x] # "new"
  BY <1>1 DEF SchedInv, ModeInv, ChildInv, Creating, SpawnPcs
<1>3. \A x \in Task : pc'[x] \notin Creating /\ pc'[x] # "new"
  BY <1>2 DEF TypeOK, Creating, SpawnPcs
<1>4. \A x \in Task : pc[x] = "none" <=> pc'[x] = "none"
  BY DEF TypeOK
<1>5. ModeInv'
  BY <1>1, <1>3 DEF ModeInv
<1>6. LockInv'
  BY <1>1, <1>2, <1>3 DEF LockInv, Creating, SpawnPcs, SchedInv
<1>7. ChildInv'
  <2>1. \A p \in Pids : p >= next_pid' => pc'[p] = "none"
    BY <1>4 DEF SchedInv, ChildInv
  <2>2. \A i \in 1 .. Len(task_order') : pc'[task_order'[i]] # "none"
    BY <1>4 DEF SchedInv, ChildInv, TypeOK
  <2> QED BY <2>1, <2>2, <1>1, <1>3 DEF ChildInv, Creating, SpawnPcs
<1> QED BY <1>5, <1>6, <1>7 DEF SchedInv

\* A step that adds no task to the list and leaves no task without a place.
LEMMA ListQuiet ==
    ASSUME TypeOK, SchedInv, task_order' = task_order,
           \A x \in Task : pc[x] # "none" => pc'[x] # "none"
    PROVE  \A i \in 1 .. Len(task_order') : pc'[task_order'[i]] # "none"
<1>1. \A i \in 1 .. Len(task_order) : task_order[i] \in Task /\ pc[task_order[i]] # "none"
  BY DEF SchedInv, ChildInv, TypeOK
<1> QED BY <1>1

LEMMA SchedNext ==
    ASSUME IInv, [Next]_vars, TypeOK'
    PROVE  SchedInv'
<1> USE PidFact
<1>0. TypeOK /\ SchedInv /\ Current \in Task
  BY CurrentFact DEF IInv, SchedInv
<1>1. CASE Timer
  <2>1. current_task' \in 1 .. Len(task_order) /\ enabled
    BY <1>1, SwitchFact DEF Timer, tasking_tick_switches
  <2>2. UNCHANGED <<task_order, task_lock, utsk_lock, utsk, next_pid, pc, enabled>>
    BY <1>1 DEF Timer, procVars
  <2>3. pc[Current] \in {"start", "user", "idle", "sendwait", "recvwait"}
    BY <2>1, <1>0 DEF SchedInv, ModeInv, ChildInv, Creating, SpawnPcs, TypeOK, Current
  <2>4. pc' = [pc EXCEPT ![Current] = pc[Current]]
    BY <2>2, <1>0 DEF TypeOK
  <2> QED BY <2>1, <2>2, <2>3, <2>4, <1>0, SchedQuiet
<1>2. CASE TimerIgnored \/ Halted \/ UNCHANGED vars
  BY <1>0, <1>2 DEF TimerIgnored, Halted, vars, schedVars, procVars,
                    SchedInv, ModeInv, LockInv, ChildInv, Current
<1>3. ASSUME NEW t \in Task, SpawnEnter(t) PROVE SchedInv'
  <2>1. /\ t = Current /\ Current' = Current /\ pc[t] \in {"boot", "user"} /\ pc'[t] = "newtask"
        /\ \A x \in Task : x # t => pc'[x] = pc[x]
        /\ utsk'[t] = next_pid /\ next_pid' = next_pid + 1 /\ enabled' = FALSE
        /\ utsk_lock' = t /\ UNCHANGED <<task_lock, task_order>>
    BY <1>0, <1>3 DEF SpawnEnter, Creator, Running, Goto, TypeOK, Current
  <2>2. next_pid \in Pids /\ pc[next_pid] = "none" /\ next_pid # t
    <3>1. next_pid \in Pids
      BY <1>0, <1>3, MaxProcsAssumption DEF SpawnEnter, Creator, TypeOK, Pids
    <3>2. next_pid >= next_pid
      BY <1>0 DEF TypeOK
    <3>3. pc[next_pid] = "none"
      BY <3>1, <3>2, <1>0 DEF SchedInv, ChildInv
    <3> QED BY <3>1, <3>3, <2>1
  <2>3. ModeInv'
    BY <2>1, <1>0 DEF SchedInv, ModeInv, Creating, SpawnPcs
  <2>4. LockInv'
    BY <2>1, <1>0 DEF SchedInv, LockInv
  <2>5. ChildInv'
    <3>1. \A i \in 1 .. Len(task_order') : pc'[task_order'[i]] # "none"
      BY <2>1, <1>0, ListQuiet
    <3>2. next_pid \in Int /\ \A p \in Pids : p \in Int
      BY <1>0 DEF TypeOK, Pids
    <3>3. \A p \in Pids : p >= next_pid => pc[p] = "none" /\ p # t
      BY <2>1, <1>0 DEF SchedInv, ChildInv
    <3>4. \A p \in Pids : p >= next_pid' => pc'[p] = "none"
      BY <2>1, <3>2, <3>3
    <3>5. utsk'[t] \in Pids /\ utsk'[t] < next_pid' /\ pc'[utsk'[t]] = "none"
      BY <2>1, <2>2, <3>2
    <3>6. \A x \in Task : pc'[x] # "new"
      BY <2>1, <1>0 DEF SchedInv, ChildInv
    <3> QED BY <3>1, <3>4, <3>5, <3>6, <2>1 DEF ChildInv
  <2> QED BY <2>3, <2>4, <2>5 DEF SchedInv
<1>4. ASSUME NEW t \in Task, NewTaskLock(t) PROVE SchedInv'
  <2>1. /\ t = Current /\ Current' = Current /\ pc[t] = "newtask" /\ pc'[t] = "alloc"
        /\ \A x \in Task : x # t => pc'[x] = pc[x]
        /\ task_lock' = t /\ UNCHANGED <<utsk, next_pid, enabled, utsk_lock, task_order>>
    BY <1>0, <1>4 DEF NewTaskLock, Running, Goto, TypeOK, Current, procVars
  <2>2. utsk[t] \in Pids /\ utsk[t] # t
    BY <2>1, <1>0 DEF SchedInv, ChildInv, SpawnPcs
  <2>3. ModeInv'
    BY <2>1, <1>0 DEF SchedInv, ModeInv, Creating, SpawnPcs
  <2>4. LockInv'
    BY <2>1, <1>0 DEF SchedInv, LockInv
  <2>5. ChildInv'
    BY <2>1, <2>2, <1>0, SMTT(30) DEF SchedInv, ChildInv, SpawnPcs, TypeOK
  <2> QED BY <2>3, <2>4, <2>5 DEF SchedInv
<1>5. ASSUME NEW t \in Task, NewTaskPush(t) PROVE SchedInv'
  <2>1. t = Current /\ pc[t] = "alloc"
    BY <1>5 DEF NewTaskPush, Running
  <2>2. utsk[t] \in Pids /\ utsk[t] < next_pid /\ utsk[t] # t /\ pc[utsk[t]] = "none"
    BY <2>1, <1>0 DEF SchedInv, ChildInv, SpawnPcs
  <2>3. /\ pc'[t] = "link" /\ pc'[utsk[t]] = "new"
        /\ \A x \in Task : x # t /\ x # utsk[t] => pc'[x] = pc[x]
        /\ task_lock' = NOBODY /\ UNCHANGED <<utsk, next_pid, enabled, utsk_lock>>
    BY <2>2, <1>0, <1>5 DEF NewTaskPush, TypeOK, procVars
  <2>4. /\ Len(task_order') = Len(task_order) + 1 /\ Len(task_order) \in Nat
        /\ \A i \in 1 .. Len(task_order) : task_order'[i] = task_order[i]
        /\ task_order'[Len(task_order) + 1] = utsk[t]
    BY <2>2, <1>0, <1>5 DEF NewTaskPush, TypeOK
  <2>5. Current' = Current
    BY <2>4, <1>0, <1>5 DEF NewTaskPush, Current, TypeOK
  <2>6. ModeInv'
    BY <2>1, <2>2, <2>3, <2>5, <1>0 DEF SchedInv, ModeInv, Creating, SpawnPcs
  <2>7. LockInv'
    BY <2>1, <2>3, <2>5, <1>0 DEF SchedInv, LockInv
  <2>8. \A i \in 1 .. Len(task_order') : pc'[task_order'[i]] # "none"
    <3>1. \A i \in 1 .. Len(task_order) : task_order[i] \in Task /\ pc[task_order[i]] # "none"
      BY <1>0 DEF SchedInv, ChildInv, TypeOK
    <3>2. \A i \in 1 .. Len(task_order) : pc'[task_order[i]] # "none"
      BY <3>1, <2>3
    <3> QED BY <3>2, <2>3, <2>4
  <2>9. ChildInv'
    <3>1. \A p \in Pids : p >= next_pid' => pc'[p] = "none"
      <4>1. next_pid \in Int /\ \A p \in Pids : p \in Int
        BY <1>0 DEF TypeOK, Pids
      <4>2. \A p \in Pids : p >= next_pid => pc[p] = "none" /\ p # t /\ p # utsk[t]
        BY <2>1, <2>2, <4>1, <1>0 DEF SchedInv, ChildInv
      <4> QED BY <2>3, <4>2
    <3>2. \A x \in Task : pc'[x] = "new" => x = utsk[t]
      BY <2>1, <2>3, <1>0 DEF SchedInv, ChildInv
    <3> QED BY <3>1, <3>2, <2>1, <2>2, <2>3, <2>5, <2>8 DEF ChildInv
  <2> QED BY <2>6, <2>7, <2>9 DEF SchedInv
<1>6. ASSUME NEW t \in Task, SpawnLink(t) PROVE SchedInv'
  <2>1. t = Current /\ pc[t] = "link" /\ Current' = Current
    BY <1>6 DEF SpawnLink, Running, schedVars, Current
  <2>2. utsk[t] \in Pids /\ utsk[t] < next_pid /\ utsk[t] # t /\ pc[utsk[t]] = "new"
    BY <2>1, <1>0 DEF SchedInv, ChildInv, SpawnPcs
  <2>3. /\ pc'[t] = "unlock" /\ pc'[utsk[t]] = "start"
        /\ \A x \in Task : x # t /\ x # utsk[t] => pc'[x] = pc[x]
        /\ UNCHANGED <<utsk, next_pid, enabled, utsk_lock, task_lock, task_order>>
    BY <2>2, <1>0, <1>6 DEF SpawnLink, TypeOK, schedVars
  <2>4. ModeInv'
    BY <2>1, <2>2, <2>3, <1>0 DEF SchedInv, ModeInv, Creating, SpawnPcs
  <2>5. LockInv'
    BY <2>1, <2>3, <1>0 DEF SchedInv, LockInv
  <2>6. ChildInv'
    <3>1. \A i \in 1 .. Len(task_order') : pc'[task_order'[i]] # "none"
      BY <2>1, <2>2, <2>3, <1>0, ListQuiet
    <3>2. \A p \in Pids : p >= next_pid' => pc'[p] = "none"
      BY <2>1, <2>2, <2>3, <1>0 DEF SchedInv, ChildInv, Pids, TypeOK
    <3> QED BY <3>1, <3>2, <2>1, <2>2, <2>3, <1>0 DEF SchedInv, ChildInv, SpawnPcs
  <2> QED BY <2>4, <2>5, <2>6 DEF SchedInv
<1>7. ASSUME NEW t \in Task, SpawnUnlock(t) PROVE SchedInv'
  <2>1. /\ t = Current /\ Current' = Current /\ pc[t] = "unlock" /\ pc'[t] = "enable"
        /\ \A x \in Task : x # t => pc'[x] = pc[x]
        /\ utsk_lock' = NOBODY
        /\ UNCHANGED <<utsk, next_pid, enabled, task_lock, task_order>>
    BY <1>0, <1>7 DEF SpawnUnlock, Running, Goto, TypeOK, Current, schedVars
  <2>2. ModeInv'
    BY <2>1, <1>0 DEF SchedInv, ModeInv, Creating, SpawnPcs
  <2>3. LockInv'
    BY <2>1, <1>0 DEF SchedInv, LockInv
  <2>4. ChildInv'
    <3>1. \A i \in 1 .. Len(task_order') : pc'[task_order'[i]] # "none"
      BY <2>1, <1>0, ListQuiet
    <3>2. \A p \in Pids : p >= next_pid' => pc'[p] = "none"
      BY <2>1, <1>0 DEF SchedInv, ChildInv
    <3> QED BY <3>1, <3>2, <2>1, <1>0 DEF SchedInv, ChildInv, SpawnPcs
  <2> QED BY <2>2, <2>3, <2>4 DEF SchedInv
<1>8. ASSUME NEW t \in Task, SpawnEnable(t) PROVE SchedInv'
  <2>1. /\ t = Current /\ Current' = Current /\ pc[t] = "enable"
        /\ pc'[t] \in {"idle", "user"}
        /\ \A x \in Task : x # t => pc'[x] = pc[x]
        /\ enabled' = TRUE
        /\ UNCHANGED <<next_pid, utsk_lock, task_lock, task_order>>
    BY <1>0, <1>8 DEF SpawnEnable, Running, Goto, TypeOK, Current
  <2>2. ModeInv'
    BY <2>1, <1>0 DEF SchedInv, ModeInv, Creating, SpawnPcs
  <2>3. LockInv'
    BY <2>1, <1>0 DEF SchedInv, LockInv
  <2>4. ChildInv'
    <3>1. \A i \in 1 .. Len(task_order') : pc'[task_order'[i]] # "none"
      BY <2>1, <1>0, ListQuiet
    <3>2. \A p \in Pids : p >= next_pid' => pc'[p] = "none"
      BY <2>1, <1>0 DEF SchedInv, ChildInv
    <3> QED BY <3>1, <3>2, <2>1, <1>0 DEF SchedInv, ChildInv, SpawnPcs
  <2> QED BY <2>2, <2>3, <2>4 DEF SchedInv
<1>9. ASSUME NEW p \in Pids, Running(p, "user") \/ Running(p, "start")
                              \/ Running(p, "sendwait") \/ Running(p, "recvwait")
      PROVE  p \in Task /\ enabled /\ pc[p] # "none" /\ current_task \in 1 .. Len(task_order)
  BY <1>0, <1>9 DEF Running, SchedInv, ModeInv, Creating, SpawnPcs, TypeOK
<1>10. ASSUME NEW p \in Pids, Start(p) PROVE SchedInv'
  BY <1>0, <1>9, <1>10, SchedQuiet DEF Start, Goto, procVars
<1>11. ASSUME NEW p \in Pids, SendResume(p) PROVE SchedInv'
  BY <1>0, <1>9, <1>11, SchedQuiet DEF SendResume, Goto, procVars
<1>12. ASSUME NEW p \in Pids, RecvResume(p) \/ MsgRecv(p) \/ MsgPoll(p) PROVE SchedInv'
  BY <1>0, <1>9, <1>12, SchedQuiet DEF RecvResume, MsgRecv, MsgPoll, Take, Goto, procVars
<1>13. ASSUME NEW p \in Pids, MsgRecvBlock(p) PROVE SchedInv'
  BY <1>0, <1>9, <1>13, SwitchFact, SchedQuiet DEF MsgRecvBlock, user_block, Goto, procVars
<1>14. ASSUME NEW p \in Pids, NEW d \in Pids, MsgSendNobody(p, d) \/ MsgSend(p, d)
       PROVE  SchedInv'
  <2>1. Running(p, "user") /\ pc' = pc
    BY <1>14 DEF MsgSendNobody, MsgSend
  <2>2. pc' = [pc EXCEPT ![p] = "user"]
    BY <2>1, <1>0 DEF Running, TypeOK
  <2>3. enabled /\ enabled'
    BY <2>1, <1>9, <1>14 DEF MsgSendNobody, MsgSend, schedVars
  <2> QED BY <2>1, <2>2, <2>3, <1>0, <1>9, <1>14, SchedQuiet
          DEF MsgSendNobody, MsgSend, procVars, schedVars
<1>15. ASSUME NEW p \in Pids, NEW d \in Pids, MsgSendBlock(p, d) PROVE SchedInv'
  BY <1>0, <1>9, <1>15, SwitchFact, SchedQuiet DEF MsgSendBlock, user_block, Goto, procVars
<1> QED
  BY <1>1, <1>2, <1>3, <1>4, <1>5, <1>6, <1>7, <1>8, <1>10, <1>11, <1>12, <1>13, <1>14, <1>15
  DEF Next, SpawnStep, UserStep

-----------------------------------------------------------------------------
(* Waiting and waking.                                                     *)

\* A step that blocks and wakes nobody, touches no ring and takes no task into
\* a wait or out of one keeps WaitInv.
LEMMA WaitQuiet ==
    ASSUME TypeOK, WaitInv, UNCHANGED <<blocked, recvbuf, kmsg>>,
           \A x \in Task : pc'[x] = pc[x]
                            \/ /\ ~blocked[x]
                               /\ pc'[x] \notin {"sendwait", "recvwait"},
           ~blocked[Current']
    PROVE  WaitInv'
BY PidFact DEF WaitInv

LEMMA WaitNext ==
    ASSUME IInv, [Next]_vars, TypeOK'
    PROVE  WaitInv'
<1> USE PidFact
<1>0. TypeOK /\ SchedInv /\ WaitInv /\ Current \in Task
  BY CurrentFact DEF IInv, SchedInv
<1>1. CASE Timer
  <2>1. UNCHANGED <<task_order, blocked, recvbuf, kmsg, pc>>
    BY <1>1 DEF Timer, mailVars, ringVars
  <2>2. ~blocked[Current']
    BY <1>1, <2>1, SwitchFact DEF Timer, Current
  <2> QED BY <1>0, <2>1, <2>2, WaitQuiet
<1>2. CASE TimerIgnored \/ Halted \/ UNCHANGED vars
  BY <1>0, <1>2, WaitQuiet DEF WaitInv, TimerIgnored, Halted, vars, schedVars, mailVars,
                               ringVars, Current
<1>3. ASSUME NEW t \in Task, SpawnStep(t) PROVE WaitInv'
  <2>1. t = Current /\ ~blocked[t]
    BY <1>0, <1>3 DEF SpawnStep, SpawnEnter, Creator, NewTaskLock, NewTaskPush, SpawnLink, SpawnUnlock,
                      SpawnEnable, Running, WaitInv
  <2>2. UNCHANGED <<blocked, recvbuf, kmsg>>
    BY <1>3 DEF SpawnStep, SpawnEnter, Creator, NewTaskLock, NewTaskPush, SpawnLink, SpawnUnlock,
                SpawnEnable, schedVars, mailVars, ringVars
  <2>3. Current' = Current
    <3>1. CASE NewTaskPush(t)
      <4>1. utsk[t] \in Task
        BY <3>1, <1>0 DEF SchedInv, ChildInv, NewTaskPush, Running, SpawnPcs
      <4> QED BY <3>1, <4>1, <1>0 DEF NewTaskPush, Current, TypeOK
    <3>2. CASE ~NewTaskPush(t)
      BY <3>2, <1>3 DEF SpawnStep, SpawnEnter, Creator, NewTaskLock, SpawnLink, SpawnUnlock,
                        SpawnEnable, schedVars, Current
    <3> QED BY <3>1, <3>2
  <2>4. \A x \in Task : pc'[x] = pc[x] \/ /\ ~blocked[x]
                                          /\ pc'[x] \notin {"sendwait", "recvwait"}
    <3>1. CASE NewTaskPush(t) \/ SpawnLink(t)
      <4>1. utsk[t] \in Task /\ pc[utsk[t]] \in {"none", "new"}
        BY <3>1, <1>0 DEF SchedInv, ChildInv, NewTaskPush, SpawnLink, Running, SpawnPcs
      <4>2. ~blocked[utsk[t]]
        BY <4>1, <1>0 DEF WaitInv
      <4>3. PICK u, w \in {"link", "new", "unlock", "start"} :
                pc' = [pc EXCEPT ![t] = u, ![utsk[t]] = w]
        BY <3>1 DEF NewTaskPush, SpawnLink
      <4>4. \A x \in Task : IF x = utsk[t] THEN pc'[x] = w
                            ELSE IF x = t THEN pc'[x] = u ELSE pc'[x] = pc[x]
        BY <4>1, <4>3, <1>0 DEF TypeOK
      <4> QED BY <4>2, <4>4, <2>1
    <3>2. CASE ~(NewTaskPush(t) \/ SpawnLink(t))
      BY <3>2, <1>3, <2>1, <1>0 DEF SpawnStep, SpawnEnter, Creator, NewTaskLock, SpawnUnlock,
                                    SpawnEnable, Goto, TypeOK
    <3> QED BY <3>1, <3>2
  <2> QED BY <1>0, <2>1, <2>2, <2>3, <2>4, WaitQuiet
<1>4. ASSUME NEW p \in Pids, Start(p) PROVE WaitInv'
  <2>1. p = Current /\ Current' = Current /\ UNCHANGED <<blocked, recvbuf, kmsg>>
        /\ pc' = [pc EXCEPT ![p] = "user"]
    BY <1>4 DEF Start, Running, Goto, Current, mailVars, ringVars
  <2> QED BY <2>1, <1>0, WaitQuiet, ZenonT(40) DEF WaitInv, TypeOK
<1>5. ASSUME NEW p \in Pids, NEW d \in Pids, NEW m \in Message, Deposit(d, m),
             p = Current, Current' = Current,
             \/ pc' = pc
             \/ pc' = [pc EXCEPT ![p] = "user"],
             \A q \in Pids : kmsg'[q] = kmsg[q] \/ pc'[q] = "user"
      PROVE  WaitInv'
  <2>1. /\ \A q \in Pids : q # d => recvbuf'[q] = recvbuf[q]
        /\ recvbuf'[d].count > 0
    <3>1. message_push(recvbuf[d], m).count > 0
      BY <1>0, PushCount DEF TypeOK
    <3> QED BY <3>1, <1>0, <1>5 DEF Deposit, user_awake, TypeOK
  <2>2. /\ \A x \in Task : x # d => blocked'[x] = blocked[x]
        /\ blocked'[d] = FALSE
    BY <1>0, <1>5 DEF Deposit, user_awake, TypeOK
  <2>3. \A x \in Task : pc'[x] = pc[x] \/ (x = p /\ pc'[x] = "user")
    BY <1>0, <1>5 DEF TypeOK
  <2>4. ~blocked[p] /\ ~blocked'[p]
    BY <2>2, <1>0, <1>5 DEF WaitInv
  <2>5. \A x \in Task : blocked'[x] => pc'[x] \in {"sendwait", "recvwait"}
    BY <2>2, <2>3, <2>4, <1>0 DEF WaitInv
  <2>6. \A q \in Pids : pc'[q] = "recvwait" => (blocked'[q] <=> recvbuf'[q].count = 0)
    <3> SUFFICES ASSUME NEW q \in Pids, pc'[q] = "recvwait"
                 PROVE  blocked'[q] <=> recvbuf'[q].count = 0
      OBVIOUS
    <3>1. pc[q] = "recvwait"
      BY <2>3
    <3>2. CASE q = d
      BY <3>2, <2>1, <2>2
    <3>3. CASE q # d
      BY <3>1, <3>3, <2>1, <2>2, <1>0 DEF WaitInv
    <3> QED BY <3>2, <3>3
  <2>7. \A q \in Pids : pc'[q] = "sendwait" => kmsg'[q].msg \in Message
    BY <2>3, <1>0, <1>5 DEF WaitInv
  <2> QED BY <2>4, <2>5, <2>6, <2>7, <1>5 DEF WaitInv
<1>6. ASSUME NEW p \in Pids, SendResume(p) PROVE WaitInv'
  <2>1. kmsg[p].msg \in Message /\ kmsg[p].dst \in Pids
    BY <1>0, <1>6 DEF WaitInv, SendResume, Running, TypeOK
  <2>2. p = Current /\ Current' = Current
    BY <1>6 DEF SendResume, Running, Current
  <2>3. pc' = [pc EXCEPT ![p] = "user"]
    BY <1>6 DEF SendResume, Goto
  <2>4. \A q \in Pids : kmsg'[q] = kmsg[q] \/ pc'[q] = "user"
    BY <2>3, <1>0, <1>6 DEF SendResume, TypeOK
  <2> QED BY <2>1, <2>2, <2>3, <2>4, <1>5, <1>6 DEF SendResume
<1>7. ASSUME NEW p \in Pids, NEW d \in Pids, MsgSend(p, d) PROVE WaitInv'
  <2>1. nsent + 1 \in Message
    BY <1>0, <1>7, MessageFact DEF MsgSend
  <2>2. p = Current /\ Current' = Current /\ UNCHANGED <<pc, kmsg>>
    BY <1>7 DEF MsgSend, Running, Current
  <2> QED BY <2>1, <2>2, <1>5, <1>7 DEF MsgSend
<1>8. ASSUME NEW p \in Pids, NEW polling \in BOOLEAN, Take(p, polling), p = Current
      PROVE  WaitInv'
  <2>1. /\ UNCHANGED <<task_order, current_task, blocked, kmsg>>
        /\ pc' = [pc EXCEPT ![p] = "user"]
        /\ recvbuf' = [recvbuf EXCEPT ![p] = AfterPop(@)]
    BY <1>8 DEF Take, Goto
  <2>2. Current' = Current
    BY <2>1 DEF Current
  <2>3. \A x \in Task : (x = p /\ pc'[x] = "user") \/ (x # p /\ pc'[x] = pc[x])
    BY <2>1, <1>0 DEF TypeOK
  <2>4. \A q \in Pids : q # p => recvbuf'[q] = recvbuf[q]
    BY <2>1, <1>0 DEF TypeOK
  <2> QED BY <2>1, <2>2, <2>3, <2>4, <1>0, <1>8 DEF WaitInv
<1>9. ASSUME NEW p \in Pids, MsgRecvBlock(p) PROVE WaitInv'
  <2>1. /\ blocked' = [blocked EXCEPT ![p] = TRUE]
        /\ pc' = [pc EXCEPT ![p] = "recvwait"]
        /\ recvbuf[p].count = 0
        /\ UNCHANGED <<task_order, recvbuf, kmsg>>
    BY <1>9 DEF MsgRecvBlock, user_block, Goto, mailVars, ringVars
  <2>2. ~blocked'[Current']
    BY <1>9, <2>1, SwitchFact DEF MsgRecvBlock, user_block, Current
  <2>3. \A x \in Task : \/ x = p /\ blocked'[x] /\ pc'[x] = "recvwait"
                        \/ x # p /\ blocked'[x] = blocked[x] /\ pc'[x] = pc[x]
    BY <2>1, <1>0 DEF TypeOK
  <2> QED BY <2>1, <2>2, <2>3, <1>0 DEF WaitInv
<1>10. ASSUME NEW p \in Pids, NEW d \in Pids, MsgSendBlock(p, d) PROVE WaitInv'
  <2>1. /\ blocked' = [blocked EXCEPT ![p] = TRUE]
        /\ pc' = [pc EXCEPT ![p] = "sendwait"]
        /\ UNCHANGED <<task_order, recvbuf>>
    BY <1>10 DEF MsgSendBlock, user_block, Goto, ringVars
  <2>2. ~blocked'[Current']
    BY <1>10, <2>1, SwitchFact DEF MsgSendBlock, user_block, Current
  <2>3. \A x \in Task : \/ x = p /\ blocked'[x] /\ pc'[x] = "sendwait"
                        \/ x # p /\ blocked'[x] = blocked[x] /\ pc'[x] = pc[x]
    BY <2>1, <1>0 DEF TypeOK
  <2>4. \A q \in Pids : (q = p /\ kmsg'[q].msg \in Message) \/ (q # p /\ kmsg'[q] = kmsg[q])
    <3>1. nsent + 1 \in Message
      BY <1>0, <1>10, MessageFact DEF MsgSendBlock
    <3>2. kmsg' = [kmsg EXCEPT ![p] = [msg |-> nsent + 1, dst |-> d]]
      BY <1>10 DEF MsgSendBlock
    <3> QED BY <3>1, <3>2, <1>0 DEF TypeOK
  <2>5. \A q \in Pids : pc'[q] = "sendwait" => kmsg'[q].msg \in Message
    BY <2>3, <2>4, <1>0 DEF WaitInv
  <2>6. \A q \in Pids : pc'[q] = "recvwait" => (blocked'[q] <=> recvbuf'[q].count = 0)
    BY <2>1, <2>3, <1>0 DEF WaitInv
  <2>7. \A x \in Task : blocked'[x] => pc'[x] \in {"sendwait", "recvwait"}
    BY <2>3, <1>0 DEF WaitInv
  <2> QED BY <2>2, <2>5, <2>6, <2>7 DEF WaitInv
<1>11. ASSUME NEW p \in Pids, NEW d \in Pids, MsgSendNobody(p, d) PROVE WaitInv'
  BY <1>0, <1>11, WaitQuiet DEF MsgSendNobody, schedVars, ringVars, WaitInv, Current
<1> QED
  BY <1>1, <1>2, <1>3, <1>4, <1>6, <1>7, <1>8, <1>9, <1>10, <1>11
  DEF Next, UserStep, RecvResume, MsgRecv, MsgPoll, Running

-----------------------------------------------------------------------------
(* The rings.                                                              *)

LEMMA MailQuiet ==
    ASSUME MailInv, UNCHANGED <<ringVars, halted>>
    PROVE  MailInv'
BY DEF MailInv, ringVars

LEMMA MailDeposit ==
    ASSUME TypeOK, MailInv, NEW d \in Pids, NEW m \in Message, Deposit(d, m), halted' = halted
    PROVE  MailInv'
<1>1. Rings!RingInv(message_push(recvbuf[d], m), Append(pushed[d], m), popped[d],
              overrun[d] \/ recvbuf[d].count = MSG_MAXCOUNT)
  BY PushRing DEF TypeOK, MailInv
<1>2. /\ recvbuf'[d] = message_push(recvbuf[d], m)
      /\ pushed'[d] = Append(pushed[d], m)
      /\ overrun'[d] = (overrun[d] \/ recvbuf[d].count = MSG_MAXCOUNT)
      /\ popped' = popped
  BY DEF Deposit, user_awake, TypeOK
<1>3. \A q \in Pids : q # d => /\ recvbuf'[q] = recvbuf[q]
                               /\ pushed'[q] = pushed[q]
                               /\ overrun'[q] = overrun[q]
  BY DEF Deposit, user_awake, TypeOK
<1>4. \A q \in Pids : Rings!RingInv(recvbuf'[q], pushed'[q], popped'[q], overrun'[q])
  BY <1>1, <1>2, <1>3 DEF MailInv
<1>5. \A q \in Pids : overrun[q] => overrun'[q]
  BY <1>2, <1>3
<1> QED BY <1>2, <1>4, <1>5 DEF MailInv

\* A pop that may panic leaves a ring that was overrun or read past its end.
LEMMA MailTake ==
    ASSUME TypeOK, MailInv, NEW p \in Pids, NEW polling \in BOOLEAN, Take(p, polling),
           recvbuf[p].count = 0 => polling, ~halted
    PROVE  MailInv'
<1>1. PICK m \in Popped(recvbuf[p]) :
          /\ recvbuf' = [recvbuf EXCEPT ![p] = AfterPop(@)]
          /\ popped' = [popped EXCEPT ![p] = IF recvbuf[p].count = 0 THEN @ ELSE Append(@, m)]
          /\ halted' \in IF m \in Message \/ (polling /\ m = NULL) THEN {FALSE} ELSE BOOLEAN
  BY DEF Take
<1>2. pushed' = pushed /\ overrun' = overrun
  BY DEF Take
<1>3. \A q \in Pids : q # p => recvbuf'[q] = recvbuf[q] /\ popped'[q] = popped[q]
  BY <1>1 DEF TypeOK
<1>4. CASE recvbuf[p].count = 0
  <2>1. AfterPop(recvbuf[p]) = recvbuf[p] /\ m = NULL
    BY <1>4 DEF AfterPop, Popped
  <2>2. recvbuf'[p] = recvbuf[p] /\ popped'[p] = popped[p]
    BY <2>1, <1>1, <1>4 DEF TypeOK
  <2>3. halted' = FALSE
    BY <2>1, <1>1, <1>4
  <2> QED BY <2>2, <2>3, <1>2, <1>3 DEF MailInv
<1>5. CASE recvbuf[p].count # 0
  <2>1. recvbuf'[p] = AfterPop(recvbuf[p]) /\ popped'[p] = Append(popped[p], m)
    BY <1>1, <1>5 DEF TypeOK
  <2>2. Rings!RingInv(AfterPop(recvbuf[p]), pushed[p], Append(popped[p], m), overrun[p])
    <3>1. /\ recvbuf[p] \in RingType(Message) /\ pushed[p] \in Seq(Message)
          /\ popped[p] \in Seq(Message \cup {NULL, STRAY}) /\ overrun[p] \in BOOLEAN
      BY DEF TypeOK
    <3>2. Rings!RingInv(recvbuf[p], pushed[p], popped[p], overrun[p])
      BY DEF MailInv
    <3> QED BY <3>1, <3>2, <1>5, PopRing
  <2>3. \A q \in Pids : Rings!RingInv(recvbuf'[q], pushed'[q], popped'[q], overrun'[q])
    BY <2>1, <2>2, <1>2, <1>3 DEF MailInv
  <2>4. ASSUME halted', ~overrun[p] PROVE Len(popped'[p]) > MSG_MAXCOUNT
    <3>1. m \notin Message
      BY <2>4, <1>1
    <3>2. Rings!RingInv(recvbuf[p], pushed[p], popped[p], FALSE)
      BY <2>4 DEF MailInv, TypeOK
    <3>3. ~(Len(popped[p]) < MSG_MAXCOUNT)
      BY <3>1, <3>2, <1>5, PopMessage DEF TypeOK
    <3>4. m \in Message \cup {NULL, STRAY}
      BY PoppedType DEF TypeOK
    <3>5. Len(popped'[p]) = Len(popped[p]) + 1 /\ Len(popped[p]) \in Nat
      BY <2>1, <3>4 DEF TypeOK
    <3> QED BY <3>3, <3>5, MaxCountAssumption
  <2> QED BY <2>3, <2>4, <1>2 DEF MailInv
<1> QED BY <1>4, <1>5

LEMMA MailNext ==
    ASSUME IInv, [Next]_vars
    PROVE  MailInv'
<1> USE PidFact
<1>0. TypeOK /\ WaitInv /\ MailInv
  BY DEF IInv
<1>1. CASE Timer \/ TimerIgnored \/ Halted \/ UNCHANGED vars
  BY <1>0, <1>1, MailQuiet DEF Timer, TimerIgnored, Halted, vars, mailVars
<1>2. ASSUME NEW t \in Task, SpawnStep(t) PROVE MailInv'
  BY <1>0, <1>2, MailQuiet DEF SpawnStep, SpawnEnter, Creator, NewTaskLock, NewTaskPush, SpawnLink,
                               SpawnUnlock, SpawnEnable, mailVars
<1>3. ASSUME NEW p \in Pids, Start(p) PROVE MailInv'
  BY <1>0, <1>3, MailQuiet DEF Start, mailVars
<1>4. ASSUME NEW p \in Pids, SendResume(p) PROVE MailInv'
  <2>1. kmsg[p].msg \in Message /\ kmsg[p].dst \in Pids
    BY <1>0, <1>4 DEF WaitInv, SendResume, Running, TypeOK
  <2> QED BY <2>1, <1>0, <1>4, MailDeposit DEF SendResume
<1>5. ASSUME NEW p \in Pids, RecvResume(p) PROVE MailInv'
  <2>1. recvbuf[p].count # 0
    BY <1>0, <1>5 DEF WaitInv, RecvResume, Running
  <2> QED BY <2>1, <1>0, <1>5, MailTake DEF RecvResume, Running
<1>6. ASSUME NEW p \in Pids, MsgRecv(p) PROVE MailInv'
  BY <1>0, <1>6, MailTake DEF MsgRecv, Running
<1>7. ASSUME NEW p \in Pids, MsgPoll(p) PROVE MailInv'
  BY <1>0, <1>7, MailTake DEF MsgPoll, Running
<1>8. ASSUME NEW p \in Pids, MsgRecvBlock(p) PROVE MailInv'
  BY <1>0, <1>8, MailQuiet DEF MsgRecvBlock, user_block, mailVars
<1>9. ASSUME NEW p \in Pids, NEW d \in Pids, MsgSendNobody(p, d) \/ MsgSendBlock(p, d)
      PROVE  MailInv'
  BY <1>0, <1>9, MailQuiet DEF MsgSendNobody, MsgSendBlock
<1>10. ASSUME NEW p \in Pids, NEW d \in Pids, MsgSend(p, d) PROVE MailInv'
  <2>1. nsent + 1 \in Message
    BY <1>0, <1>10, MessageFact DEF MsgSend
  <2> QED BY <2>1, <1>0, <1>10, MailDeposit DEF MsgSend
<1> QED
  BY <1>1, <1>2, <1>3, <1>4, <1>5, <1>6, <1>7, <1>8, <1>9, <1>10 DEF Next, UserStep

-----------------------------------------------------------------------------
(* The invariant and what it gives.                                        *)

LEMMA InitIInv == Init => IInv
<1> USE PidFact
<1> SUFFICES ASSUME Init PROVE IInv
  OBVIOUS
<1>1. EmptyBuffer \in RingType(Message)
  <2>1. 0 \in Slots /\ 0 \in 0 .. INT16_MAX /\ 0 \in 0 .. MSG_MAXCOUNT
    BY MaxCountAssumption, Int16Assumption DEF Slots
  <2> QED BY <2>1 DEF RingType, EmptyBuffer
<1>2. kmsg \in [Pids -> [msg : Message \cup {NULL}, dst : Pids]]
  <2>1. [msg |-> NULL, dst |-> 0] \in [msg : Message \cup {NULL}, dst : Pids]
    BY MaxProcsAssumption DEF Pids
  <2> QED BY <2>1 DEF Init
<1>3. TypeOK
  <2>1. task_order \in Seq(Task) /\ current_task \in 1 .. Len(task_order) /\ utsk_list \in Seq(Pids)
    BY DEF Init
  <2>2. next_pid \in 0 .. MAXPROCS /\ nsent \in 0 .. MAXMSGS
    BY MaxProcsAssumption, MaxMsgsAssumption DEF Init
  <2>3. recvbuf \in [Pids -> RingType(Message)]
    BY <1>1 DEF Init
  <2>4. /\ sendbuf \in [Pids -> Seq(Message)]
        /\ pushed \in [Pids -> Seq(Message)]
        /\ popped \in [Pids -> Seq(Message \cup {NULL, STRAY})]
    BY DEF Init
  <2> QED BY <1>2, <2>1, <2>2, <2>3, <2>4 DEF TypeOK, Init
<1>4. Current = KERNEL /\ pc[KERNEL] = "boot" /\ \A p \in Pids : pc[p] = "none"
  BY DEF Current, Init, Task
<1>5. ModeInv /\ LockInv
  BY <1>4 DEF ModeInv, LockInv, Creating, SpawnPcs, Init, Task
<1>6. ChildInv
  <2>1. \A i \in 1 .. Len(task_order) : pc[task_order[i]] # "none"
    BY <1>4 DEF Init
  <2> QED BY <1>4, <2>1 DEF ChildInv, SpawnPcs, Task
<1>7. WaitInv
  BY <1>4 DEF WaitInv, Init
<1>8. MailInv
  <2>1. Rings!RingInv(EmptyBuffer, <<>>, <<>>, FALSE)
    BY MaxCountAssumption DEF Rings!RingInv, Rings!Slots, EmptyBuffer, Slots
  <2> QED BY <2>1 DEF MailInv, Init
<1> QED BY <1>3, <1>5, <1>6, <1>7, <1>8 DEF IInv

LEMMA NextIInv == IInv /\ [Next]_vars => IInv'
<1> SUFFICES ASSUME IInv, [Next]_vars PROVE IInv'
  OBVIOUS
<1>1. TypeOK'
  BY TypeNext
<1> QED BY <1>1, SchedNext, WaitNext, MailNext DEF IInv, SchedInv

LEMMA Invariance == Spec => []IInv
BY InitIInv, NextIInv, PTL DEF Spec

\* Type correctness of the kernel's process, scheduler and message state.
THEOREM IpcTypeCorrect == Spec => []TypeOK
<1>1. IInv => TypeOK
  BY DEF IInv
<1> QED BY Invariance, <1>1, PTL

\* message_async_recv and message_async_send never lose a wakeup between them.
THEOREM IpcNoLostWakeup == Spec => []NoLostWakeup
<1>1. IInv => NoLostWakeup
  BY DEF IInv, WaitInv, NoLostWakeup
<1> QED BY Invariance, <1>1, PTL

\* A receiver that is woken finds a message: one test of count is enough.
THEOREM IpcRecvNeverEmpty == Spec => []RecvNeverEmpty
<1>1. IInv => RecvNeverEmpty
  BY PidFact, MaxCountAssumption DEF IInv, WaitInv, RecvNeverEmpty, TypeOK, RingType
<1> QED BY Invariance, <1>1, PTL

\* No half-created and no blocked task is ever run.
THEOREM IpcRunsOnlyReady == Spec => []RunsOnlyReady
<1>1. IInv => RunsOnlyReady
  <2> SUFFICES ASSUME IInv PROVE RunsOnlyReady
    OBVIOUS
  <2>1. pc[Current] # "none"
    BY DEF IInv, TypeOK, ChildInv, Current
  <2>2. pc[Current] # "new"
    BY CurrentFact DEF IInv, ChildInv
  <2> QED BY <2>1, <2>2 DEF IInv, WaitInv, RunsOnlyReady
<1> QED BY Invariance, <1>1, PTL

\* The locks of user and tasking are never held by a task that is switched out.
THEOREM IpcLocksHeldByRunning == Spec => []LocksHeldByRunning
<1>1. IInv => LocksHeldByRunning
  BY DEF IInv, LockInv, LocksHeldByRunning
<1> QED BY Invariance, <1>1, PTL

\* The timer interrupt never spins on task_lock.
THEOREM IpcTickNeverSpins == Spec => []TickNeverSpins
<1>1. IInv => TickNeverSpins
  BY DEF IInv, LockInv, ModeInv, TickNeverSpins, tasking_tick_switches, Creating, SpawnPcs
<1> QED BY Invariance, <1>1, PTL

\* Until a ring is overrun or read past its end, messages arrive in order and
\* the kernel does not panic.
THEOREM IpcInOrder == Spec => []InOrderUntilWrap
<1>1. IInv => InOrderUntilWrap
  <2> SUFFICES ASSUME IInv, \A p \in Pids : ~overrun[p] /\ Len(popped[p]) <= MSG_MAXCOUNT
               PROVE  /\ \A p \in Pids : \A i \in 1 .. Len(popped[p]) :
                            i <= Len(pushed[p]) /\ popped[p][i] = pushed[p][i]
                      /\ ~halted
    BY DEF InOrderUntilWrap
  <2>1. \A p \in Pids : Len(popped[p]) \in Nat /\ Len(pushed[p]) \in Nat
    BY DEF IInv, TypeOK
  <2>2. ASSUME NEW p \in Pids, NEW i \in 1 .. Len(popped[p])
        PROVE  i <= Len(pushed[p]) /\ popped[p][i] = pushed[p][i]
    <3>1. Rings!RingInv(recvbuf[p], pushed[p], popped[p], overrun[p]) /\ i <= MSG_MAXCOUNT
      BY <2>1, MaxCountAssumption DEF IInv, MailInv
    <3>2. Len(popped[p]) <= Len(pushed[p]) /\ popped[p][i] = pushed[p][i]
      BY <3>1 DEF Rings!RingInv
    <3> QED BY <3>2, <2>1
  <2>3. ~halted
    BY <2>1, MaxCountAssumption DEF IInv, MailInv
  <2> QED BY <2>2, <2>3
<1> QED BY Invariance, <1>1, PTL

-----------------------------------------------------------------------------
(* Each message once.                                                      *)

\* Messages are numbered in the order in which they are sent.  A message that is
\* on a ring, or in the hand of a waiting sender, is there and nowhere else.
OnceInv ==
    /\ \A p \in Pids : \A i \in 1 .. Len(pushed[p]) : pushed[p][i] <= nsent
    /\ \A p, q \in Pids : \A i \in 1 .. Len(pushed[p]), j \in 1 .. Len(pushed[q]) :
           pushed[p][i] = pushed[q][j] => p = q /\ i = j
    /\ \A p \in Pids : pc[p] = "sendwait" =>
           /\ kmsg[p].msg <= nsent
           /\ \A q \in Pids : \A i \in 1 .. Len(pushed[q]) : pushed[q][i] # kmsg[p].msg
           /\ \A q \in Pids : pc[q] = "sendwait" /\ q # p => kmsg[q].msg # kmsg[p].msg

\* Elements of a sequence, and of one that got longer.
LEMMA AppendElement ==
    ASSUME NEW S, NEW s \in Seq(S), NEW i \in 1 .. Len(s)
    PROVE  s[i] \in S /\ \A x : Append(s, x)[i] = s[i]
  OBVIOUS

\* Who waits for room after a step waited with the same message before.
Waiting ==
    \A p \in Pids : pc'[p] = "sendwait" => pc[p] = "sendwait" /\ kmsg'[p] = kmsg[p]

\* A step that pushes nothing and lets nobody new wait for room.
LEMMA OnceQuiet ==
    ASSUME TypeOK, WaitInv, OnceInv, pushed' = pushed, Waiting,
           nsent' = nsent \/ nsent' = nsent + 1
    PROVE  OnceInv'
<1>1. \A p \in Pids : \A i \in 1 .. Len(pushed[p]) : pushed[p][i] \in Nat
  BY MaxMsgsAssumption DEF TypeOK, Message
<1>2. nsent \in Nat /\ \A p \in Pids : pc[p] = "sendwait" => kmsg[p].msg \in Nat
  BY MaxMsgsAssumption DEF TypeOK, WaitInv, Message
<1>3. \A p \in Pids : \A i \in 1 .. Len(pushed[p]) : pushed[p][i] <= nsent'
  BY <1>1, <1>2 DEF OnceInv
<1>4. \A p \in Pids : pc'[p] = "sendwait" => kmsg'[p].msg <= nsent'
  BY <1>2 DEF OnceInv, Waiting
<1> QED BY <1>3, <1>4 DEF OnceInv, Waiting

\* A deposit of a message that nobody waits with and no ring has had.
LEMMA OnceDeposit ==
    ASSUME TypeOK, TypeOK', WaitInv, OnceInv, NEW d \in Pids, NEW m \in Message,
           pushed' = [pushed EXCEPT ![d] = Append(@, m)],
           nsent' = nsent \/ nsent' = nsent + 1, m <= nsent', Waiting,
           \A p \in Pids : \A i \in 1 .. Len(pushed[p]) : pushed[p][i] # m,
           \A p \in Pids : pc'[p] = "sendwait" => kmsg[p].msg # m
    PROVE  OnceInv'
<1>0. nsent \in Nat /\ nsent' \in Nat
  BY MaxMsgsAssumption DEF TypeOK
<1>1. ASSUME NEW p \in Pids, NEW i \in 1 .. Len(pushed'[p])
      PROVE  \/ i \in 1 .. Len(pushed[p]) /\ pushed'[p][i] = pushed[p][i] /\ pushed[p][i] \in Nat
             \/ p = d /\ i = Len(pushed[d]) + 1 /\ pushed'[p][i] = m
  <2>1. pushed[p] \in Seq(Message) /\ Message \subseteq Nat
    BY MaxMsgsAssumption DEF TypeOK, Message
  <2>2. CASE p = d
    <3>1. pushed'[p] = Append(pushed[p], m)
      BY <2>2 DEF TypeOK
    <3>2. Len(pushed[p]) \in Nat /\ Len(pushed'[p]) = Len(pushed[p]) + 1
      BY <2>1, <3>1
    <3>3. CASE i = Len(pushed[p]) + 1
      BY <2>1, <2>2, <3>1, <3>3
    <3>4. CASE i \in 1 .. Len(pushed[p])
      <4>1. Append(pushed[p], m)[i] = pushed[p][i] /\ pushed[p][i] \in Message
        BY <2>1, <3>4, AppendElement
      <4> QED BY <2>1, <3>1, <3>4, <4>1
    <3> QED BY <3>2, <3>3, <3>4
  <2>3. CASE p # d
    <3>1. pushed'[p] = pushed[p]
      BY <2>3 DEF TypeOK
    <3>2. i \in 1 .. Len(pushed[p])
      BY <3>1
    <3>3. pushed[p][i] \in Message
      BY <2>1, <3>2
    <3>4. pushed[p][i] \in Nat
      BY <2>1, <3>3
    <3> QED BY <3>1, <3>2, <3>4
  <2> QED BY <2>2, <2>3
<1>2. \A p \in Pids : pc[p] = "sendwait" => kmsg[p].msg \in Nat
  BY MaxMsgsAssumption DEF WaitInv, Message
<1>3. ASSUME NEW p \in Pids, NEW i \in 1 .. Len(pushed'[p]) PROVE pushed'[p][i] <= nsent'
  <2>1. i \in 1 .. Len(pushed[p]) => pushed[p][i] <= nsent
    BY DEF OnceInv
  <2> QED BY <1>0, <1>1, <2>1
<1>4. ASSUME NEW p \in Pids, NEW q \in Pids, NEW i \in 1 .. Len(pushed'[p]),
             NEW j \in 1 .. Len(pushed'[q]), pushed'[p][i] = pushed'[q][j]
      PROVE  p = q /\ i = j
  <2>1. \/ i \in 1 .. Len(pushed[p]) /\ pushed'[p][i] = pushed[p][i]
        \/ p = d /\ i = Len(pushed[d]) + 1 /\ pushed'[p][i] = m
    BY <1>1
  <2>2. \/ j \in 1 .. Len(pushed[q]) /\ pushed'[q][j] = pushed[q][j]
        \/ q = d /\ j = Len(pushed[d]) + 1 /\ pushed'[q][j] = m
    BY <1>1
  <2> QED BY <1>4, <2>1, <2>2 DEF OnceInv
<1>5. ASSUME NEW p \in Pids, pc'[p] = "sendwait"
      PROVE  /\ kmsg'[p].msg <= nsent'
             /\ \A q \in Pids : \A i \in 1 .. Len(pushed'[q]) : pushed'[q][i] # kmsg'[p].msg
             /\ \A q \in Pids : pc'[q] = "sendwait" /\ q # p => kmsg'[q].msg # kmsg'[p].msg
  <2>1. pc[p] = "sendwait" /\ kmsg'[p] = kmsg[p]
    BY <1>5 DEF Waiting
  <2>2. kmsg'[p].msg <= nsent'
    BY <2>1, <1>0, <1>2 DEF OnceInv
  <2>3. \A q \in Pids : \A i \in 1 .. Len(pushed'[q]) : pushed'[q][i] # kmsg'[p].msg
    BY <1>1, <1>5, <2>1 DEF OnceInv
  <2>4. \A q \in Pids : pc'[q] = "sendwait" /\ q # p => kmsg'[q].msg # kmsg'[p].msg
    BY <2>1 DEF OnceInv, Waiting
  <2> QED BY <2>2, <2>3, <2>4
<1> QED BY <1>3, <1>4, <1>5 DEF OnceInv

\* Every step keeps a message where it is or moves it on.
LEMMA OnceNext ==
    ASSUME IInv, IInv', OnceInv, [Next]_vars
    PROVE  OnceInv'
<1> USE PidFact
<1>0. TypeOK /\ TypeOK' /\ SchedInv /\ WaitInv /\ Current \in Task
  BY CurrentFact DEF IInv, SchedInv
<1>1. ASSUME NEW p \in Pids, NEW w, w # "sendwait", pc' = [pc EXCEPT ![p] = w], kmsg' = kmsg
      PROVE  Waiting
  BY <1>0, <1>1 DEF Waiting, TypeOK
<1>2. CASE Timer \/ TimerIgnored \/ Halted \/ UNCHANGED vars
  <2>1. UNCHANGED <<pc, kmsg, pushed, nsent>>
    BY <1>2 DEF Timer, TimerIgnored, Halted, vars, mailVars, ringVars
  <2> QED BY <1>0, <2>1, OnceQuiet DEF Waiting
<1>3. ASSUME NEW t \in Task, SpawnStep(t) PROVE OnceInv'
  <2>1. UNCHANGED <<kmsg, pushed, nsent>>
    BY <1>3 DEF SpawnStep, SpawnEnter, NewTaskLock, NewTaskPush, SpawnLink, SpawnUnlock, SpawnEnable,
                mailVars, ringVars
  <2>2. \A q \in Pids : pc'[q] = "sendwait" => pc[q] = "sendwait"
    <3>1. CASE NewTaskPush(t) \/ SpawnLink(t)
      <4>1. utsk[t] \in Task
        BY <3>1, <1>0 DEF SchedInv, ChildInv, NewTaskPush, SpawnLink, Running, SpawnPcs
      <4>2. PICK u, w \in {"link", "new", "unlock", "start"} :
                pc' = [pc EXCEPT ![t] = u, ![utsk[t]] = w]
        BY <3>1 DEF NewTaskPush, SpawnLink
      <4> QED BY <4>1, <4>2, <1>0 DEF TypeOK
    <3>2. CASE ~(NewTaskPush(t) \/ SpawnLink(t))
      BY <3>2, <1>3, <1>0 DEF SpawnStep, SpawnEnter, NewTaskLock, SpawnUnlock, SpawnEnable, Goto, TypeOK
    <3> QED BY <3>1, <3>2
  <2> QED BY <1>0, <2>1, <2>2, OnceQuiet DEF Waiting
<1>4. ASSUME NEW p \in Pids, Start(p) PROVE OnceInv'
  BY <1>0, <1>1, <1>4, OnceQuiet DEF Start, Goto, mailVars, ringVars
<1>5. ASSUME NEW p \in Pids, NEW polling, Take(p, polling) PROVE OnceInv'
  <2>1. pushed' = pushed /\ kmsg' = kmsg /\ nsent' = nsent /\ pc' = [pc EXCEPT ![p] = "user"]
    BY <1>5 DEF Take, Goto
  <2> QED BY <1>0, <1>1, <2>1, OnceQuiet
<1>6. ASSUME NEW p \in Pids, MsgRecvBlock(p) PROVE OnceInv'
  BY <1>0, <1>1, <1>6, OnceQuiet DEF MsgRecvBlock, user_block, Goto, mailVars, ringVars
<1>7. ASSUME NEW p \in Pids, NEW d \in Pids, MsgSendNobody(p, d) PROVE OnceInv'
  BY <1>0, <1>7, OnceQuiet DEF MsgSendNobody, ringVars, Waiting
<1>8. ASSUME NEW p \in Pids, NEW d \in Pids, MsgSend(p, d) PROVE OnceInv'
  <2>1. nsent + 1 \in Message /\ nsent \in Nat
    <3>1. nsent \in Nat /\ nsent < MAXMSGS
      BY <1>0, <1>8, MaxMsgsAssumption DEF MsgSend, TypeOK
    <3> QED BY <3>1, MaxMsgsAssumption DEF Message
  <2>2. /\ \A q \in Pids : \A i \in 1 .. Len(pushed[q]) : pushed[q][i] # nsent + 1
        /\ \A q \in Pids : pc[q] = "sendwait" => kmsg[q].msg # nsent + 1
    BY <1>0, <2>1 DEF OnceInv
  <2>3. /\ pushed' = [pushed EXCEPT ![d] = Append(@, nsent + 1)]
        /\ nsent' = nsent + 1 /\ pc' = pc /\ kmsg' = kmsg
    BY <1>8 DEF MsgSend, Deposit
  <2>4. nsent + 1 <= nsent'
    BY <2>1, <2>3
  <2> QED BY <1>0, <2>1, <2>2, <2>3, <2>4, OnceDeposit DEF Waiting
<1>9. ASSUME NEW p \in Pids, NEW d \in Pids, MsgSendBlock(p, d) PROVE OnceInv'
  <2>1. nsent + 1 \in Message /\ nsent \in Nat
    <3>1. nsent \in Nat /\ nsent < MAXMSGS
      BY <1>0, <1>9, MaxMsgsAssumption DEF MsgSendBlock, TypeOK
    <3> QED BY <3>1, MaxMsgsAssumption DEF Message
  <2>2. /\ pushed' = pushed /\ nsent' = nsent + 1
        /\ pc' = [pc EXCEPT ![p] = "sendwait"]
        /\ kmsg' = [kmsg EXCEPT ![p] = [msg |-> nsent + 1, dst |-> d]]
    BY <1>9 DEF MsgSendBlock, Goto, ringVars
  <2>3. /\ kmsg'[p].msg = nsent + 1
        /\ \A q \in Pids : q # p => pc'[q] = pc[q] /\ kmsg'[q] = kmsg[q]
    BY <1>0, <2>2 DEF TypeOK
  <2>4. /\ \A q \in Pids : \A i \in 1 .. Len(pushed[q]) : pushed[q][i] \in Nat
        /\ \A q \in Pids : pc[q] = "sendwait" => kmsg[q].msg \in Nat
    <3>1. Message \subseteq Nat
      BY MaxMsgsAssumption DEF Message
    <3>2. \A q \in Pids : \A i \in 1 .. Len(pushed[q]) : pushed[q][i] \in Message
      <4>1. \A q \in Pids : pushed[q] \in Seq(Message)
        BY <1>0 DEF TypeOK
      <4> QED BY <4>1, AppendElement
    <3>3. \A q \in Pids : pc[q] = "sendwait" => kmsg[q].msg \in Message
      BY <1>0 DEF WaitInv
    <3> QED BY <3>1, <3>2, <3>3
  <2>5. /\ \A q \in Pids : \A i \in 1 .. Len(pushed[q]) : pushed[q][i] <= nsent' /\ pushed[q][i] # nsent + 1
        /\ \A q \in Pids : q # p /\ pc'[q] = "sendwait" => kmsg'[q].msg <= nsent /\ kmsg'[q].msg # nsent + 1
    BY <2>1, <2>2, <2>3, <2>4 DEF OnceInv
  <2>6. \A q \in Pids : pc'[q] = "sendwait" => kmsg'[q].msg <= nsent'
    BY <2>1, <2>2, <2>3, <2>4, <2>5
  <2>7. \A q \in Pids : pc'[q] = "sendwait" =>
            \A r \in Pids : \A i \in 1 .. Len(pushed[r]) : pushed[r][i] # kmsg'[q].msg
    BY <2>3, <2>5 DEF OnceInv
  <2>8. \A q, r \in Pids : pc'[q] = "sendwait" /\ pc'[r] = "sendwait" /\ r # q
                              => kmsg'[r].msg # kmsg'[q].msg
    BY <2>3, <2>5 DEF OnceInv
  <2> QED BY <2>2, <2>5, <2>6, <2>7, <2>8 DEF OnceInv
<1>10. ASSUME NEW p \in Pids, SendResume(p) PROVE OnceInv'
  <2>1. pc[p] = "sendwait" /\ kmsg[p].msg \in Message /\ kmsg[p].dst \in Pids
    BY <1>0, <1>10 DEF WaitInv, SendResume, Running, TypeOK
  <2>2. /\ pushed' = [pushed EXCEPT ![kmsg[p].dst] = Append(@, kmsg[p].msg)]
        /\ nsent' = nsent /\ pc' = [pc EXCEPT ![p] = "user"]
        /\ kmsg' = [kmsg EXCEPT ![p] = [msg |-> NULL, dst |-> 0]]
    BY <1>10 DEF SendResume, Deposit, Goto
  <2>3. pc'[p] = "user" /\ \A q \in Pids : q # p => pc'[q] = pc[q] /\ kmsg'[q] = kmsg[q]
    BY <1>0, <2>2 DEF TypeOK
  <2>4. Waiting
    BY <2>3 DEF Waiting
  <2>5. /\ kmsg[p].msg <= nsent'
        /\ \A q \in Pids : \A i \in 1 .. Len(pushed[q]) : pushed[q][i] # kmsg[p].msg
    BY <2>1, <2>2 DEF OnceInv
  <2>6. \A q \in Pids : pc'[q] = "sendwait" => kmsg[q].msg # kmsg[p].msg
    BY <2>1, <2>3 DEF OnceInv
  <2> QED BY <1>0, <2>1, <2>2, <2>4, <2>5, <2>6, OnceDeposit
<1> QED
  BY <1>2, <1>3, <1>4, <1>5, <1>6, <1>7, <1>8, <1>9, <1>10
  DEF Next, UserStep, RecvResume, MsgRecv, MsgPoll

\* Rings start empty and nobody waits.
LEMMA OnceInit == Init => OnceInv
  BY PidFact DEF Init, OnceInv

LEMMA OnceInvariance == Spec => [](IInv /\ OnceInv)
<1>1. Init => IInv /\ OnceInv
  BY InitIInv, OnceInit
<1>2. IInv /\ OnceInv /\ [Next]_vars => IInv' /\ OnceInv'
  BY NextIInv, OnceNext
<1> QED BY <1>1, <1>2, PTL DEF Spec

\* A message is on a ring, or some sender sleeps with it.
OnRing(m) == \E p \in Pids : \E i \in 1 .. Len(pushed[p]) : pushed[p][i] = m
InHand(m) == \E p \in Pids : pc[p] = "sendwait" /\ kmsg[p].msg = m

\* No message is left out: each is on a ring, in a hand or sent to nobody, and those
\* sent to nobody are in neither.
FateInv ==
    /\ \A m \in nowhere : m \in 1 .. nsent /\ ~OnRing(m) /\ ~InHand(m)
    /\ \A m \in 1 .. nsent : m \in nowhere \/ OnRing(m) \/ InHand(m)

\* A deposit puts one more message on a ring.
LEMMA RingGains ==
    ASSUME TypeOK, NEW d \in Pids, NEW m, pushed' = [pushed EXCEPT ![d] = Append(@, m)], NEW k
    PROVE  OnRing(k)' <=> OnRing(k) \/ k = m
<1>1. \A p \in Pids : pushed[p] \in Seq(Message) /\ Len(pushed[p]) \in Nat
  BY DEF TypeOK
<1>2. /\ \A p \in Pids : p # d => pushed'[p] = pushed[p]
      /\ pushed'[d] = Append(pushed[d], m)
  BY DEF TypeOK
<1>3. /\ Len(pushed'[d]) = Len(pushed[d]) + 1 /\ pushed'[d][Len(pushed[d]) + 1] = m
      /\ \A i \in 1 .. Len(pushed[d]) : pushed'[d][i] = pushed[d][i]
  BY <1>1, <1>2
<1>4. ASSUME OnRing(k)' PROVE OnRing(k) \/ k = m
  <2>0. PICK p \in Pids : \E i \in 1 .. Len(pushed'[p]) : pushed'[p][i] = k
    BY <1>4 DEF OnRing
  <2>1. PICK i \in 1 .. Len(pushed'[p]) : pushed'[p][i] = k
    BY <2>0
  <2>2. CASE p # d
    BY <1>2, <2>1, <2>2 DEF OnRing
  <2>3. CASE p = d /\ i = Len(pushed[d]) + 1
    BY <1>3, <2>1, <2>3
  <2>4. CASE p = d /\ i # Len(pushed[d]) + 1
    <3>1. i \in 1 .. Len(pushed[d])
      BY <1>1, <1>3, <2>4
    <3> QED BY <1>3, <2>1, <2>4, <3>1 DEF OnRing
  <2> QED BY <2>2, <2>3, <2>4
<1>5. ASSUME OnRing(k) PROVE OnRing(k)'
  <2>0. PICK p \in Pids : \E i \in 1 .. Len(pushed[p]) : pushed[p][i] = k
    BY <1>5 DEF OnRing
  <2>1. PICK i \in 1 .. Len(pushed[p]) : pushed[p][i] = k
    BY <2>0
  <2>2. i \in 1 .. Len(pushed'[p]) /\ pushed'[p][i] = k
    BY <1>1, <1>2, <1>3, <2>1
  <2> QED BY <2>2 DEF OnRing
<1>6. ASSUME k = m PROVE OnRing(k)'
  <2>1. Len(pushed[d]) + 1 \in 1 .. Len(pushed'[d]) /\ pushed'[d][Len(pushed[d]) + 1] = k
    BY <1>1, <1>3, <1>6
  <2> QED BY <2>1 DEF OnRing
<1> QED BY <1>4, <1>5, <1>6

\* The number of a new message is on no ring and in no hand.
LEMMA NewNumber ==
    ASSUME TypeOK, WaitInv, OnceInv, FateInv
    PROVE  ~OnRing(nsent + 1) /\ ~InHand(nsent + 1) /\ nsent + 1 \notin nowhere
<1>1. nsent \in Nat
  BY MaxMsgsAssumption DEF TypeOK
<1>2. ASSUME OnRing(nsent + 1) PROVE FALSE
  <2>0. PICK p \in Pids : \E i \in 1 .. Len(pushed[p]) : pushed[p][i] = nsent + 1
    BY <1>2 DEF OnRing
  <2>1. PICK i \in 1 .. Len(pushed[p]) : pushed[p][i] = nsent + 1
    BY <2>0
  <2> QED BY <1>1, <2>1 DEF OnceInv
<1>3. ASSUME InHand(nsent + 1) PROVE FALSE
  BY <1>1, <1>3 DEF InHand, OnceInv
<1>4. nsent + 1 \notin nowhere
  BY <1>1 DEF FateInv
<1> QED BY <1>2, <1>3, <1>4

\* Who sleeps with which message is as before.
SameHands ==
    \A p \in Pids : /\ pc'[p] = "sendwait" <=> pc[p] = "sendwait"
                    /\ pc[p] = "sendwait" => kmsg'[p] = kmsg[p]

\* Every step keeps it.
LEMMA FateNext ==
    ASSUME IInv, OnceInv, FateInv, [Next]_vars
    PROVE  FateInv'
<1> USE PidFact
<1>0. TypeOK /\ SchedInv /\ WaitInv /\ nsent \in Nat
  BY MaxMsgsAssumption DEF IInv, SchedInv, TypeOK
<1>1. ASSUME UNCHANGED <<pushed, nsent, nowhere>>, SameHands PROVE FateInv'
  <2>1. \A m : OnRing(m)' <=> OnRing(m)
    BY <1>1 DEF OnRing
  <2>2. \A m : InHand(m)' <=> InHand(m)
    <3>1. ASSUME NEW m, InHand(m) PROVE InHand(m)'
      <4>1. PICK p \in Pids : pc[p] = "sendwait" /\ kmsg[p].msg = m
        BY <3>1 DEF InHand
      <4>2. pc'[p] = "sendwait" /\ kmsg'[p] = kmsg[p]
        BY <1>1, <4>1 DEF SameHands
      <4> QED BY <4>1, <4>2 DEF InHand
    <3>2. ASSUME NEW m, InHand(m)' PROVE InHand(m)
      <4>1. PICK p \in Pids : pc'[p] = "sendwait" /\ kmsg'[p].msg = m
        BY <3>2 DEF InHand
      <4>2. pc[p] = "sendwait" /\ kmsg'[p] = kmsg[p]
        BY <1>1, <4>1 DEF SameHands
      <4> QED BY <4>1, <4>2 DEF InHand
    <3> QED BY <3>1, <3>2
  <2> QED BY <1>1, <2>1, <2>2 DEF FateInv
<1>2. ASSUME NEW p \in Pids, NEW w, w # "sendwait", pc[p] # "sendwait", pc' = [pc EXCEPT ![p] = w],
             kmsg' = kmsg
      PROVE  SameHands
  BY <1>0, <1>2 DEF SameHands, TypeOK
<1>3. CASE Timer \/ TimerIgnored \/ Halted \/ UNCHANGED vars
  <2>1. UNCHANGED <<pc, kmsg, pushed, nsent, nowhere>>
    BY <1>3 DEF Timer, TimerIgnored, Halted, vars, mailVars, ringVars
  <2> QED BY <1>1, <2>1 DEF SameHands
<1>4. ASSUME NEW t \in Task, SpawnStep(t) PROVE FateInv'
  <2>1. UNCHANGED <<kmsg, pushed, nsent, nowhere>>
    BY <1>4 DEF SpawnStep, SpawnEnter, NewTaskLock, NewTaskPush, SpawnLink, SpawnUnlock, SpawnEnable,
                mailVars, ringVars
  <2>2. \A q \in Pids : pc'[q] = "sendwait" <=> pc[q] = "sendwait"
    <3>1. CASE NewTaskPush(t) \/ SpawnLink(t)
      <4>1. utsk[t] \in Task /\ pc[utsk[t]] # "sendwait" /\ pc[t] # "sendwait"
        BY <3>1, <1>0 DEF SchedInv, ChildInv, NewTaskPush, SpawnLink, Running, SpawnPcs
      <4>2. PICK u, w \in {"link", "new", "unlock", "start"} :
                pc' = [pc EXCEPT ![t] = u, ![utsk[t]] = w]
        BY <3>1 DEF NewTaskPush, SpawnLink
      <4> QED BY <4>1, <4>2, <1>0 DEF TypeOK
    <3>2. CASE ~(NewTaskPush(t) \/ SpawnLink(t))
      BY <3>2, <1>4, <1>0
      DEF SpawnStep, SpawnEnter, Creator, NewTaskLock, SpawnUnlock, SpawnEnable, Running, Goto, TypeOK
    <3> QED BY <3>1, <3>2
  <2> QED BY <1>1, <2>1, <2>2 DEF SameHands
<1>5. ASSUME NEW p \in Pids, Start(p) PROVE FateInv'
  BY <1>1, <1>2, <1>5 DEF Start, Running, Goto, mailVars, ringVars
<1>6. ASSUME NEW p \in Pids, NEW polling, pc[p] # "sendwait", Take(p, polling) PROVE FateInv'
  <2>1. pc' = [pc EXCEPT ![p] = "user"] /\ UNCHANGED <<pushed, kmsg, nsent, nowhere>>
    BY <1>6 DEF Take, Goto
  <2> QED BY <1>1, <1>2, <1>6, <2>1
<1>7. ASSUME NEW p \in Pids, MsgRecvBlock(p) PROVE FateInv'
  BY <1>1, <1>2, <1>7 DEF MsgRecvBlock, Running, Goto, mailVars, ringVars
<1>8. ASSUME NEW p \in Pids, NEW d \in Pids, MsgSendNobody(p, d) PROVE FateInv'
  <2>1. UNCHANGED <<pushed, pc, kmsg>> /\ nsent' = nsent + 1 /\ nowhere' = nowhere \cup {nsent + 1}
    BY <1>8 DEF MsgSendNobody, ringVars
  <2>2. \A m : (OnRing(m)' <=> OnRing(m)) /\ (InHand(m)' <=> InHand(m))
    BY <2>1 DEF OnRing, InHand
  <2>3. \A m \in 1 .. nsent' : m \in 1 .. nsent \/ m = nsent + 1
    BY <1>0, <2>1
  <2>4. \A m \in nowhere' : m \in 1 .. nsent'
    BY <1>0, <2>1 DEF FateInv
  <2> HIDE DEF OnRing, InHand
  <2> QED BY <1>0, <2>1, <2>2, <2>3, <2>4, NewNumber DEF FateInv
<1>9. ASSUME NEW p \in Pids, NEW d \in Pids, MsgSend(p, d) PROVE FateInv'
  <2>1. /\ UNCHANGED <<pc, kmsg, nowhere>> /\ nsent' = nsent + 1
        /\ pushed' = [pushed EXCEPT ![d] = Append(@, nsent + 1)]
    BY <1>9 DEF MsgSend, Deposit
  <2>2. \A m : OnRing(m)' <=> OnRing(m) \/ m = nsent + 1
    BY <1>0, <2>1, RingGains
  <2>3. \A m : InHand(m)' <=> InHand(m)
    BY <2>1 DEF InHand
  <2>4. \A m \in 1 .. nsent' : m \in 1 .. nsent \/ m = nsent + 1
    BY <1>0, <2>1
  <2>5. \A m \in nowhere' : m \in 1 .. nsent'
    BY <1>0, <2>1 DEF FateInv
  <2> QED BY <1>0, <2>1, <2>2, <2>3, <2>4, <2>5, NewNumber DEF FateInv
<1>10. ASSUME NEW p \in Pids, NEW d \in Pids, MsgSendBlock(p, d) PROVE FateInv'
  <2>1. /\ UNCHANGED <<pushed, nowhere>> /\ nsent' = nsent + 1
        /\ pc' = [pc EXCEPT ![p] = "sendwait"] /\ pc[p] # "sendwait"
        /\ kmsg' = [kmsg EXCEPT ![p] = [msg |-> nsent + 1, dst |-> d]]
    BY <1>10 DEF MsgSendBlock, Running, Goto, ringVars
  <2>2. \A m : OnRing(m)' <=> OnRing(m)
    BY <2>1 DEF OnRing
  <2>3. /\ pc'[p] = "sendwait" /\ kmsg'[p].msg = nsent + 1
        /\ \A q \in Pids : q # p => pc'[q] = pc[q] /\ kmsg'[q] = kmsg[q]
    BY <1>0, <2>1 DEF TypeOK
  <2>4. \A m : InHand(m)' <=> InHand(m) \/ m = nsent + 1
    BY <2>1, <2>3 DEF InHand
  <2>5. \A m \in 1 .. nsent' : m \in 1 .. nsent \/ m = nsent + 1
    BY <1>0, <2>1
  <2>6. \A m \in nowhere' : m \in 1 .. nsent'
    BY <1>0, <2>1 DEF FateInv
  <2> QED BY <1>0, <2>1, <2>2, <2>4, <2>5, <2>6, NewNumber DEF FateInv
<1>11. ASSUME NEW p \in Pids, SendResume(p) PROVE FateInv'
  <2> DEFINE k == kmsg[p].msg
  <2>1. /\ UNCHANGED <<nsent, nowhere>> /\ pc[p] = "sendwait" /\ pc' = [pc EXCEPT ![p] = "user"]
        /\ pushed' = [pushed EXCEPT ![kmsg[p].dst] = Append(@, k)] /\ kmsg[p].dst \in Pids
        /\ kmsg' = [kmsg EXCEPT ![p] = [msg |-> NULL, dst |-> 0]]
    BY <1>0, <1>11 DEF SendResume, Running, Deposit, Goto, TypeOK
  <2>2. \A m : OnRing(m)' <=> OnRing(m) \/ m = k
    BY <1>0, <2>1, RingGains
  <2>3. pc'[p] = "user" /\ \A q \in Pids : q # p => pc'[q] = pc[q] /\ kmsg'[q] = kmsg[q]
    BY <1>0, <2>1 DEF TypeOK
  <2>4. \A m : InHand(m)' <=> InHand(m) /\ m # k
    BY <2>1, <2>3 DEF InHand, OnceInv
  <2>5. InHand(k)
    BY <2>1 DEF InHand
  <2> HIDE DEF k
  <2> QED BY <2>1, <2>2, <2>4, <2>5 DEF FateInv
<1> QED
  BY <1>3, <1>4, <1>5, <1>6, <1>7, <1>8, <1>9, <1>10, <1>11
  DEF Next, UserStep, RecvResume, MsgRecv, MsgPoll, Running

LEMMA FateInvariance == Spec => [](IInv /\ OnceInv /\ FateInv)
<1>1. Init => FateInv
  BY DEF Init, FateInv
<1>2. IInv /\ OnceInv /\ FateInv /\ [Next]_vars => FateInv'
  BY FateNext
<1> QED BY OnceInvariance, <1>1, <1>2, PTL DEF Spec

\* A set with an element and no second one has one element.
LEMMA One ==
    ASSUME NEW S, \A x, y \in S : x = y
    PROVE  /\ S = {} => Cardinality(S) = 0
           /\ S # {} => Cardinality(S) = 1
<1>1. ASSUME S # {} PROVE Cardinality(S) = 1
  <2>1. PICK x \in S : TRUE
    BY <1>1
  <2>2. S = {x}
    BY <2>1
  <2> QED BY <2>2, FS_Singleton
<1> QED BY <1>1, FS_EmptySet

\* Every message given to syscall_msg_send was pushed on exactly one ring, exactly
\* once, or exactly one sender sleeps with it, or it was sent to a pid nobody has.
THEOREM IpcOneFate == Spec => []OneFate
<1>1. IInv /\ OnceInv /\ FateInv => OneFate
  <2> SUFFICES ASSUME IInv, OnceInv, FateInv, NEW m \in 1 .. nsent
               PROVE  Cardinality(Pushes(m)) + Cardinality(Senders(m))
                          + (IF m \in nowhere THEN 1 ELSE 0) = 1
    BY DEF OneFate
  <2>0. TypeOK /\ WaitInv
    BY DEF IInv
  <2>1. \A p \in Pids : Len(pushed[p]) \in Nat
    BY <2>0 DEF TypeOK
  <2>2. ASSUME NEW x \in Pushes(m)
        PROVE  /\ x = <<x[1], x[2]>> /\ x[1] \in Pids /\ x[2] \in 1 .. Len(pushed[x[1]])
               /\ pushed[x[1]][x[2]] = m
    BY DEF Pushes
  <2>3. ASSUME NEW x \in Pushes(m), NEW y \in Pushes(m) PROVE x = y
    <3>1. x[1] = y[1] /\ x[2] = y[2]
      BY <2>2 DEF OnceInv
    <3> QED BY <2>2, <3>1
  <2>4. \A p, q \in Senders(m) : p = q
    BY DEF Senders, OnceInv
  <2>5. /\ Pushes(m) = {} => Cardinality(Pushes(m)) = 0
        /\ Pushes(m) # {} => Cardinality(Pushes(m)) = 1
        /\ Senders(m) = {} => Cardinality(Senders(m)) = 0
        /\ Senders(m) # {} => Cardinality(Senders(m)) = 1
    BY <2>3, <2>4, One
  <2>6. Senders(m) # {} <=> InHand(m)
    BY DEF Senders, InHand
  <2>7. Pushes(m) # {} => OnRing(m)
    BY <2>2 DEF OnRing
  <2>8. OnRing(m) => Pushes(m) # {}
    <3>1. SUFFICES ASSUME NEW p \in Pids, NEW i \in 1 .. Len(pushed[p]), pushed[p][i] = m
                   PROVE  Pushes(m) # {}
      BY DEF OnRing
    <3>2. <<p, i>> \in Pushes(m)
      BY <3>1 DEF Pushes
    <3> QED BY <3>2
  <2>9. ~(OnRing(m) /\ InHand(m))
    BY DEF OnRing, InHand, OnceInv
  <2>10. /\ m \in nowhere => ~OnRing(m) /\ ~InHand(m)
         /\ m \in nowhere \/ OnRing(m) \/ InHand(m)
    BY DEF FateInv
  <2> QED BY <2>5, <2>6, <2>7, <2>8, <2>9, <2>10
<1> QED BY FateInvariance, <1>1, PTL

-----------------------------------------------------------------------------
(* Refinement.                                                             *)

Mail == [p \in Pids |-> recvbuf[p].count]

LEMMA MailboxInit == Init => Boxes!Init
<1> SUFFICES ASSUME Init PROVE Boxes!Init
  OBVIOUS
<1>1. [p \in Pids |-> recvbuf[p].count] = [p \in Pids |-> 0]
  BY DEF Init, EmptyBuffer
<1>2. Sleeping = [p \in Pids |-> "no"]
  BY PidFact DEF Init, Sleeping
<1> QED BY <1>1, <1>2 DEF Boxes!Init

\* A step that leaves the counts and the blocked tasks alone is invisible.
LEMMA MailboxQuiet ==
    ASSUME \A q \in Pids : recvbuf'[q].count = recvbuf[q].count,
           blocked' = blocked,
           \A q \in Pids : blocked[q] => pc'[q] = pc[q]
    PROVE  UNCHANGED Boxes!vars
<1>1. Mail' = Mail
  BY DEF Mail
<1>2. Sleeping' = Sleeping
  BY DEF Sleeping
<1> QED BY <1>1, <1>2 DEF Mail, Boxes!vars

LEMMA MailboxDeposit ==
    ASSUME TypeOK, NEW p \in Pids, ~blocked[p],
           NEW d \in Pids, NEW m, Deposit(d, m),
           \A q \in Pids : q # p => pc'[q] = pc[q]
    PROVE  Boxes!Deposit(p, d)
<1> USE PidFact
<1>1. Sleeping[p] = "no"
  BY DEF Sleeping
<1>2. \A q \in Pids : recvbuf[q] \in RingType(Message)
  BY DEF TypeOK
<1>3. message_push(recvbuf[d], m).count =
          IF recvbuf[d].count < MSG_MAXCOUNT THEN recvbuf[d].count + 1 ELSE recvbuf[d].count
  BY <1>2 DEF message_push, RingType
<1>4. recvbuf' = [recvbuf EXCEPT ![d] = message_push(recvbuf[d], m)]
  BY DEF Deposit
<1>5. Mail' = [Mail EXCEPT ![d] = IF Mail[d] < MSG_MAXCOUNT THEN Mail[d] + 1 ELSE Mail[d]]
  BY <1>3, <1>4 DEF Mail, TypeOK
<1>6. \A q \in Pids : q # d => blocked'[q] = blocked[q]
  BY DEF Deposit, user_awake, TypeOK
<1>7. ~blocked'[d]
  BY DEF Deposit, user_awake, TypeOK
<1>8. Sleeping' = [Sleeping EXCEPT ![d] = "no"]
  <2>1. Sleeping'[d] = "no"
    BY <1>7 DEF Sleeping
  <2>2. \A q \in Pids : q # d => Sleeping'[q] = Sleeping[q]
    BY <1>6 DEF Sleeping
  <2> QED BY <2>1, <2>2 DEF Sleeping
<1> QED BY <1>1, <1>5, <1>8 DEF Mail, Boxes!Deposit

LEMMA MailboxTake ==
    ASSUME TypeOK, NEW p \in Pids, ~blocked[p], NEW polling, Take(p, polling)
    PROVE  Boxes!Take(p) \/ UNCHANGED Boxes!vars
<1> USE PidFact
<1>1. /\ blocked' = blocked
      /\ recvbuf' = [recvbuf EXCEPT ![p] = AfterPop(recvbuf[p])]
      /\ pc' = [pc EXCEPT ![p] = "user"]
  BY DEF Take, Goto
<1>2. \A q \in Pids : blocked[q] => pc'[q] = pc[q]
  BY <1>1 DEF TypeOK
<1>3. recvbuf[p] \in RingType(Message) /\ recvbuf[p].count \in 0 .. MSG_MAXCOUNT
  BY DEF TypeOK, RingType
<1>4. CASE recvbuf[p].count = 0
  <2>1. AfterPop(recvbuf[p]) = recvbuf[p]
    BY <1>4 DEF AfterPop
  <2>2. \A q \in Pids : recvbuf'[q].count = recvbuf[q].count
    BY <2>1, <1>1 DEF TypeOK
  <2> QED BY <2>2, <1>1, <1>2, MailboxQuiet
<1>5. CASE recvbuf[p].count # 0
  <2>1. AfterPop(recvbuf[p]).count = recvbuf[p].count - 1
    BY <1>3, <1>5 DEF AfterPop, RingType
  <2>2. Mail' = [Mail EXCEPT ![p] = Mail[p] - 1]
    BY <2>1, <1>1 DEF Mail, TypeOK
  <2>3. Mail[p] > 0 /\ Sleeping[p] = "no"
    BY <1>3, <1>5, MaxCountAssumption DEF Mail, Sleeping
  <2>4. Sleeping' = Sleeping
    BY <1>1, <1>2 DEF Sleeping
  <2> QED BY <2>2, <2>3, <2>4 DEF Mail, Boxes!Take
<1> QED BY <1>4, <1>5

LEMMA MailboxStep == IInv /\ [Next]_vars => [Boxes!Next]_(Boxes!vars)
<1> USE PidFact
<1> SUFFICES ASSUME IInv, [Next]_vars PROVE Boxes!Next \/ UNCHANGED Boxes!vars
  BY Zenon
<1>0. TypeOK /\ SchedInv /\ WaitInv /\ Current \in Task
  BY CurrentFact DEF IInv, SchedInv
<1>1. CASE Timer \/ TimerIgnored \/ Halted \/ UNCHANGED vars
  <2>1. UNCHANGED <<recvbuf, blocked, pc>>
    BY <1>1 DEF Timer, TimerIgnored, Halted, vars, schedVars, mailVars, ringVars
  <2> QED BY <2>1, MailboxQuiet
<1>2. ASSUME NEW t \in Task, SpawnStep(t) PROVE UNCHANGED Boxes!vars
  <2>1. t = Current /\ ~blocked[t]
    BY <1>0, <1>2 DEF SpawnStep, SpawnEnter, Creator, NewTaskLock, NewTaskPush, SpawnLink, SpawnUnlock,
                      SpawnEnable, Running, WaitInv
  <2>2. UNCHANGED <<blocked, recvbuf>>
    BY <1>2 DEF SpawnStep, SpawnEnter, Creator, NewTaskLock, NewTaskPush, SpawnLink, SpawnUnlock,
                SpawnEnable, schedVars, mailVars, ringVars
  <2>3. \A q \in Pids : blocked[q] => pc'[q] = pc[q]
    <3>1. CASE NewTaskPush(t) \/ SpawnLink(t)
      <4>1. utsk[t] \in Task /\ pc[utsk[t]] \in {"none", "new"}
        BY <3>1, <1>0 DEF SchedInv, ChildInv, NewTaskPush, SpawnLink, Running, SpawnPcs
      <4>2. ~blocked[utsk[t]]
        BY <4>1, <1>0 DEF WaitInv
      <4>3. PICK u, w \in {"link", "new", "unlock", "start"} :
                pc' = [pc EXCEPT ![t] = u, ![utsk[t]] = w]
        BY <3>1 DEF NewTaskPush, SpawnLink
      <4>4. \A x \in Task : x # t /\ x # utsk[t] => pc'[x] = pc[x]
        BY <4>1, <4>3, <1>0 DEF TypeOK
      <4> QED BY <4>2, <4>4, <2>1
    <3>2. CASE ~(NewTaskPush(t) \/ SpawnLink(t))
      BY <3>2, <1>2, <2>1, <1>0 DEF SpawnStep, SpawnEnter, Creator, NewTaskLock, SpawnUnlock,
                                    SpawnEnable, Goto, TypeOK
    <3> QED BY <3>1, <3>2
  <2> QED BY <2>2, <2>3, MailboxQuiet
<1>3. ASSUME NEW p \in Pids, NEW at, Running(p, at) PROVE ~blocked[p]
  BY <1>0, <1>3 DEF Running, WaitInv
<1>4. ASSUME NEW p \in Pids, Start(p) PROVE UNCHANGED Boxes!vars
  <2>1. ~blocked[p] /\ UNCHANGED <<blocked, recvbuf>> /\ pc' = [pc EXCEPT ![p] = "user"]
    BY <1>3, <1>4 DEF Start, Goto, mailVars, ringVars
  <2>2. \A q \in Pids : blocked[q] => pc'[q] = pc[q]
    BY <2>1, <1>0 DEF TypeOK
  <2> QED BY <2>1, <2>2, MailboxQuiet
<1>5. ASSUME NEW p \in Pids, SendResume(p) PROVE Boxes!Next
  <2>1. PICK d \in Pids : d = kmsg[p].dst
    BY <1>0 DEF TypeOK
  <2>2. \A q \in Pids : q # p => pc'[q] = pc[q]
    BY <1>0, <1>5 DEF SendResume, Goto, TypeOK
  <2>3. Deposit(d, kmsg[p].msg) /\ ~blocked[p]
    BY <2>1, <1>3, <1>5 DEF SendResume
  <2>4. Boxes!Deposit(p, d)
    BY <2>2, <2>3, <1>0, MailboxDeposit
  <2> QED BY <2>4 DEF Boxes!Next
<1>6. ASSUME NEW p \in Pids, NEW d \in Pids, MsgSend(p, d) PROVE Boxes!Next
  <2>1. Boxes!Deposit(p, d)
    BY <1>0, <1>3, <1>6, MailboxDeposit DEF MsgSend
  <2> QED BY <2>1 DEF Boxes!Next
<1>7. ASSUME NEW p \in Pids, RecvResume(p) \/ MsgRecv(p) \/ MsgPoll(p)
      PROVE  Boxes!Next \/ UNCHANGED Boxes!vars
  <2>1. Boxes!Take(p) \/ UNCHANGED Boxes!vars
    BY <1>0, <1>3, <1>7, MailboxTake DEF RecvResume, MsgRecv, MsgPoll
  <2> QED BY <2>1 DEF Boxes!Next
<1>8. ASSUME NEW p \in Pids, NEW w \in {"recvwait", "sendwait"},
             Running(p, "user"),
             blocked' = [blocked EXCEPT ![p] = TRUE],
             pc' = [pc EXCEPT ![p] = w]
      PROVE  /\ Sleeping[p] = "no"
             /\ Sleeping' = [Sleeping EXCEPT ![p] = IF w = "recvwait" THEN "mail" ELSE "room"]
  <2>1. ~blocked[p]
    BY <1>3, <1>8
  <2>2. /\ \A q \in Pids : q # p => blocked'[q] = blocked[q] /\ pc'[q] = pc[q]
        /\ blocked'[p] /\ pc'[p] = w
    BY <1>0, <1>8 DEF TypeOK
  <2> QED BY <2>1, <2>2 DEF Sleeping
<1>9. ASSUME NEW p \in Pids, MsgRecvBlock(p) PROVE Boxes!Next
  <2>1. Sleeping[p] = "no" /\ Sleeping' = [Sleeping EXCEPT ![p] = "mail"]
    BY <1>8, <1>9 DEF MsgRecvBlock, user_block, Goto
  <2>2. Mail' = Mail /\ Mail[p] = 0
    BY <1>9 DEF MsgRecvBlock, user_block, mailVars, ringVars, Mail
  <2>3. Boxes!WaitForMail(p)
    BY <2>1, <2>2 DEF Mail, Boxes!WaitForMail
  <2> QED BY <2>3 DEF Boxes!Next
<1>10. ASSUME NEW p \in Pids, NEW d \in Pids, MsgSendBlock(p, d) PROVE Boxes!Next
  <2>1. Sleeping[p] = "no" /\ Sleeping' = [Sleeping EXCEPT ![p] = "room"]
    BY <1>8, <1>10 DEF MsgSendBlock, user_block, Goto
  <2>2. recvbuf[d].count = MSG_MAXCOUNT
    BY <1>0, <1>10, MaxCountAssumption, SMTT(30) DEF MsgSendBlock, user_block, TypeOK, RingType
  <2>3. Mail' = Mail /\ Mail[d] = MSG_MAXCOUNT
    BY <2>2, <1>10 DEF MsgSendBlock, user_block, ringVars, Mail
  <2>4. Boxes!WaitForRoom(p, d)
    BY <2>1, <2>3 DEF Mail, Boxes!WaitForRoom
  <2> QED BY <2>4 DEF Boxes!Next
<1>11. ASSUME NEW p \in Pids, NEW d \in Pids, MsgSendNobody(p, d) PROVE UNCHANGED Boxes!vars
  BY <1>11, MailboxQuiet DEF MsgSendNobody, schedVars, ringVars
<1> QED
  BY <1>1, <1>2, <1>4, <1>5, <1>6, <1>7, <1>9, <1>10, <1>11 DEF Next, UserStep

\* message_async_send, message_async_recv and message_async_recv_poll, under
\* any scheduling and with processes being created, look like the atomic
\* deposits, takes and sleeps of Mailbox.
THEOREM IpcImplementsMailbox == Spec => ImplementsMailbox
BY Invariance, MailboxInit, MailboxStep, PTL DEF Spec, ImplementsMailbox, Boxes!Spec

-----------------------------------------------------------------------------
(* Each ring is a MessageRing.                                             *)

\* A ring that has not had every message had fewer than MAXMSGS pushes.
LEMMA Room ==
    ASSUME TypeOK, OnceInv, NEW d \in Pids, NEW m \in Message,
           \A i \in 1 .. Len(pushed[d]) : pushed[d][i] # m
    PROVE  Len(pushed[d]) < MAXMSGS
<1> DEFINE s == pushed[d]
           n == Len(s)
           T == Message \ {m}
<1>1. s \in Seq(Message) /\ n \in Nat
  BY DEF TypeOK
<1>2. \A i \in 1 .. n : s[i] \in T
  BY <1>1, AppendElement
<1>3. \A i, j \in 1 .. n : s[i] = s[j] => i = j
  BY DEF OnceInv
<1> HIDE DEF s
<1> DEFINE f == [i \in 1 .. n |-> s[i]]
<1>4. f \in Injection(1 .. n, T)
  BY <1>2, <1>3 DEF Injection, IsInjective
<1>5. IsFiniteSet(Message) /\ Cardinality(Message) = MAXMSGS
  <2>1. 1 \in Int /\ MAXMSGS \in Int /\ MAXMSGS \in Nat
    BY MaxMsgsAssumption
  <2>2. IsFiniteSet(1 .. MAXMSGS) /\ Cardinality(1 .. MAXMSGS) = IF 1 > MAXMSGS THEN 0 ELSE MAXMSGS - 1 + 1
    BY <2>1, FS_Interval
  <2> QED BY <2>1, <2>2 DEF Message
<1>6. IsFiniteSet(T) /\ Cardinality(T) = MAXMSGS - 1
  BY <1>5, FS_RemoveElement
<1>7. Cardinality(1 .. n) <= Cardinality(T)
  BY <1>4, <1>6, FS_Injection
<1>8. Cardinality(1 .. n) = n
  <2>1. 1 \in Int /\ n \in Int
    BY <1>1
  <2>2. Cardinality(1 .. n) = IF 1 > n THEN 0 ELSE n - 1 + 1
    BY <2>1, FS_Interval
  <2> QED BY <1>1, <2>2
<1> HIDE DEF n, T
<1>9. n < MAXMSGS
  BY <1>1, <1>6, <1>7, <1>8, MaxMsgsAssumption
<1> QED BY <1>9 DEF n, s

\* The operations of the instance are those of the kernel.
LEMMA RingOps ==
    ASSUME NEW p, NEW b
    PROVE  /\ Ring(p)!EmptyBuffer = EmptyBuffer
           /\ Ring(p)!Popped(b) = Popped(b) /\ Ring(p)!AfterPop(b) = AfterPop(b)
           /\ \A m : Ring(p)!message_push(b, m) = message_push(b, m)
<1>1. Ring(p)!EmptyBuffer = EmptyBuffer
  BY DEF Ring!EmptyBuffer, EmptyBuffer, Ring!Slots, Slots
<1>2. Ring(p)!Popped(b) = Popped(b)
  BY DEF Ring!Popped, Popped, Ring!ReadSlot, ReadSlot, Ring!Slots, Slots
<1>3. Ring(p)!AfterPop(b) = AfterPop(b)
  BY DEF Ring!AfterPop, AfterPop, Ring!NextHead, NextHead
<1>4. \A m : Ring(p)!message_push(b, m) = message_push(b, m)
  BY DEF Ring!message_push, message_push
<1> QED BY <1>1, <1>2, <1>3, <1>4

\* Rings start empty.
LEMMA RingsInit == Init => \A p \in Pids : Ring(p)!Init
  BY RingOps DEF Init, Ring!Init

\* A ring whose variables stay stutters.
LEMMA RingQuiet ==
    ASSUME NEW p \in Pids, UNCHANGED <<recvbuf[p], pushed[p], popped[p], overrun[p]>>
    PROVE  [Ring(p)!Next]_(Ring(p)!vars)
  BY DEF Ring!vars

\* A deposit is a push on one ring.
LEMMA RingsDeposit ==
    ASSUME TypeOK, OnceInv, NEW d \in Pids, NEW m \in Message, Deposit(d, m),
           \A i \in 1 .. Len(pushed[d]) : pushed[d][i] # m, NEW p \in Pids
    PROVE  [Ring(p)!Next]_(Ring(p)!vars)
<1>1. CASE p # d
  <2>1. UNCHANGED <<recvbuf[p], pushed[p], popped[p], overrun[p]>>
    BY <1>1 DEF Deposit, TypeOK
  <2> QED BY <2>1, RingQuiet
<1>2. CASE p = d
  <2>1. /\ recvbuf'[p] = message_push(recvbuf[p], m) /\ pushed'[p] = Append(pushed[p], m)
        /\ overrun'[p] = (overrun[p] \/ recvbuf[p].count = MSG_MAXCOUNT)
        /\ popped'[p] = popped[p]
    BY <1>2 DEF Deposit, TypeOK
  <2>2. Ring(p)!Push(m)
    <3>1. Ring(p)!message_push(recvbuf[p], m) = message_push(recvbuf[p], m)
      BY RingOps
    <3> QED BY <2>1, <3>1, Zenon DEF Ring!Push
  <2>3. Len(pushed[p]) < MAXMSGS
    BY <1>2, Room
  <2> QED BY <2>2, <2>3 DEF Ring!Next, Ring!BoundedPush
<1> QED BY <1>1, <1>2

\* A pop on one ring.
LEMMA RingsTake ==
    ASSUME TypeOK, NEW q \in Pids, NEW polling, Take(q, polling), NEW p \in Pids
    PROVE  [Ring(p)!Next]_(Ring(p)!vars)
<1>1. PICK m \in Popped(recvbuf[q]) :
          /\ recvbuf' = [recvbuf EXCEPT ![q] = AfterPop(@)]
          /\ popped' = [popped EXCEPT ![q] = IF recvbuf[q].count = 0 THEN @ ELSE Append(@, m)]
          /\ UNCHANGED <<pushed, overrun>>
  BY DEF Take
<1>2. CASE p # q \/ recvbuf[q].count = 0
  <2>1. UNCHANGED <<recvbuf[p], pushed[p], popped[p], overrun[p]>>
    BY <1>1, <1>2 DEF TypeOK, AfterPop
  <2> QED BY <2>1, RingQuiet
<1>3. CASE p = q /\ recvbuf[q].count # 0
  <2>1. /\ recvbuf'[p] = AfterPop(recvbuf[p]) /\ popped'[p] = Append(popped[p], m)
        /\ UNCHANGED <<pushed[p], overrun[p]>>
    BY <1>1, <1>3 DEF TypeOK
  <2>2. Ring(p)!Pop
    BY <1>3, <2>1, RingOps DEF Ring!Pop
  <2> QED BY <2>2 DEF Ring!Next
<1> QED BY <1>2, <1>3

\* Every step of the kernel is a push or a pop on one ring, or leaves it alone.
LEMMA RingsStep ==
    ASSUME IInv, OnceInv, [Next]_vars, NEW r \in Pids
    PROVE  [Ring(r)!Next]_(Ring(r)!vars)
<1>0. TypeOK /\ WaitInv
  BY DEF IInv
<1>1. ASSUME UNCHANGED ringVars PROVE [Ring(r)!Next]_(Ring(r)!vars)
  BY <1>1, RingQuiet DEF ringVars
<1>2. CASE Timer \/ TimerIgnored \/ Halted \/ UNCHANGED vars
  BY <1>1, <1>2 DEF Timer, TimerIgnored, Halted, vars, mailVars
<1>3. ASSUME NEW t \in Task, SpawnStep(t) PROVE [Ring(r)!Next]_(Ring(r)!vars)
  BY <1>1, <1>3 DEF SpawnStep, SpawnEnter, NewTaskLock, NewTaskPush, SpawnLink, SpawnUnlock,
                    SpawnEnable, mailVars
<1>4. ASSUME NEW p \in Pids, Start(p) \/ MsgRecvBlock(p) PROVE [Ring(r)!Next]_(Ring(r)!vars)
  BY <1>1, <1>4 DEF Start, MsgRecvBlock, mailVars
<1>5. ASSUME NEW p \in Pids, NEW d \in Pids, MsgSendNobody(p, d) \/ MsgSendBlock(p, d)
      PROVE  [Ring(r)!Next]_(Ring(r)!vars)
  BY <1>1, <1>5 DEF MsgSendNobody, MsgSendBlock
<1>6. ASSUME NEW p \in Pids, RecvResume(p) \/ MsgRecv(p) \/ MsgPoll(p)
      PROVE  [Ring(r)!Next]_(Ring(r)!vars)
  BY <1>0, <1>6, RingsTake DEF RecvResume, MsgRecv, MsgPoll
<1>7. ASSUME NEW p \in Pids, NEW d \in Pids, MsgSend(p, d) PROVE [Ring(r)!Next]_(Ring(r)!vars)
  <2>0. nsent < MAXMSGS
    BY <1>7 DEF MsgSend
  <2>1. nsent + 1 \in Message
    BY <1>0, <2>0, MessageFact
  <2>2. \A i \in 1 .. Len(pushed[d]) : pushed[d][i] # nsent + 1
    <3>1. nsent \in Nat
      BY <1>0, MaxMsgsAssumption DEF TypeOK
    <3> QED BY <3>1 DEF OnceInv
  <2> QED BY <1>0, <1>7, <2>1, <2>2, RingsDeposit DEF MsgSend
<1>8. ASSUME NEW p \in Pids, SendResume(p) PROVE [Ring(r)!Next]_(Ring(r)!vars)
  <2>1. pc[p] = "sendwait" /\ kmsg[p].msg \in Message /\ kmsg[p].dst \in Pids
    BY <1>0, <1>8 DEF WaitInv, SendResume, Running, TypeOK
  <2>2. \A i \in 1 .. Len(pushed[kmsg[p].dst]) : pushed[kmsg[p].dst][i] # kmsg[p].msg
    BY <2>1 DEF OnceInv
  <2> QED BY <1>0, <1>8, <2>1, <2>2, RingsDeposit DEF SendResume
<1> QED BY <1>2, <1>3, <1>4, <1>5, <1>6, <1>7, <1>8 DEF Next, UserStep

\* Whoever sends and receives, and whenever the scheduler lets them, the ring of
\* each process goes through the pushes and pops of MessageRing only, so what is
\* proved of one ring holds of every process.
THEOREM IpcImplementsRings == Spec => ImplementsRings
<1> DEFINE A == \A p \in Pids : [Ring(p)!Next]_(Ring(p)!vars)
<1>1. Init => \A p \in Pids : Ring(p)!Init
  BY RingsInit
<1>2. IInv /\ OnceInv /\ [Next]_vars => [A]_vars
  BY RingsStep
<1> QED BY OnceInvariance, <1>1, <1>2, PTL DEF Spec, ImplementsRings

=============================================================================
