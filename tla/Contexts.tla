------------------------------ MODULE Contexts ------------------------------
(***************************************************************************)
(* What belongs to a task and changes hands with it: its page directory,   *)
(* its kernel stack and its map of I/O ports; and the bodies of messages,  *)
(* which move from one address space to another.                           *)
(*                                                                         *)
(* A body is a block of the kernel heap whose frames are mapped at one     *)
(* fixed address of whoever has the message.  Of an address space only the *)
(* pages from that address on are modelled, without their flags.  Which    *)
(* task runs next, waiting for messages and full rings are module Ipc's:   *)
(* here any other task may be next.  Programs are the environment: a       *)
(* program gives up a message it sends or releases, and sends no more of   *)
(* it than it has.                                                         *)
(***************************************************************************)
EXTENDS Naturals, Sequences, FiniteSets

CONSTANTS
    MaxTask,    \* bound: tasks besides the bootstrap task, which is 0
    Body,       \* bound: blocks of the heap that hold bodies
    PAGE,       \* size of a page
    MSG_MAXSZ,  \* 0xFF000, a number of whole pages
    Size,       \* sizes a program asks for
    MAXPORT,    \* 0xFF
    NONE,       \* a null pointer
    ALIEN       \* a frame that is no body, such as a copy of a page

ASSUME ContextsAssumption ==
    /\ PAGE \in Nat \ {0} /\ MSG_MAXSZ \in Nat \ {0} /\ MSG_MAXSZ % PAGE = 0
    /\ Size \subseteq Nat \ {0} /\ MaxTask \in Nat /\ MAXPORT \in Nat
    /\ NONE \notin Body /\ ALIEN \notin Body /\ NONE # ALIEN

Task  == 0 .. MaxTask
Port  == 0 .. MAXPORT
Pages(size) == (size + PAGE - 1) \div PAGE
Index == 0 .. Pages(MSG_MAXSZ) - 1
Message == [kdat : Body, msgsz : 1 .. MSG_MAXSZ]

\* A null pointer is no map of ports.
ASSUME NoMapAssumption == \A s \in SUBSET Port : s # NONE

VARIABLES
    alive,      \* tasks created so far
    current,    \* current_task
    cr3,        \* currentDirectory, the task it belongs to
    tss,        \* kernel stack and open ports in the task state segment
    iobm,       \* per task, its ports open for it, NONE before its first turn
    pages,      \* per task, the body each page from 0x1000 on shows
    tabled,     \* tasks whose directory has a table for these pages
    heap,       \* bodies allocated
    mine,       \* per task, the messages its program has
    mail,       \* per task, the messages sent to it and not received
    \* History.
    lost,       \* messages sent to nobody
    old,        \* pages that show what a body was before it was freed
    stray,      \* pages that show what the frame of their table held before
    last,       \* per task, the body it obtained last, NONE after a send
    asked,      \* per task, the ports it was ever granted
    changed     \* the running task has changed its ports in this turn

ports == <<iobm, asked, changed>>
turn  == <<alive, current, cr3, tss>>
space == <<pages, tabled>>
hist  == <<lost, old, stray, last>>
vars  == <<turn, ports, space, heap, mine, mail, hist>>

\* add_tss closes all ports; the bootstrap task has run without a turn, and
\* paging_init has taken the table for these pages from its directory.
Init ==
    /\ alive = {0} /\ current = 0 /\ cr3 = 0
    /\ tss = [esp0 |-> NONE, open |-> {}]
    /\ iobm = [t \in Task |-> NONE]
    /\ pages = [t \in Task |-> [i \in Index |-> NONE]] /\ tabled = {}
    /\ heap = {}
    /\ mine = [t \in Task |-> {}]
    /\ mail = [t \in Task |-> <<>>]
    /\ lost = {} /\ old = {} /\ stray = {}
    /\ last = [t \in Task |-> NONE]
    /\ asked = [t \in Task |-> {}]
    /\ changed = FALSE

-----------------------------------------------------------------------------
(* Tasks.                                                                  *)

swpdir(t) == cr3' = t

\* update_kstack and update_iobm.
update_tss(esp, bm) == [esp0 |-> esp, open |-> bm]

\* Mutant: a task without a map is given one only when it asks for ports.
Bug_task_switch(t) ==
    /\ t \in alive \ {current}
    /\ current' = t
    /\ swpdir(t)
    /\ iobm' = [iobm EXCEPT ![t] = IF @ = NONE THEN {} ELSE @]
    /\ tss' = update_tss(t, IF iobm[t] = NONE THEN tss.open ELSE iobm[t])
    /\ changed' = FALSE
    /\ UNCHANGED <<alive, asked, space, heap, mine, mail, hist>>

\* task_switch to t; a task has a map of ports from its first turn on.
task_switch(t) ==
    /\ t \in alive \ {current}
    /\ current' = t
    /\ swpdir(t)
    /\ iobm' = [iobm EXCEPT ![t] = IF @ = NONE THEN {} ELSE @]
    /\ tss' = update_tss(t, iobm'[t])
    /\ changed' = FALSE
    /\ UNCHANGED <<alive, asked, space, heap, mine, mail, hist>>

\* clonedir and clonetbl.  What the parent has mapped the child gets a copy of.  The
\* other entries of the table are not written, and its frame is not cleared: there
\* the child may see nothing or any frame, bodies included.  (Where what was left
\* there is neither 0 nor present, cloning the child in turn panics; that is left out.)
clonedir ==
    {dir \in [Index -> Body \cup {NONE, ALIEN}] :
        \A i \in Index : /\ pages[cr3][i] # NONE => dir[i] = ALIEN
                        /\ cr3 \notin tabled => dir[i] = NONE}

\* task_newtask under user_spawn and user_fork.  The child has no map of ports; the
\* messages of the program stay its own.
task_newtask ==
    LET t == Cardinality(alive) IN
    /\ t \in Task
    /\ current = 0 => t = 1
    /\ alive' = alive \cup {t}
    /\ \E dir \in clonedir :
          /\ pages' = [pages EXCEPT ![t] = dir]
          /\ stray' = stray \cup {<<t, i>> : i \in {j \in Index : dir[j] \in Body}}
    /\ tabled' = IF cr3 \in tabled THEN tabled \cup {t} ELSE tabled
    /\ UNCHANGED <<current, cr3, tss, ports, heap, mine, mail, lost, old, last>>

-----------------------------------------------------------------------------
(* Ports.  The permission tested is never missing: init_init gives the     *)
(* first process all of them and every call passes on the caller's.        *)

PortRange(base, len) == base .. base + len - 1

syscall_reqio(base, len) ==
    /\ current # 0 /\ base + len <= MAXPORT
    /\ iobm' = [iobm EXCEPT ![current] = @ \cup PortRange(base, len)]
    /\ asked' = [asked EXCEPT ![current] = @ \cup PortRange(base, len)]
    /\ changed' = TRUE
    /\ UNCHANGED <<turn, space, heap, mine, mail, hist>>

syscall_blkio(base, len) ==
    /\ current # 0 /\ base + len <= MAXPORT
    /\ iobm' = [iobm EXCEPT ![current] = @ \ PortRange(base, len)]
    /\ changed' = TRUE
    /\ UNCHANGED <<turn, asked, space, heap, mine, mail, hist>>

-----------------------------------------------------------------------------
(* Bodies of messages.                                                     *)

\* Mutant: the last page is left out unless it is full.
Bug_remappg(to, size) ==
    /\ pages' = [pages EXCEPT ![cr3] = [i \in Index |-> IF i < size \div PAGE THEN to ELSE @[i]]]
    /\ tabled' = tabled \cup {cr3}
    /\ old' = old \ {<<cr3, i>> : i \in 0 .. Pages(size) - 1}
    /\ stray' = stray \ {<<cr3, i>> : i \in 0 .. Pages(size) - 1}

\* The loops over remappg: the pages a size takes show body to, or nothing.  A table
\* that remappg makes is cleared.
remappg(to, size) ==
    /\ pages' = [pages EXCEPT ![cr3] = [i \in Index |-> IF i < Pages(size) THEN to ELSE @[i]]]
    /\ tabled' = tabled \cup {cr3}
    /\ old' = old \ {<<cr3, i>> : i \in 0 .. Pages(size) - 1}
    /\ stray' = stray \ {<<cr3, i>> : i \in 0 .. Pages(size) - 1}

\* message_prepare and syscall_msg_req; msgsz is the size asked for.
syscall_msg_req(bufsz) ==
    /\ current # 0 /\ bufsz <= MSG_MAXSZ
    /\ \E kdat \in Body \ heap :
          /\ heap' = heap \cup {kdat}
          /\ mine' = [mine EXCEPT ![current] = @ \cup {[kdat |-> kdat, msgsz |-> bufsz]}]
          /\ remappg(kdat, bufsz)
          /\ last' = [last EXCEPT ![current] = kdat]
    /\ UNCHANGED <<turn, ports, mail, lost>>

\* message_release and syscall_msg_free: the mapping stays.
syscall_msg_free(msg) ==
    /\ heap' = heap \ {msg.kdat}
    /\ mine' = [mine EXCEPT ![current] = @ \ {msg}]
    /\ old' = old \cup {p \in alive \X Index : pages[p[1]][p[2]] = msg.kdat}
    /\ last' = [last EXCEPT ![current] = IF @ = msg.kdat THEN NONE ELSE @]
    /\ UNCHANGED <<turn, ports, space, mail, lost, stray>>

\* The test of syscall_msg_send.
Accepted(msgsz) == msgsz < MSG_MAXSZ

\* Mutant: nothing is unmapped.
Bug_syscall_msg_send(msg, msgsz, pid) ==
    /\ Accepted(msgsz) /\ msgsz <= msg.msgsz
    /\ mine' = [mine EXCEPT ![current] = @ \ {msg}]
    /\ IF pid \in alive
       THEN mail' = [mail EXCEPT ![pid] = Append(@, [msg EXCEPT !.msgsz = msgsz])] /\ UNCHANGED lost
       ELSE lost' = lost \cup {[msg EXCEPT !.msgsz = msgsz]} /\ UNCHANGED mail
    /\ last' = [last EXCEPT ![current] = NONE]
    /\ UNCHANGED <<turn, ports, space, old, stray, heap>>

\* syscall_msg_send with message_async_send: what is mapped at the fixed address is
\* unmapped, be it this body or one obtained since.  Nobody tells the program that
\* there is no such process.
syscall_msg_send(msg, msgsz, pid) ==
    /\ Accepted(msgsz) /\ msgsz <= msg.msgsz
    /\ mine' = [mine EXCEPT ![current] = @ \ {msg}]
    /\ remappg(NONE, msgsz)
    /\ IF pid \in alive
       THEN mail' = [mail EXCEPT ![pid] = Append(@, [msg EXCEPT !.msgsz = msgsz])] /\ UNCHANGED lost
       ELSE lost' = lost \cup {[msg EXCEPT !.msgsz = msgsz]} /\ UNCHANGED mail
    /\ last' = [last EXCEPT ![current] = NONE]
    /\ UNCHANGED <<turn, ports, heap>>

\* Mutant: the body is freed with the kernel's copy of the message.
Bug_syscall_msg_recv ==
    /\ mail[current] # <<>>
    /\ LET kmsg == Head(mail[current]) IN
          /\ remappg(kmsg.kdat, kmsg.msgsz)
          /\ mine' = [mine EXCEPT ![current] = @ \cup {kmsg}]
          /\ last' = [last EXCEPT ![current] = kmsg.kdat]
          /\ heap' = heap \ {kmsg.kdat}
    /\ mail' = [mail EXCEPT ![current] = Tail(@)]
    /\ UNCHANGED <<turn, ports, lost>>

\* syscall_msg_recv and syscall_msg_poll with a message there.
syscall_msg_recv ==
    /\ mail[current] # <<>>
    /\ LET kmsg == Head(mail[current]) IN
          /\ remappg(kmsg.kdat, kmsg.msgsz)
          /\ mine' = [mine EXCEPT ![current] = @ \cup {kmsg}]
          /\ last' = [last EXCEPT ![current] = kmsg.kdat]
    /\ mail' = [mail EXCEPT ![current] = Tail(@)]
    /\ UNCHANGED <<turn, ports, heap, lost>>

-----------------------------------------------------------------------------
Next ==
    \/ \E t \in Task : task_switch(t)
    \/ task_newtask
    \/ \E base, len \in Port : syscall_reqio(base, len) \/ syscall_blkio(base, len)
    \/ \E bufsz \in Size : syscall_msg_req(bufsz)
    \/ \E msg \in mine[current] :
          \/ syscall_msg_free(msg)
          \/ \E msgsz \in Size, pid \in Task \ {0} : syscall_msg_send(msg, msgsz, pid)
    \/ syscall_msg_recv

Spec == Init /\ [][Next]_vars

-----------------------------------------------------------------------------
(* Properties.                                                             *)

\* Type invariant; the kernel accepts no message of MSG_MAXSZ or more.
TypeOK ==
    /\ alive \subseteq Task /\ current \in alive /\ cr3 \in alive
    /\ tss.esp0 \in alive \cup {NONE} /\ tss.open \subseteq Port
    /\ \A t \in Task : iobm[t] = NONE \/ iobm[t] \subseteq Port
    /\ pages \in [Task -> [Index -> Body \cup {NONE, ALIEN}]] /\ tabled \subseteq alive
    /\ heap \subseteq Body /\ lost \subseteq Message
    /\ \A t \in Task :
          /\ mine[t] \subseteq Message
          /\ \A k \in DOMAIN mail[t] : mail[t][k] \in Message /\ mail[t][k].msgsz < MSG_MAXSZ

\* A task runs in its own directory, on its own kernel stack once it has had a turn,
\* and the processor lets it use no port it was never granted: its map may lag behind
\* its reqio and blkio of this turn, but is never that of a task before it.
RunsAsItself ==
    /\ cr3 = current
    /\ tss.esp0 \in {NONE, current}
    /\ tss.open \subseteq asked[current]
    /\ ~changed /\ iobm[current] # NONE => tss.open = iobm[current]

\* The messages that have a body, and the process that may use it, 0 for none.
Placed ==
    {x \in Task \X Message :
        \/ x[2] \in mine[x[1]]
        \/ x[1] = 0 /\ x[2] \in lost
        \/ x[1] = 0 /\ \E t \in Task : \E k \in DOMAIN mail[t] : x[2] = mail[t][k]}

\* Every allocated body has a message, with a program, under way, or sent to nobody,
\* and no two messages have the same: bodies are not handed out again while a
\* message needs them, nor freed under it, by sending, receiving and releasing in any
\* order.  A message sent to nobody keeps its body for good, which NothingLost below
\* is about; what is under way is a queue here, so that what a ring loses when it is
\* overrun is left to Ipc's UnreadSurvives.  And every value has its type.
OneMessagePerBody ==
    /\ TypeOK
    /\ heap = {x[2].kdat : x \in Placed}
    /\ Cardinality(heap) =
          Cardinality(lost) + Cardinality(UNION {{<<t, msg>> : msg \in mine[t]} : t \in Task}) +
          Cardinality(UNION {{<<t, k>> : k \in DOMAIN mail[t]} : t \in Task})

\* What a message says is seen by nobody else: its pages are mapped by its program
\* alone, and by nobody while it is under way, but for two ways, which are violated
\* statements of their own below: a page mapped for a message that was released, and
\* a page in a table whose frame was not cleared, neither mapped anew since.
SeenByOwner ==
    \A x \in Placed : \A t \in alive \ {x[1]} : \A i \in 0 .. Pages(x[2].msgsz) - 1 :
        pages[t][i] = x[2].kdat => <<t, i>> \in old \cup stray

\* The message a program obtained last is mapped in full until the program sends
\* one, whatever else it requests, releases, or creates.
LastIsMapped ==
    \A t \in alive : last[t] # NONE =>
        \E msg \in mine[t] :
            /\ msg.kdat = last[t]
            /\ \A i \in 0 .. Pages(msg.msgsz) - 1 : pages[t][i] = msg.kdat

\* Violated.  task_switch loads "the IOPB" of the task it goes to, and only then: a
\* port is usable when reqio has returned, and not when blkio has.
GrantTakesEffect == iobm[current] # NONE => tss.open = iobm[current]

\* Violated.  syscall_msg_free "Frees a buffer allocated by msg_req": its pages are
\* no longer the program's to read and write.
FreedIsUnmapped == old = {}

\* Violated.  proc.h:46, fork "Duplicates the current execution environment": a child
\* sees no page that its parent does not.
ForkDuplicates == stray = {}

\* Violated.  syscall_msg_send returns "Success" when the message has a receiver.
NothingLost == lost = {}

\* Violated.  Every message a program has is mapped.
HeldIsMapped ==
    \A t \in alive : \A msg \in mine[t] : \A i \in 0 .. Pages(msg.msgsz) - 1 :
        pages[t][i] = msg.kdat

\* Violated.  What can be asked for can be sent.
HeldCanBeSent == \A t \in alive : \A msg \in mine[t] : Accepted(msg.msgsz)
=============================================================================
