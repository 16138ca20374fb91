--------------------------- MODULE ContextsProofs ---------------------------
(***************************************************************************)
(* A task never runs in the address space, on the stack or with the ports  *)
(* of another.  A body has one message, what a message says is seen by     *)
(* nobody but the program that has it, except in a page mapped for a       *)
(* message released since and in a new table that was not cleared, and     *)
(* what a program obtained last it sees.  All for every number of tasks,   *)
(* bodies and ports and all sizes.                                         *)
(***************************************************************************)
EXTENDS Contexts, Integers, FiniteSetTheorems, TLAPS

-----------------------------------------------------------------------------
(* Turns and ports.                                                        *)

\* Every map of ports, also of the tasks that do not run, holds only what its task
\* was granted, and every task but the bootstrap task has one when it runs: without
\* that a switch could bring in a map that is too large, and reqio would set bits
\* through a null pointer.
PortsInv ==
    /\ current \in Task
    /\ iobm \in [Task -> (SUBSET Port) \cup {NONE}]
    /\ asked \in [Task -> SUBSET Port]
    /\ changed \in BOOLEAN
    /\ \A t \in Task : iobm[t] # NONE => iobm[t] \subseteq asked[t]
    /\ current # 0 => iobm[current] # NONE

TurnInv == PortsInv /\ RunsAsItself

\* Ranges that pass the test of reqio and blkio are ports.
LEMMA RangeIsPorts ==
    ASSUME NEW base \in Port, NEW len \in Port, base + len <= MAXPORT
    PROVE  PortRange(base, len) \subseteq Port
BY ContextsAssumption DEF PortRange, Port

\* The system starts in the bootstrap task, in its own directory and with no ports.
LEMMA ContextsInit == Init => TurnInv
<1> SUFFICES ASSUME Init PROVE TurnInv
  OBVIOUS
<1>1. 0 \in Task
  BY ContextsAssumption DEF Task
<1>2. /\ current = 0 /\ cr3 = 0 /\ changed = FALSE
      /\ tss.esp0 = NONE /\ tss.open = {}
      /\ iobm = [t \in Task |-> NONE] /\ asked = [t \in Task |-> {}]
  BY DEF Init
<1>3. PortsInv
  BY <1>1, <1>2 DEF PortsInv
<1>4. RunsAsItself
  BY <1>1, <1>2 DEF RunsAsItself
<1> QED BY <1>3, <1>4 DEF TurnInv

\* A switch brings in the directory, the stack and the map of the task it goes to.
LEMMA SwitchKeeps ==
    ASSUME TurnInv, NEW t \in Task, task_switch(t)
    PROVE  TurnInv'
<1> DEFINE bm == IF iobm[t] = NONE THEN {} ELSE iobm[t]
<1>1. bm \in SUBSET Port /\ bm # NONE /\ bm \subseteq asked[t]
  BY NoMapAssumption DEF TurnInv, PortsInv
<1>2. iobm' = [iobm EXCEPT ![t] = bm] /\ iobm'[t] = bm
  BY DEF TurnInv, PortsInv, task_switch
<1>3. /\ current' = t /\ cr3' = t /\ asked' = asked /\ changed' = FALSE
      /\ tss'.esp0 = t /\ tss'.open = bm
  BY <1>2 DEF task_switch, swpdir, update_tss
<1> HIDE DEF bm
<1>4. PortsInv'
  BY <1>1, <1>2, <1>3 DEF TurnInv, PortsInv
<1>5. RunsAsItself'
  BY <1>1, <1>2, <1>3 DEF TurnInv, PortsInv, RunsAsItself
<1> QED BY <1>4, <1>5 DEF TurnInv

\* A grant or a refusal changes the map of the running task and not the processor.
LEMMA PortsKeep ==
    ASSUME TurnInv, NEW base \in Port, NEW len \in Port,
           syscall_reqio(base, len) \/ syscall_blkio(base, len)
    PROVE  TurnInv'
<1> DEFINE R == PortRange(base, len)
<1>1. R \subseteq Port
  BY RangeIsPorts DEF syscall_reqio, syscall_blkio
<1>2. /\ current # 0 /\ iobm[current] # NONE /\ iobm[current] \subseteq Port
      /\ iobm[current] \subseteq asked[current]
  BY DEF TurnInv, PortsInv, syscall_reqio, syscall_blkio
<1>3. UNCHANGED turn /\ changed' = TRUE
  BY DEF syscall_reqio, syscall_blkio
<1>4. PICK bm \in SUBSET Port, got \in SUBSET Port :
          /\ bm \subseteq got /\ asked[current] \subseteq got
          /\ iobm' = [iobm EXCEPT ![current] = bm]
          /\ asked' = [asked EXCEPT ![current] = got]
  <2>1. CASE syscall_reqio(base, len)
    <3>1. iobm[current] \cup R \in SUBSET Port /\ asked[current] \cup R \in SUBSET Port
      BY <1>1, <1>2 DEF TurnInv, PortsInv
    <3> QED BY <3>1, <2>1, <1>2 DEF syscall_reqio
  <2>2. CASE syscall_blkio(base, len)
    <3>1. iobm[current] \ R \in SUBSET Port /\ asked[current] \in SUBSET Port
      BY <1>1, <1>2 DEF TurnInv, PortsInv
    <3>2. asked' = [asked EXCEPT ![current] = asked[current]]
      BY <2>2 DEF syscall_blkio, TurnInv, PortsInv
    <3> QED BY <3>1, <3>2, <2>2, <1>2 DEF syscall_blkio
  <2> QED BY <2>1, <2>2
<1>5. PortsInv'
  BY <1>2, <1>3, <1>4, NoMapAssumption DEF TurnInv, PortsInv, turn
<1>6. RunsAsItself'
  BY <1>3, <1>4 DEF TurnInv, PortsInv, RunsAsItself, turn
<1> QED BY <1>5, <1>6 DEF TurnInv

\* The calls on messages, the creation of a task and stuttering leave alone what the
\* running task is made of.
LEMMA OthersKeep ==
    ASSUME TurnInv, UNCHANGED <<current, cr3, tss, ports>>
    PROVE  TurnInv'
BY DEF TurnInv, PortsInv, RunsAsItself, ports

\* Every step of the system keeps the invariant.
LEMMA ContextsStep == TurnInv /\ [Next]_vars => TurnInv'
<1> SUFFICES ASSUME TurnInv, [Next]_vars PROVE TurnInv'
  OBVIOUS
<1>1. ASSUME NEW t \in Task, task_switch(t) PROVE TurnInv'
  BY <1>1, SwitchKeeps
<1>2. CASE task_newtask
  BY <1>2, OthersKeep DEF task_newtask
<1>3. ASSUME NEW base \in Port, NEW len \in Port,
             syscall_reqio(base, len) \/ syscall_blkio(base, len)
      PROVE  TurnInv'
  BY <1>3, PortsKeep
<1>4. ASSUME NEW bufsz \in Size, syscall_msg_req(bufsz) PROVE TurnInv'
  BY <1>4, OthersKeep DEF syscall_msg_req, turn
<1>5. ASSUME NEW msg \in mine[current], syscall_msg_free(msg) PROVE TurnInv'
  BY <1>5, OthersKeep DEF syscall_msg_free, turn
<1>6. ASSUME NEW msg \in mine[current], NEW msgsz \in Size, NEW pid \in Task \ {0},
             syscall_msg_send(msg, msgsz, pid)
      PROVE  TurnInv'
  BY <1>6, OthersKeep DEF syscall_msg_send, turn
<1>7. CASE syscall_msg_recv
  BY <1>7, OthersKeep DEF syscall_msg_recv, turn
<1>8. CASE UNCHANGED vars
  BY <1>8, OthersKeep DEF vars, turn
<1> QED BY <1>1, <1>2, <1>3, <1>4, <1>5, <1>6, <1>7, <1>8 DEF Next

\* task_switch, reqio and blkio keep every task in its own directory, on its own
\* kernel stack and away from ports it was never granted.
THEOREM ContextsRunAsThemselves == Spec => []RunsAsItself
<1>1. TurnInv => RunsAsItself
  BY DEF TurnInv
<1> QED BY <1>1, ContextsInit, ContextsStep, PTL DEF Spec

-----------------------------------------------------------------------------
(* Sizes and pages.                                                        *)

\* The next multiple is a whole divisor away.
LEMMA NextMultiple ==
    ASSUME NEW p \in Nat \ {0}, NEW q \in Int, NEW r \in Int, q < r
    PROVE  p * q + p <= p * r
<1>1. p * (r - q - 1) >= 0
  BY SMT
<1> QED BY <1>1, SMT

\* Division is monotone in what is divided.
LEMMA DivMonotone ==
    ASSUME NEW p \in Nat \ {0}, NEW a \in Nat, NEW b \in Nat, a <= b
    PROVE  a \div p <= b \div p
<1>1. a \div p \in Int /\ b \div p \in Int
  OBVIOUS
<1>2. p * (a \div p) <= a
  OBVIOUS
<1>3. b < p * (b \div p) + p
  OBVIOUS
<1> SUFFICES ASSUME b \div p < a \div p PROVE FALSE
  BY <1>1
<1>4. p * (b \div p) + p <= p * (a \div p)
  BY <1>1, NextMultiple
<1>5. p * (b \div p) \in Int /\ p * (a \div p) \in Int
  BY <1>1
<1> QED BY <1>2, <1>3, <1>4, <1>5

\* A message that is cut short takes no more pages than before.
LEMMA PagesMonotone ==
    ASSUME NEW a \in Nat, NEW b \in Nat, a <= b
    PROVE  Pages(a) \in Nat /\ Pages(b) \in Nat /\ Pages(a) <= Pages(b)
BY ContextsAssumption, DivMonotone DEF Pages

\* The pages of a message lie in the window modelled.
LEMMA PagesInWindow ==
    ASSUME NEW size \in 1 .. MSG_MAXSZ
    PROVE  0 .. Pages(size) - 1 \subseteq Index
<1>1. size \in Nat /\ MSG_MAXSZ \in Nat /\ size <= MSG_MAXSZ
  BY ContextsAssumption
<1>2. Pages(size) \in Nat /\ Pages(MSG_MAXSZ) \in Nat /\ Pages(size) <= Pages(MSG_MAXSZ)
  BY <1>1, PagesMonotone
<1> QED BY <1>2 DEF Index

-----------------------------------------------------------------------------
(* The invariant.                                                          *)

BodyTypes ==
    /\ alive \subseteq Task /\ current \in alive /\ cr3 = current
    /\ pages \in [Task -> [Index -> Body \cup {NONE, ALIEN}]] /\ tabled \subseteq alive
    /\ heap \subseteq Body
    /\ mine \in [Task -> SUBSET Message]
    /\ mail \in [Task -> Seq(Message)]
    /\ lost \subseteq Message

\* The bootstrap task, which stands for nobody in Placed, has no messages.
BootInv ==
    /\ 0 \in alive /\ mine[0] = {} /\ mail[0] = <<>>
    /\ \A i \in Index : pages[0][i] \notin Body

\* A body has one message.  Placed is a set, so messages under way are compared by
\* their places in the rings too.
BodyInv ==
    /\ \A x \in Placed : x[2].kdat \in heap
    /\ \A x, y \in Placed : x[2].kdat = y[2].kdat => x = y
    /\ \A t, u \in Task : \A k \in 1 .. Len(mail[t]), l \in 1 .. Len(mail[u]) :
          mail[t][k].kdat = mail[u][l].kdat => t = u /\ k = l
    /\ \A t \in Task : \A k \in 1 .. Len(mail[t]) : \A n \in lost : mail[t][k].kdat # n.kdat

\* Pages nobody mapped for what they show now: for a body released since, or in a
\* table that was not cleared.
Left == old \cup stray

\* A page that shows a body nobody has is known to be left over: the body may be
\* handed out again at any time.
OldInv ==
    \A t \in alive, i \in Index : pages[t][i] \in Body \ heap => <<t, i>> \in Left

IInv == BodyTypes /\ BootInv /\ BodyInv /\ OldInv /\ SeenByOwner

\* A placed message has an owner, its type, and pages in the window.
LEMMA PlacedType ==
    ASSUME NEW x \in Placed
    PROVE  /\ x[1] \in Task /\ x[2] \in Message /\ x = <<x[1], x[2]>>
           /\ x[2].kdat \in Body
           /\ x[2].msgsz \in 1 .. MSG_MAXSZ
           /\ 0 .. Pages(x[2].msgsz) - 1 \subseteq Index
<1>1. x[1] \in Task /\ x[2] \in Message /\ x = <<x[1], x[2]>>
  BY DEF Placed
<1>2. x[2].kdat \in Body /\ x[2].msgsz \in 1 .. MSG_MAXSZ
  BY <1>1 DEF Message
<1> QED BY <1>1, <1>2, PagesInWindow

\* The same after a step.
LEMMA PlacedNextType ==
    ASSUME NEW x \in Placed'
    PROVE  /\ x[1] \in Task /\ x[2] \in Message /\ x = <<x[1], x[2]>>
           /\ x[2].kdat \in Body
           /\ x[2].msgsz \in 1 .. MSG_MAXSZ
           /\ 0 .. Pages(x[2].msgsz) - 1 \subseteq Index
<1>1. x[1] \in Task /\ x[2] \in Message /\ x = <<x[1], x[2]>>
  BY DEF Placed
<1>2. x[2].kdat \in Body /\ x[2].msgsz \in 1 .. MSG_MAXSZ
  BY <1>1 DEF Message
<1> QED BY <1>1, <1>2, PagesInWindow

\* What remappg changes and what it leaves alone.
LEMMA RemapFact ==
    ASSUME BodyTypes, NEW to \in Body \cup {NONE}, NEW size \in 1 .. MSG_MAXSZ, remappg(to, size)
    PROVE  /\ pages' \in [Task -> [Index -> Body \cup {NONE, ALIEN}]] /\ tabled' \subseteq alive
           /\ \A t \in Task, i \in Index : t # current =>
                 pages'[t][i] = pages[t][i] /\ (<<t, i>> \in Left => <<t, i>> \in Left')
           /\ \A i \in 0 .. Pages(size) - 1 : pages'[current][i] = to
           /\ \A i \in Index \ (0 .. Pages(size) - 1) :
                 pages'[current][i] = pages[current][i] /\ (<<current, i>> \in Left => <<current, i>> \in Left')
<1> DEFINE dir == [i \in Index |-> IF i < Pages(size) THEN to ELSE pages[current][i]]
<1>1. current \in Task /\ cr3 = current /\ pages[current] \in [Index -> Body \cup {NONE, ALIEN}]
  BY DEF BodyTypes
<1>2. dir \in [Index -> Body \cup {NONE, ALIEN}]
  BY <1>1
<1>3. pages' = [pages EXCEPT ![current] = dir]
  BY <1>1 DEF remappg
<1>4. Left' = Left \ {<<current, i>> : i \in 0 .. Pages(size) - 1}
  BY <1>1, Zenon DEF remappg, Left
<1>5. Pages(size) \in Nat /\ Pages(MSG_MAXSZ) \in Nat /\ 0 .. Pages(size) - 1 \subseteq Index
  BY PagesInWindow, PagesMonotone, ContextsAssumption
<1>6. \A i \in 0 .. Pages(size) - 1 : dir[i] = to
  BY <1>5
<1>7. \A i \in Index \ (0 .. Pages(size) - 1) : dir[i] = pages[current][i]
  BY <1>5 DEF Index
<1>8. pages'[current] = dir /\ \A t \in Task : t # current => pages'[t] = pages[t]
  BY <1>1, <1>3 DEF BodyTypes
<1>9. pages' \in [Task -> [Index -> Body \cup {NONE, ALIEN}]]
  BY <1>1, <1>2, <1>3 DEF BodyTypes
<1>10. \A t, i : <<t, i>> \in Left /\ (t # current \/ i \notin 0 .. Pages(size) - 1) => <<t, i>> \in Left'
  BY <1>4, Zenon
<1>11. tabled' \subseteq alive
  BY DEF remappg, BodyTypes
<1> HIDE DEF dir
<1> QED BY <1>6, <1>7, <1>8, <1>9, <1>10, <1>11

-----------------------------------------------------------------------------
(* Steps.                                                                  *)

\* At first nobody has a message and no page shows one.
LEMMA BodiesInit == Init => IInv
<1> SUFFICES ASSUME Init PROVE IInv
  OBVIOUS
<1>1. 0 \in Task
  BY ContextsAssumption DEF Task
<1>2. /\ alive = {0} /\ current = 0 /\ cr3 = 0 /\ heap = {} /\ lost = {} /\ tabled = {}
      /\ pages = [t \in Task |-> [i \in Index |-> NONE]]
      /\ mine = [t \in Task |-> {}] /\ mail = [t \in Task |-> <<>>]
  BY DEF Init
<1>3. \A t \in Task : mine[t] = {} /\ mail[t] = <<>> /\ DOMAIN mail[t] = {} /\ Len(mail[t]) = 0
  BY <1>2
<1>4. Placed = {}
  BY <1>2, <1>3 DEF Placed
<1>5. BodyTypes
  BY <1>1, <1>2 DEF BodyTypes
<1>6. BootInv
  BY <1>1, <1>2, ContextsAssumption DEF BootInv
<1>7. BodyInv
  BY <1>2, <1>3, <1>4 DEF BodyInv
<1>8. OldInv
  BY <1>1, <1>2, ContextsAssumption DEF OldInv
<1>9. SeenByOwner
  BY <1>4 DEF SeenByOwner, Left
<1> QED BY <1>5, <1>6, <1>7, <1>8, <1>9 DEF IInv

\* Switching tasks moves no message and no page.
LEMMA SwitchKeepsBodies ==
    ASSUME IInv, alive' = alive, current' \in alive, cr3' = current',
           UNCHANGED <<pages, tabled, heap, mine, mail, lost, old, stray>>
    PROVE  IInv'
<1>1. Placed' = Placed
  BY DEF Placed
<1> QED BY <1>1 DEF Left, IInv, BodyTypes, BootInv, BodyInv, OldInv, SeenByOwner, Left

\* A child sees a body only where the frame of its table had an entry before.
LEMMA NewTaskKeepsBodies ==
    ASSUME IInv, task_newtask
    PROVE  IInv'
<1>1. PICK t \in Task, dir \in clonedir :
          /\ alive' = alive \cup {t} /\ pages' = [pages EXCEPT ![t] = dir]
          /\ stray' = stray \cup {<<t, i>> : i \in {j \in Index : dir[j] \in Body}}
          /\ tabled' = IF current \in tabled THEN tabled \cup {t} ELSE tabled
          /\ t = Cardinality(alive)
  BY DEF task_newtask, IInv, BodyTypes
<1>2. UNCHANGED <<current, cr3, heap, mine, mail, lost, old>>
  BY DEF task_newtask
<1>3. Placed' = Placed
  BY <1>2 DEF Placed
<1>4. dir \in [Index -> Body \cup {NONE, ALIEN}]
  BY <1>1 DEF clonedir
<1>5. pages'[t] = dir /\ \A u \in Task : u # t => pages'[u] = pages[u]
  BY <1>1 DEF IInv, BodyTypes
<1>6. pages' \in [Task -> [Index -> Body \cup {NONE, ALIEN}]]
  BY <1>1, <1>4 DEF IInv, BodyTypes
<1>7. BodyTypes'
  BY <1>1, <1>2, <1>6 DEF IInv, BodyTypes
<1>8. BootInv'
  <2>1. t # 0
    <3>1. IsFiniteSet(alive)
      <4>1. IsFiniteSet(0 .. MaxTask)
        BY ContextsAssumption, FS_Interval
      <4>2. alive \subseteq 0 .. MaxTask
        BY DEF IInv, BodyTypes, Task
      <4> QED BY <4>1, <4>2, FS_Subset
    <3>2. alive # {}
      BY DEF IInv, BootInv
    <3> QED BY <1>1, <3>1, <3>2, FS_EmptySet
  <2> QED BY <1>1, <1>2, <1>5, <2>1, ContextsAssumption DEF IInv, BootInv, Task
<1>9. BodyInv'
  BY <1>2, <1>3 DEF IInv, BodyInv
<1>10. /\ \A i \in Index : pages'[t][i] \in Body => <<t, i>> \in Left'
       /\ \A u, i : <<u, i>> \in Left => <<u, i>> \in Left'
  BY <1>1, <1>2, <1>5 DEF Left
<1>11. OldInv'
  BY <1>1, <1>2, <1>5, <1>10 DEF IInv, BodyTypes, OldInv
<1>12. SeenByOwner'
  <2> SUFFICES ASSUME NEW x \in Placed, NEW u \in alive' \ {x[1]},
                      NEW i \in 0 .. Pages(x[2].msgsz) - 1, pages'[u][i] = x[2].kdat
               PROVE  <<u, i>> \in Left'
    BY <1>3 DEF SeenByOwner, Left
  <2>1. x[2].kdat \in Body /\ i \in Index
    BY PlacedType
  <2>2. CASE u = t
    BY <1>10, <2>1, <2>2
  <2>3. CASE u # t
    <3>1. u \in alive /\ u \in Task
      BY <1>1, <2>3 DEF IInv, BodyTypes
    <3> QED BY <1>5, <1>10, <2>1, <2>3, <3>1 DEF IInv, SeenByOwner, Left
  <2> QED BY <2>2, <2>3
<1> QED BY <1>7, <1>8, <1>9, <1>11, <1>12 DEF IInv

\* A request maps a body that nobody has: pages elsewhere that still show it are
\* known to be left over.
LEMMA RequestKeepsBodies ==
    ASSUME IInv, NEW bufsz \in Size, syscall_msg_req(bufsz)
    PROVE  IInv'
<1>1. PICK kdat \in Body \ heap :
          /\ heap' = heap \cup {kdat}
          /\ mine' = [mine EXCEPT ![current] = @ \cup {[kdat |-> kdat, msgsz |-> bufsz]}]
          /\ remappg(kdat, bufsz)
  BY DEF syscall_msg_req
<1> DEFINE new == [kdat |-> kdat, msgsz |-> bufsz]
<1>2. current # 0 /\ UNCHANGED <<alive, current, cr3, mail, lost>>
  BY DEF syscall_msg_req, turn
<1>3. bufsz \in 1 .. MSG_MAXSZ
  BY ContextsAssumption DEF syscall_msg_req
<1>4. new \in Message /\ new.kdat = kdat /\ new.msgsz = bufsz
  BY <1>3 DEF Message
<1>5. current \in Task /\ mine' = [mine EXCEPT ![current] = mine[current] \cup {new}]
  BY <1>1 DEF IInv, BodyTypes
<1> HIDE DEF new
<1>6. \A x \in Placed' : x \in Placed \/ x = <<current, new>>
  BY <1>2, <1>5 DEF Placed, IInv, BodyTypes
<1>7. /\ pages' \in [Task -> [Index -> Body \cup {NONE, ALIEN}]] /\ tabled' \subseteq alive
      /\ \A t \in Task, i \in Index : t # current =>
            pages'[t][i] = pages[t][i] /\ (<<t, i>> \in Left => <<t, i>> \in Left')
      /\ \A i \in 0 .. Pages(bufsz) - 1 : pages'[current][i] = kdat
      /\ \A i \in Index \ (0 .. Pages(bufsz) - 1) :
            pages'[current][i] = pages[current][i] /\ (<<current, i>> \in Left => <<current, i>> \in Left')
  BY <1>1, <1>3, RemapFact DEF IInv
<1>8. BodyTypes'
  <2>1. mine' \in [Task -> SUBSET Message]
    BY <1>4, <1>5 DEF IInv, BodyTypes
  <2>2. heap' \subseteq Body
    BY <1>1 DEF IInv, BodyTypes
  <2> QED BY <2>1, <2>2, <1>2, <1>7 DEF IInv, BodyTypes
<1>9. BootInv'
  <2>1. 0 \in Task
    BY ContextsAssumption DEF Task
  <2>2. mine'[0] = mine[0]
    BY <2>1, <1>2, <1>5 DEF IInv, BodyTypes
  <2> QED BY <2>1, <2>2, <1>2, <1>7 DEF IInv, BootInv
<1>10. BodyInv'
  <2>1. \A x \in Placed : x[2].kdat \in heap /\ x[2].kdat # kdat
    BY DEF IInv, BodyInv
  <2> QED BY <1>1, <1>2, <1>4, <1>6, <2>1 DEF IInv, BodyInv
<1>11. OldInv'
  BY <1>1, <1>2, <1>7 DEF IInv, BodyTypes, OldInv
<1>12. SeenByOwner'
  <2> SUFFICES ASSUME NEW x \in Placed', NEW t \in alive \ {x[1]},
                      NEW i \in 0 .. Pages(x[2].msgsz) - 1, pages'[t][i] = x[2].kdat
               PROVE  <<t, i>> \in Left'
    BY <1>2 DEF SeenByOwner, Left
  <2>1. x[2].kdat \in Body /\ i \in Index /\ t \in Task
    BY PlacedNextType DEF IInv, BodyTypes
  <2>2. CASE x = <<current, new>>
    <3>1. t # current /\ pages[t][i] = kdat
      BY <1>4, <1>7, <2>1, <2>2
    <3> QED BY <1>7, <2>1, <3>1 DEF IInv, OldInv
  <2>3. CASE x \in Placed
    <3>1. x[2].kdat # kdat
      BY <2>3 DEF IInv, BodyInv
    <3>2. pages[t][i] = x[2].kdat /\ (<<t, i>> \in Left => <<t, i>> \in Left')
      BY <1>7, <2>1, <3>1
    <3> QED BY <2>3, <3>2 DEF IInv, SeenByOwner, Left
  <2> QED BY <1>6, <2>2, <2>3
<1> QED BY <1>8, <1>9, <1>10, <1>11, <1>12 DEF IInv

\* A release leaves the mapping and says so.
LEMMA FreeKeepsBodies ==
    ASSUME IInv, NEW msg \in mine[current], syscall_msg_free(msg)
    PROVE  IInv'
<1>1. /\ UNCHANGED <<alive, current, cr3, pages, tabled, mail, lost>>
      /\ heap' = heap \ {msg.kdat}
      /\ mine' = [mine EXCEPT ![current] = @ \ {msg}]
      /\ Left' = Left \cup {p \in alive \X Index : pages[p[1]][p[2]] = msg.kdat}
  BY DEF syscall_msg_free, turn, space, Left
<1>2. current \in Task /\ current # 0 /\ msg \in Message
  BY DEF IInv, BodyTypes, BootInv
<1>3. <<current, msg>> \in Placed
  BY <1>2 DEF Placed
<1>4. \A x \in Placed' : x \in Placed /\ x # <<current, msg>>
  BY <1>1, <1>2 DEF Placed, IInv, BodyTypes
<1>5. \A x \in Placed' : x[2].kdat # msg.kdat
  BY <1>3, <1>4 DEF IInv, BodyInv
<1>6. \A t \in alive, i \in Index : pages[t][i] = msg.kdat => <<t, i>> \in Left'
  BY <1>1
<1>7. BodyTypes'
  BY <1>1, <1>2 DEF IInv, BodyTypes
<1>8. BootInv'
  BY <1>1, <1>2, ContextsAssumption DEF IInv, BodyTypes, BootInv, Task
<1>9. BodyInv'
  BY <1>1, <1>4, <1>5 DEF IInv, BodyInv
<1>10. OldInv'
  BY <1>1, <1>6 DEF IInv, OldInv
<1>11. SeenByOwner'
  BY <1>1, <1>4 DEF IInv, SeenByOwner, Left
<1> QED BY <1>7, <1>8, <1>9, <1>10, <1>11 DEF IInv

\* Messages under way, and lost ones, have bodies of their own.
LEMMA UnderWay ==
    ASSUME BodyTypes
    PROVE  /\ \A t \in Task : \A k \in 1 .. Len(mail[t]) :
                 mail[t][k] \in Message /\ <<0, mail[t][k]>> \in Placed
           /\ \A n \in lost : n \in Message /\ <<0, n>> \in Placed
<1>1. 0 \in Task
  BY ContextsAssumption DEF Task
<1>2. ASSUME NEW t \in Task, NEW k \in 1 .. Len(mail[t])
      PROVE  mail[t][k] \in Message /\ <<0, mail[t][k]>> \in Placed
  <2>1. mail[t] \in Seq(Message) /\ k \in DOMAIN mail[t]
    BY DEF BodyTypes
  <2>2. mail[t][k] \in Message
    BY <2>1
  <2> QED BY <1>1, <2>1, <2>2 DEF Placed
<1>3. ASSUME NEW n \in lost PROVE n \in Message /\ <<0, n>> \in Placed
  BY <1>1 DEF BodyTypes, Placed
<1> QED BY <1>2, <1>3

\* A send unmaps the pages of what is sent, so that the sender sees it no longer,
\* whether there is a receiver or not.
LEMMA SendKeepsBodies ==
    ASSUME IInv, NEW msg \in mine[current], NEW msgsz \in Size, NEW pid \in Task \ {0},
           syscall_msg_send(msg, msgsz, pid)
    PROVE  IInv'
<1> DEFINE sent == [msg EXCEPT !.msgsz = msgsz]
<1>1. /\ UNCHANGED <<alive, current, cr3, heap>>
      /\ mine' = [mine EXCEPT ![current] = @ \ {msg}]
      /\ remappg(NONE, msgsz)
      /\ msgsz < MSG_MAXSZ /\ msgsz <= msg.msgsz
  BY DEF syscall_msg_send, turn, Accepted
<1>2. current \in Task /\ current # 0 /\ msg \in Message
  BY DEF IInv, BodyTypes, BootInv
<1>3. msgsz \in 1 .. MSG_MAXSZ
  BY <1>1, ContextsAssumption
<1>4. sent \in Message /\ sent.kdat = msg.kdat /\ sent.msgsz = msgsz
  BY <1>2, <1>3 DEF Message
<1>5. \/ mail' = [mail EXCEPT ![pid] = Append(mail[pid], sent)] /\ lost' = lost
      \/ lost' = lost \cup {sent} /\ mail' = mail
  BY DEF syscall_msg_send, IInv, BodyTypes
<1> HIDE DEF sent
<1>6. <<current, msg>> \in Placed
  BY <1>2 DEF Placed
<1>7. \A u \in Task : \A l \in 1 .. Len(mail[u]) : mail[u][l].kdat # msg.kdat
  <2> SUFFICES ASSUME NEW u \in Task, NEW l \in 1 .. Len(mail[u]), mail[u][l].kdat = msg.kdat
               PROVE  FALSE
    OBVIOUS
  <2> DEFINE x == <<0, mail[u][l]>>
             y == <<current, msg>>
  <2>1. x \in Placed /\ y \in Placed /\ x[2].kdat = y[2].kdat
    BY <1>6, UnderWay DEF IInv
  <2> HIDE DEF x, y
  <2>2. x = y
    BY <2>1 DEF IInv, BodyInv
  <2> QED BY <1>2, <2>2 DEF x, y
<1>8. \A n \in lost : n.kdat # msg.kdat
  <2> SUFFICES ASSUME NEW n \in lost, n.kdat = msg.kdat PROVE FALSE
    OBVIOUS
  <2> DEFINE x == <<0, n>>
             y == <<current, msg>>
  <2>1. x \in Placed /\ y \in Placed /\ x[2].kdat = y[2].kdat
    BY <1>6, UnderWay DEF IInv
  <2> HIDE DEF x, y
  <2>2. x = y
    BY <2>1 DEF IInv, BodyInv
  <2> QED BY <1>2, <2>2 DEF x, y
<1>9. \A u \in Task :
          /\ mail[u] \in Seq(Message) /\ mail'[u] \in Seq(Message)
          /\ \A l \in 1 .. Len(mail'[u]) :
                \/ l \in 1 .. Len(mail[u]) /\ mail'[u][l] = mail[u][l]
                \/ lost' = lost /\ u = pid /\ l = Len(mail[u]) + 1 /\ mail'[u][l] = sent
  <2> TAKE u \in Task
  <2>1. mail[u] \in Seq(Message) /\ mail[pid] \in Seq(Message)
    BY DEF IInv, BodyTypes
  <2>2. CASE mail'[u] = mail[u]
    BY <2>1, <2>2
  <2>3. CASE u = pid /\ mail'[u] = Append(mail[u], sent) /\ lost' = lost
    BY <2>1, <2>3, <1>4
  <2> QED BY <2>2, <2>3, <1>5 DEF IInv, BodyTypes
<1>10. lost' \subseteq Message /\ \A n \in lost' : n \in lost \/ (n = sent /\ mail' = mail)
  BY <1>4, <1>5 DEF IInv, BodyTypes
<1>11. \A x \in Placed' : (x \in Placed /\ x # <<current, msg>>) \/ x = <<0, sent>>
  <2> TAKE x \in Placed'
  <2>1. x[1] \in Task /\ x[2] \in Message /\ x = <<x[1], x[2]>> /\ x \in Task \X Message
    BY PlacedNextType DEF Placed
  <2>2. CASE x[2] \in mine'[x[1]]
    BY <1>1, <1>2, <2>1, <2>2 DEF Placed, IInv, BodyTypes
  <2>3. CASE x[1] = 0 /\ x[2] \in lost'
    BY <1>2, <1>10, <2>1, <2>3 DEF Placed
  <2>4. CASE x[1] = 0 /\ \E t \in Task : \E k \in DOMAIN mail'[t] : x[2] = mail'[t][k]
    <3>0. PICK t \in Task : \E k \in DOMAIN mail'[t] : x[2] = mail'[t][k]
      BY <2>4
    <3>1. PICK k \in DOMAIN mail'[t] : x[2] = mail'[t][k]
      BY <3>0
    <3>2. k \in 1 .. Len(mail'[t])
      BY <1>9, <3>1
    <3>3. x[2] = sent \/ (k \in DOMAIN mail[t] /\ x[2] = mail[t][k])
      BY <1>9, <3>1, <3>2
    <3> QED BY <1>2, <2>1, <2>4, <3>3 DEF Placed
  <2> QED BY <2>2, <2>3, <2>4 DEF Placed
<1>12. /\ pages' \in [Task -> [Index -> Body \cup {NONE, ALIEN}]] /\ tabled' \subseteq alive
       /\ \A t \in Task, i \in Index : t # current =>
             pages'[t][i] = pages[t][i] /\ (<<t, i>> \in Left => <<t, i>> \in Left')
       /\ \A i \in 0 .. Pages(msgsz) - 1 : pages'[current][i] = NONE
       /\ \A i \in Index \ (0 .. Pages(msgsz) - 1) :
             pages'[current][i] = pages[current][i] /\ (<<current, i>> \in Left => <<current, i>> \in Left')
  BY <1>1, <1>3, RemapFact DEF IInv
<1>13. BodyTypes'
  <2>1. mine' \in [Task -> SUBSET Message]
    BY <1>1, <1>2 DEF IInv, BodyTypes
  <2>2. mail' \in [Task -> Seq(Message)]
    <3>1. DOMAIN mail' = Task /\ mail' = [u \in Task |-> mail'[u]]
      BY <1>5 DEF IInv, BodyTypes
    <3> QED BY <1>9, <3>1
  <2> QED BY <2>1, <2>2, <1>1, <1>10, <1>12 DEF IInv, BodyTypes
<1>14. BootInv'
  <2>1. 0 \in Task
    BY ContextsAssumption DEF Task
  <2>2. mine'[0] = mine[0] /\ mail'[0] = mail[0]
    BY <2>1, <1>1, <1>2, <1>5 DEF IInv, BodyTypes
  <2> QED BY <2>1, <2>2, <1>1, <1>2, <1>12 DEF IInv, BootInv
<1>15. BodyInv'
  <2>1. \A x \in Placed' : x[2].kdat \in heap'
    BY <1>1, <1>4, <1>6, <1>11 DEF IInv, BodyInv
  <2>2. \A x, y \in Placed' : x[2].kdat = y[2].kdat => x = y
    BY <1>4, <1>6, <1>11 DEF IInv, BodyInv
  <2>3. \A t, u \in Task : \A k \in 1 .. Len(mail'[t]), l \in 1 .. Len(mail'[u]) :
            mail'[t][k].kdat = mail'[u][l].kdat => t = u /\ k = l
    <3> SUFFICES ASSUME NEW t \in Task, NEW u \in Task,
                        NEW k \in 1 .. Len(mail'[t]), NEW l \in 1 .. Len(mail'[u]),
                        mail'[t][k].kdat = mail'[u][l].kdat
                 PROVE  t = u /\ k = l
      OBVIOUS
    <3>1. \/ k \in 1 .. Len(mail[t]) /\ mail'[t][k] = mail[t][k]
          \/ t = pid /\ k = Len(mail[t]) + 1 /\ mail'[t][k] = sent
      BY <1>9
    <3>2. \/ l \in 1 .. Len(mail[u]) /\ mail'[u][l] = mail[u][l]
          \/ u = pid /\ l = Len(mail[u]) + 1 /\ mail'[u][l] = sent
      BY <1>9
    <3>3. CASE k \in 1 .. Len(mail[t]) /\ l \in 1 .. Len(mail[u])
                 /\ mail'[t][k] = mail[t][k] /\ mail'[u][l] = mail[u][l]
      BY <3>3 DEF IInv, BodyInv
    <3> QED BY <3>1, <3>2, <3>3, <1>4, <1>7
  <2>4. \A t \in Task : \A k \in 1 .. Len(mail'[t]) : \A n \in lost' : mail'[t][k].kdat # n.kdat
    <3> SUFFICES ASSUME NEW t \in Task, NEW k \in 1 .. Len(mail'[t]), NEW n \in lost'
                 PROVE  mail'[t][k].kdat # n.kdat
      OBVIOUS
    <3>1. CASE k \in 1 .. Len(mail[t]) /\ mail'[t][k] = mail[t][k]
      BY <3>1, <1>4, <1>7, <1>10 DEF IInv, BodyInv
    <3>2. CASE lost' = lost /\ mail'[t][k] = sent
      BY <3>2, <1>4, <1>8
    <3> QED BY <3>1, <3>2, <1>9
  <2> QED BY <2>1, <2>2, <2>3, <2>4 DEF BodyInv
<1>16. OldInv'
  BY <1>1, <1>12, ContextsAssumption, SMTT(30) DEF IInv, BodyTypes, OldInv
<1>17. SeenByOwner'
  <2> SUFFICES ASSUME NEW x \in Placed', NEW t \in alive \ {x[1]},
                      NEW i \in 0 .. Pages(x[2].msgsz) - 1, pages'[t][i] = x[2].kdat
               PROVE  <<t, i>> \in Left'
    BY <1>1 DEF SeenByOwner, Left
  <2>1. x[2].kdat \in Body /\ x[2].kdat # NONE /\ i \in Index /\ t \in Task
    BY PlacedNextType, ContextsAssumption DEF IInv, BodyTypes
  <2>2. pages[t][i] = x[2].kdat /\ (<<t, i>> \in Left => <<t, i>> \in Left')
    BY <1>12, <2>1
  <2>3. CASE x = <<0, sent>>
    <3>1. t # current /\ pages[t][i] = msg.kdat
      BY <1>4, <1>12, <2>1, <2>2, <2>3
    <3>2. msg.msgsz \in Nat /\ msgsz \in Nat
      BY <1>2, <1>3 DEF Message
    <3>3. i \in 0 .. Pages(msg.msgsz) - 1
      BY <1>1, <1>4, <2>3, <3>2, PagesMonotone
    <3> QED BY <1>6, <2>2, <3>1, <3>3 DEF IInv, SeenByOwner, Left
  <2>4. CASE x \in Placed
    BY <2>2, <2>4 DEF IInv, SeenByOwner, Left
  <2> QED BY <1>11, <2>3, <2>4
<1> QED BY <1>13, <1>14, <1>15, <1>16, <1>17 DEF IInv

\* A receive maps the body at the one task that has it from now on.
LEMMA ReceiveKeepsBodies ==
    ASSUME IInv, syscall_msg_recv
    PROVE  IInv'
<1> DEFINE kmsg == Head(mail[current])
<1>1. /\ UNCHANGED <<alive, current, cr3, heap, lost>>
      /\ mail[current] # <<>>
      /\ mine' = [mine EXCEPT ![current] = mine[current] \cup {kmsg}]
      /\ mail' = [mail EXCEPT ![current] = Tail(mail[current])]
      /\ remappg(kmsg.kdat, kmsg.msgsz)
  BY DEF syscall_msg_recv, turn, IInv, BodyTypes
<1>2. current \in Task /\ current # 0 /\ mail[current] \in Seq(Message)
  BY <1>1 DEF IInv, BodyTypes, BootInv
<1>3. 1 \in 1 .. Len(mail[current]) /\ kmsg = mail[current][1]
  BY <1>1, <1>2
<1> HIDE DEF kmsg
<1>4. kmsg \in Message /\ <<0, kmsg>> \in Placed
  BY <1>2, <1>3, UnderWay DEF IInv
<1>5. kmsg.kdat \in Body /\ kmsg.msgsz \in 1 .. MSG_MAXSZ
  BY <1>4 DEF Message
<1>6. kmsg.kdat \in heap
  <2>1. <<0, kmsg>>[2].kdat \in heap
    BY <1>4 DEF IInv, BodyInv
  <2> QED BY <2>1
<1>7. \A u \in Task :
          /\ mail'[u] \in Seq(Message)
          /\ \A l \in 1 .. Len(mail'[u]) :
                \/ u # current /\ l \in 1 .. Len(mail[u]) /\ mail'[u][l] = mail[u][l]
                \/ u = current /\ l + 1 \in 2 .. Len(mail[u]) /\ mail'[u][l] = mail[u][l + 1]
  <2> TAKE u \in Task
  <2>1. CASE u # current
    BY <1>1, <1>2, <2>1 DEF IInv, BodyTypes
  <2>2. CASE u = current
    <3>1. mail'[u] = Tail(mail[u]) /\ mail[u] \in Seq(Message) /\ mail[u] # <<>>
      BY <1>1, <1>2, <2>2 DEF IInv, BodyTypes
    <3>2. /\ Tail(mail[u]) \in Seq(Message) /\ Len(Tail(mail[u])) = Len(mail[u]) - 1
          /\ Len(mail[u]) \in Nat
          /\ \A l \in 1 .. Len(mail[u]) - 1 : Tail(mail[u])[l] = mail[u][l + 1]
      BY <3>1
    <3> QED BY <2>2, <3>1, <3>2
  <2> QED BY <2>1, <2>2
<1>8. \A u \in Task : \A l \in 1 .. Len(mail'[u]) :
          \E k \in 1 .. Len(mail[u]) :
              mail'[u][l] = mail[u][k] /\ mail'[u][l].kdat # kmsg.kdat
  <2> TAKE u \in Task
  <2> TAKE l \in 1 .. Len(mail'[u])
  <2>0. l \in Nat \ {0}
    OBVIOUS
  <2>1. CASE u # current /\ l \in 1 .. Len(mail[u]) /\ mail'[u][l] = mail[u][l]
    BY <2>1, <1>2, <1>3 DEF IInv, BodyInv
  <2>2. CASE u = current /\ l + 1 \in 2 .. Len(mail[u]) /\ mail'[u][l] = mail[u][l + 1]
    <3>1. l + 1 \in 1 .. Len(mail[u]) /\ l + 1 # 1
      BY <2>0, <2>2
    <3>2. mail[u][l + 1].kdat # kmsg.kdat
      BY <3>1, <2>2, <1>2, <1>3 DEF IInv, BodyInv
    <3> QED BY <3>1, <3>2, <2>2
  <2> QED BY <2>1, <2>2, <1>7
<1>9. \A n \in lost : n.kdat # kmsg.kdat
  BY <1>2, <1>3 DEF IInv, BodyInv
<1>10. \A x \in Placed' : (x \in Placed /\ x # <<0, kmsg>>) \/ x = <<current, kmsg>>
  <2> TAKE x \in Placed'
  <2>1. x[1] \in Task /\ x[2] \in Message /\ x = <<x[1], x[2]>> /\ x \in Task \X Message
    BY PlacedNextType DEF Placed
  <2>2. CASE x[2] \in mine'[x[1]]
    <3>1. x = <<current, kmsg>> \/ x[2] \in mine[x[1]]
      BY <1>1, <1>2, <2>1, <2>2 DEF IInv, BodyTypes
    <3>2. x[2] \in mine[x[1]] => x[1] # 0
      BY DEF IInv, BootInv
    <3> QED BY <3>1, <3>2, <2>1 DEF Placed
  <2>3. CASE x[1] = 0 /\ x[2] \in lost'
    BY <1>1, <1>9, <2>1, <2>3 DEF Placed
  <2>4. CASE x[1] = 0 /\ \E t \in Task : \E k \in DOMAIN mail'[t] : x[2] = mail'[t][k]
    <3>1. PICK t \in Task : \E l \in DOMAIN mail'[t] : x[2] = mail'[t][l]
      BY <2>4
    <3>2. PICK l \in DOMAIN mail'[t] : x[2] = mail'[t][l]
      BY <3>1
    <3>3. l \in 1 .. Len(mail'[t])
      BY <1>7, <3>2
    <3>4. PICK k \in 1 .. Len(mail[t]) : x[2] = mail[t][k] /\ x[2].kdat # kmsg.kdat
      BY <1>8, <3>2, <3>3
    <3>5. k \in DOMAIN mail[t]
      BY <3>4 DEF IInv, BodyTypes
    <3> QED BY <2>1, <2>4, <3>4, <3>5 DEF Placed
  <2> QED BY <2>2, <2>3, <2>4 DEF Placed
<1>11. /\ pages' \in [Task -> [Index -> Body \cup {NONE, ALIEN}]] /\ tabled' \subseteq alive
       /\ \A t \in Task, i \in Index : t # current =>
             pages'[t][i] = pages[t][i] /\ (<<t, i>> \in Left => <<t, i>> \in Left')
       /\ \A i \in 0 .. Pages(kmsg.msgsz) - 1 : pages'[current][i] = kmsg.kdat
       /\ \A i \in Index \ (0 .. Pages(kmsg.msgsz) - 1) :
             pages'[current][i] = pages[current][i] /\ (<<current, i>> \in Left => <<current, i>> \in Left')
  BY <1>1, <1>5, RemapFact DEF IInv
<1>12. BodyTypes'
  <2>1. mine' \in [Task -> SUBSET Message]
    BY <1>1, <1>2, <1>4 DEF IInv, BodyTypes
  <2>2. mail' \in [Task -> Seq(Message)]
    <3>1. DOMAIN mail' = Task /\ mail' = [u \in Task |-> mail'[u]]
      BY <1>1 DEF IInv, BodyTypes
    <3> QED BY <1>7, <3>1
  <2> QED BY <2>1, <2>2, <1>1, <1>11 DEF IInv, BodyTypes
<1>13. BootInv'
  <2>1. 0 \in Task
    BY ContextsAssumption DEF Task
  <2>2. mine'[0] = mine[0] /\ mail'[0] = mail[0]
    BY <2>1, <1>1, <1>2 DEF IInv, BodyTypes
  <2> QED BY <2>1, <2>2, <1>1, <1>2, <1>11 DEF IInv, BootInv
<1>14. BodyInv'
  <2>1. \A x \in Placed' : x[2].kdat \in heap'
    BY <1>1, <1>6, <1>10 DEF IInv, BodyInv
  <2>2. \A x \in Placed : x # <<0, kmsg>> => x[2].kdat # kmsg.kdat
    <3> TAKE x \in Placed
    <3> DEFINE y == <<0, kmsg>>
    <3>1. y \in Placed /\ y[2].kdat = kmsg.kdat
      BY <1>4
    <3> HIDE DEF y
    <3>2. x # y => x[2].kdat # kmsg.kdat
      BY <3>1 DEF IInv, BodyInv
    <3> QED BY <3>2 DEF y
  <2>3. \A x, y \in Placed' : x[2].kdat = y[2].kdat => x = y
    BY <1>10, <2>2 DEF IInv, BodyInv
  <2>4. \A t, u \in Task : \A k \in 1 .. Len(mail'[t]), l \in 1 .. Len(mail'[u]) :
            mail'[t][k].kdat = mail'[u][l].kdat => t = u /\ k = l
    <3> SUFFICES ASSUME NEW t \in Task, NEW u \in Task,
                        NEW k \in 1 .. Len(mail'[t]), NEW l \in 1 .. Len(mail'[u]),
                        mail'[t][k].kdat = mail'[u][l].kdat
                 PROVE  t = u /\ k = l
      OBVIOUS
    <3> DEFINE k0 == IF t = current THEN k + 1 ELSE k
               l0 == IF u = current THEN l + 1 ELSE l
    <3>1. k0 \in 1 .. Len(mail[t]) /\ mail'[t][k] = mail[t][k0]
      BY <1>7
    <3>2. l0 \in 1 .. Len(mail[u]) /\ mail'[u][l] = mail[u][l0]
      BY <1>7
    <3> HIDE DEF k0, l0
    <3>3. t = u /\ k0 = l0
      BY <3>1, <3>2 DEF IInv, BodyInv
    <3> QED BY <3>3 DEF k0, l0
  <2>5. \A t \in Task : \A k \in 1 .. Len(mail'[t]) : \A n \in lost' : mail'[t][k].kdat # n.kdat
    <3> TAKE t \in Task
    <3> TAKE k \in 1 .. Len(mail'[t])
    <3>1. PICK l \in 1 .. Len(mail[t]) : mail'[t][k] = mail[t][l]
      BY <1>8
    <3> QED BY <3>1, <1>1 DEF IInv, BodyInv
  <2> QED BY <2>1, <2>3, <2>4, <2>5 DEF BodyInv
<1>15. OldInv'
  BY <1>1, <1>6, <1>11 DEF IInv, BodyTypes, OldInv
<1>16. SeenByOwner'
  <2> SUFFICES ASSUME NEW x \in Placed', NEW t \in alive \ {x[1]},
                      NEW i \in 0 .. Pages(x[2].msgsz) - 1, pages'[t][i] = x[2].kdat
               PROVE  <<t, i>> \in Left'
    BY <1>1 DEF SeenByOwner, Left
  <2>1. x[2].kdat \in Body /\ i \in Index /\ t \in Task
    BY PlacedNextType DEF IInv, BodyTypes
  <2>2. CASE x = <<current, kmsg>>
    <3>1. t # current /\ pages[t][i] = kmsg.kdat /\ i \in 0 .. Pages(kmsg.msgsz) - 1
      BY <1>11, <2>1, <2>2
    <3>2. t # 0
      BY <1>5, <2>1, <3>1 DEF IInv, BootInv
    <3>3. <<t, i>> \in Left
      BY <1>4, <3>1, <3>2 DEF IInv, SeenByOwner, Left
    <3> QED BY <1>11, <2>1, <3>1, <3>3
  <2>3. CASE x \in Placed /\ x # <<0, kmsg>>
    <3> DEFINE y == <<0, kmsg>>
    <3>1. y \in Placed /\ y[2].kdat = kmsg.kdat /\ x # y
      BY <1>4, <2>3
    <3> HIDE DEF y
    <3>2. x[2].kdat # kmsg.kdat
      BY <2>3, <3>1 DEF IInv, BodyInv
    <3>3. pages[t][i] = x[2].kdat /\ (<<t, i>> \in Left => <<t, i>> \in Left')
      BY <1>11, <2>1, <3>2
    <3> QED BY <2>3, <3>3 DEF IInv, SeenByOwner, Left
  <2> QED BY <1>10, <2>2, <2>3
<1> QED BY <1>12, <1>13, <1>14, <1>15, <1>16 DEF IInv

\* Every step of the system keeps the invariant.
LEMMA BodiesStep == IInv /\ [Next]_vars => IInv'
<1> SUFFICES ASSUME IInv, [Next]_vars PROVE IInv'
  OBVIOUS
<1>0. current \in alive /\ cr3 = current
  BY DEF IInv, BodyTypes
<1>1. ASSUME NEW t \in Task, task_switch(t) PROVE IInv'
  BY <1>1, SwitchKeepsBodies DEF task_switch, swpdir, hist, space
<1>2. CASE task_newtask
  BY <1>2, NewTaskKeepsBodies
<1>3. ASSUME NEW base \in Port, NEW len \in Port,
             syscall_reqio(base, len) \/ syscall_blkio(base, len)
      PROVE  IInv'
  BY <1>0, <1>3, SwitchKeepsBodies DEF syscall_reqio, syscall_blkio, turn, hist, space
<1>4. ASSUME NEW bufsz \in Size, syscall_msg_req(bufsz) PROVE IInv'
  BY <1>4, RequestKeepsBodies
<1>5. ASSUME NEW msg \in mine[current], syscall_msg_free(msg) PROVE IInv'
  BY <1>5, FreeKeepsBodies
<1>6. ASSUME NEW msg \in mine[current], NEW msgsz \in Size, NEW pid \in Task \ {0},
             syscall_msg_send(msg, msgsz, pid)
      PROVE  IInv'
  BY <1>6, SendKeepsBodies
<1>7. CASE syscall_msg_recv
  BY <1>7, ReceiveKeepsBodies
<1>8. CASE UNCHANGED vars
  BY <1>0, <1>8, SwitchKeepsBodies DEF vars, turn, hist, space
<1> QED BY <1>1, <1>2, <1>3, <1>4, <1>5, <1>6, <1>7, <1>8 DEF Next

\* Through every sequence of requests, sends of all sizes, receives, releases and
\* creations of tasks, whoever but its program has a page of a message mapped has it
\* mapped since a release or since clonedir left the entry as it found it.
THEOREM BodiesSeenByOwner == Spec => []SeenByOwner
<1>1. IInv => SeenByOwner
  BY DEF IInv
<1> QED BY <1>1, BodiesInit, BodiesStep, PTL DEF Spec

-----------------------------------------------------------------------------
(* What a program obtained last.                                           *)

\* Tasks are created in the order of their numbers, so that a new one is none of
\* those alive, whose pages would be replaced.
LastInv ==
    /\ \E n \in Nat : alive = 0 .. n
    /\ last \in [Task -> Body \cup {NONE}]
    /\ \A t \in Task \ alive : last[t] = NONE
    /\ LastIsMapped

LEMMA LastInit == Init => LastInv
<1> SUFFICES ASSUME Init PROVE LastInv
  OBVIOUS
<1>1. 0 \in Nat /\ alive = 0 .. 0
  BY DEF Init
<1>2. last = [t \in Task |-> NONE] /\ alive \subseteq Task
  BY ContextsAssumption DEF Init, Task
<1> QED BY <1>1, <1>2 DEF LastInv, LastIsMapped

\* A step that leaves the pages and the messages of the other tasks alone keeps what
\* they have mapped, and has to be looked at for the running task only.
LEMMA LastOfOthers ==
    ASSUME BodyTypes, LastInv, UNCHANGED <<alive, current>>,
           NEW had \in SUBSET Message, mine' = [mine EXCEPT ![current] = had],
           NEW dir, pages' = [pages EXCEPT ![current] = dir],
           NEW b \in Body \cup {NONE}, last' = [last EXCEPT ![current] = b],
           b # NONE => \E msg \in had :
               msg.kdat = b /\ \A i \in 0 .. Pages(msg.msgsz) - 1 : dir[i] = msg.kdat
    PROVE  LastInv'
<1>1. current \in alive /\ current \in Task /\ alive \subseteq Task
  BY DEF BodyTypes
<1>2. /\ mine'[current] = had /\ pages'[current] = dir /\ last'[current] = b
      /\ \A t \in Task : t # current =>
            mine'[t] = mine[t] /\ pages'[t] = pages[t] /\ last'[t] = last[t]
  BY <1>1 DEF BodyTypes, LastInv
<1>3. LastIsMapped'
  <2> SUFFICES ASSUME NEW t \in alive, last'[t] # NONE
               PROVE  \E msg \in mine'[t] :
                          /\ msg.kdat = last'[t]
                          /\ \A i \in 0 .. Pages(msg.msgsz) - 1 : pages'[t][i] = msg.kdat
    BY DEF LastIsMapped
  <2>1. CASE t = current
    BY <1>2, <2>1
  <2>2. CASE t # current
    BY <1>1, <1>2, <2>2 DEF LastInv, LastIsMapped
  <2> QED BY <2>1, <2>2
<1>4. last' \in [Task -> Body \cup {NONE}] /\ \A t \in Task \ alive : last'[t] = NONE
  BY <1>1, <1>2 DEF LastInv
<1> QED BY <1>3, <1>4 DEF LastInv

\* Every step keeps what was obtained last mapped.
LEMMA LastStep == IInv /\ LastInv /\ [Next]_vars => LastInv'
<1> SUFFICES ASSUME IInv, LastInv, [Next]_vars PROVE LastInv'
  OBVIOUS
<1>0. /\ BodyTypes /\ current \in Task /\ cr3 = current /\ mine[current] \in SUBSET Message
      /\ pages[current] \in [Index -> Body \cup {NONE, ALIEN}]
  BY DEF IInv, BodyTypes
<1>1. ASSUME UNCHANGED <<alive, pages, mine, last>> PROVE LastInv'
  BY <1>1 DEF LastInv, LastIsMapped
<1>2. CASE task_newtask
  <2>1. PICK n \in Nat : alive = 0 .. n
    BY DEF LastInv
  <2>2. Cardinality(alive) = n + 1
    BY <2>1, FS_Interval
  <2>3. PICK dir : pages' = [pages EXCEPT ![n + 1] = dir]
    BY <1>2, <2>2 DEF task_newtask
  <2>4. alive' = 0 .. n + 1 /\ n + 1 \in Task /\ n + 1 \notin alive /\ UNCHANGED <<mine, last>>
    BY <1>2, <2>1, <2>2 DEF task_newtask, hist, space
  <2>5. \A t \in alive : t \in alive' /\ t \in Task /\ pages'[t] = pages[t]
    BY <1>0, <2>1, <2>3, <2>4 DEF BodyTypes
  <2>6. \A t \in alive' : t \in alive \/ last'[t] = NONE
    BY <2>1, <2>4 DEF LastInv
  <2>7. LastIsMapped'
    BY <2>4, <2>5, <2>6 DEF LastInv, LastIsMapped
  <2>8. n + 1 \in Nat /\ \A t \in Task \ alive' : last'[t] = NONE
    BY <2>4, <2>5 DEF LastInv
  <2> QED BY <2>4, <2>7, <2>8 DEF LastInv
<1>3. ASSUME NEW bufsz \in Size, syscall_msg_req(bufsz) PROVE LastInv'
  <2>1. PICK kdat \in Body :
            /\ mine' = [mine EXCEPT ![current] = @ \cup {[kdat |-> kdat, msgsz |-> bufsz]}]
            /\ remappg(kdat, bufsz)
            /\ last' = [last EXCEPT ![current] = kdat]
    BY <1>3 DEF syscall_msg_req
  <2> DEFINE new == [kdat |-> kdat, msgsz |-> bufsz]
             had == mine[current] \cup {new}
             dir == [i \in Index |-> IF i < Pages(bufsz) THEN kdat ELSE pages[current][i]]
  <2>2. bufsz \in 1 .. MSG_MAXSZ /\ UNCHANGED <<alive, current>>
    BY <1>3, ContextsAssumption DEF syscall_msg_req, turn
  <2>3. new \in Message /\ new \in had /\ new.kdat = kdat /\ new.msgsz = bufsz
    BY <2>2 DEF Message
  <2>4. \A i \in 0 .. Pages(bufsz) - 1 : dir[i] = kdat
    BY <2>2, PagesInWindow, PagesMonotone
  <2>5. mine' = [mine EXCEPT ![current] = had] /\ pages' = [pages EXCEPT ![current] = dir]
    BY <1>0, <2>1 DEF remappg, BodyTypes
  <2>6. had \in SUBSET Message
    BY <1>0, <2>3
  <2> HIDE DEF new, had, dir
  <2>7. \E msg \in had :
            msg.kdat = kdat /\ \A i \in 0 .. Pages(msg.msgsz) - 1 : dir[i] = msg.kdat
    BY <2>3, <2>4
  <2>8. last' = [last EXCEPT ![current] = kdat] /\ kdat \in Body \cup {NONE}
    BY <2>1
  <2> QED BY <1>0, <2>2, <2>5, <2>6, <2>7, <2>8, LastOfOthers, ZenonT(40)
<1>4. ASSUME NEW msg \in mine[current], syscall_msg_free(msg) PROVE LastInv'
  <2> DEFINE had == mine[current] \ {msg}
             b   == IF last[current] = msg.kdat THEN NONE ELSE last[current]
  <2>1. /\ UNCHANGED <<alive, current, pages>>
        /\ mine' = [mine EXCEPT ![current] = had]
        /\ last' = [last EXCEPT ![current] = b]
    BY <1>4 DEF syscall_msg_free, turn, space
  <2>2. had \in SUBSET Message /\ b \in Body \cup {NONE}
    BY <1>0 DEF LastInv
  <2>3. pages' = [pages EXCEPT ![current] = pages[current]]
    BY <1>0, <2>1 DEF BodyTypes
  <2>4. b # NONE => \E m \in had :
            m.kdat = b /\ \A i \in 0 .. Pages(m.msgsz) - 1 : pages[current][i] = m.kdat
    BY <1>0 DEF LastInv, LastIsMapped, BodyTypes
  <2> HIDE DEF had, b
  <2> QED BY <1>0, <2>1, <2>2, <2>3, <2>4, LastOfOthers
<1>5. ASSUME NEW msg \in mine[current], NEW msgsz \in Size, NEW pid \in Task \ {0},
             syscall_msg_send(msg, msgsz, pid)
      PROVE  LastInv'
  <2> DEFINE had == mine[current] \ {msg}
             dir == [i \in Index |-> IF i < Pages(msgsz) THEN NONE ELSE pages[current][i]]
  <2>1. /\ UNCHANGED <<alive, current>>
        /\ mine' = [mine EXCEPT ![current] = had]
        /\ last' = [last EXCEPT ![current] = NONE]
        /\ pages' = [pages EXCEPT ![current] = dir]
    BY <1>0, <1>5 DEF syscall_msg_send, turn, remappg
  <2>2. had \in SUBSET Message
    BY <1>0
  <2> HIDE DEF had, dir
  <2> QED BY <1>0, <2>1, <2>2, LastOfOthers
<1>6. CASE syscall_msg_recv
  <2> DEFINE kmsg == Head(mail[current])
             had  == mine[current] \cup {kmsg}
             dir  == [i \in Index |-> IF i < Pages(kmsg.msgsz) THEN kmsg.kdat ELSE pages[current][i]]
  <2>1. /\ UNCHANGED <<alive, current>>
        /\ mine' = [mine EXCEPT ![current] = had]
        /\ last' = [last EXCEPT ![current] = kmsg.kdat]
        /\ pages' = [pages EXCEPT ![current] = dir]
    BY <1>0, <1>6 DEF syscall_msg_recv, turn, remappg
  <2>2. kmsg \in Message
    BY <1>0, <1>6 DEF syscall_msg_recv, BodyTypes
  <2> HIDE DEF kmsg
  <2>3. kmsg.kdat \in Body /\ kmsg.msgsz \in 1 .. MSG_MAXSZ
    BY <2>2 DEF Message
  <2>4. \A i \in 0 .. Pages(kmsg.msgsz) - 1 : dir[i] = kmsg.kdat
    BY <2>3, PagesInWindow, PagesMonotone
  <2>5. had \in SUBSET Message /\ kmsg \in had
    BY <1>0, <2>2
  <2> HIDE DEF had, dir
  <2>6. \E msg \in had :
            msg.kdat = kmsg.kdat /\ \A i \in 0 .. Pages(msg.msgsz) - 1 : dir[i] = msg.kdat
    BY <2>4, <2>5
  <2> QED BY <1>0, <2>1, <2>3, <2>5, <2>6, LastOfOthers
<1>7. ASSUME NEW t \in Task, task_switch(t) PROVE LastInv'
  BY <1>1, <1>7 DEF task_switch, hist, space
<1>8. ASSUME NEW base \in Port, NEW len \in Port,
             syscall_reqio(base, len) \/ syscall_blkio(base, len)
      PROVE  LastInv'
  BY <1>1, <1>8 DEF syscall_reqio, syscall_blkio, turn, hist, space
<1>9. CASE UNCHANGED vars
  BY <1>1, <1>9 DEF vars, turn, hist, space
<1> QED BY <1>2, <1>3, <1>4, <1>5, <1>6, <1>7, <1>8, <1>9 DEF Next

\* The message a program requested or received last stays mapped in full until the
\* program sends one, through every switch, release and creation of tasks.
THEOREM BodiesLastIsMapped == Spec => []LastIsMapped
<1>1. LastInv => LastIsMapped
  BY DEF LastInv
<1>2. Init => IInv /\ LastInv
  BY BodiesInit, LastInit
<1>3. (IInv /\ LastInv) /\ [Next]_vars => (IInv /\ LastInv)'
  BY BodiesStep, LastStep
<1> QED BY <1>1, <1>2, <1>3, PTL DEF Spec

-----------------------------------------------------------------------------
(* Bodies are neither leaked nor shared.                                   *)

\* Body b belongs to a message: of a program, sent to nobody, or under way.
Owned(b) ==
    \/ \E t \in Task : \E msg \in mine[t] : msg.kdat = b
    \/ \E n \in lost : n.kdat = b
    \/ \E t \in Task : \E k \in 1 .. Len(mail[t]) : mail[t][k].kdat = b

\* Every body allocated belongs to a message, there are finitely many, and the kernel
\* accepted what is under way.
HeapInv ==
    /\ IsFiniteSet(heap)
    /\ \A b \in heap : Owned(b)
    /\ \A t \in Task : \A k \in 1 .. Len(mail[t]) : mail[t][k].msgsz < MSG_MAXSZ

\* At first nothing is allocated.
LEMMA HeapInit == Init => HeapInv
<1> SUFFICES ASSUME Init PROVE HeapInv
  OBVIOUS
<1>1. heap = {} /\ \A t \in Task : Len(mail[t]) = 0
  BY DEF Init
<1> QED BY <1>1, FS_EmptySet DEF HeapInv

\* Requests, releases, sends and receives move bodies between messages and lose none.
LEMMA HeapStep == IInv /\ HeapInv /\ [Next]_vars => HeapInv'
<1> SUFFICES ASSUME IInv, HeapInv, [Next]_vars PROVE HeapInv'
  OBVIOUS
<1>0. /\ current \in Task /\ mine \in [Task -> SUBSET Message] /\ mail \in [Task -> Seq(Message)]
      /\ lost \subseteq Message
  BY DEF IInv, BodyTypes
<1>1. ASSUME UNCHANGED <<heap, mine, mail, lost>> PROVE HeapInv'
  BY <1>1 DEF HeapInv, Owned
<1>2. ASSUME NEW bufsz \in Size, syscall_msg_req(bufsz) PROVE HeapInv'
  <2>1. PICK kdat \in Body :
            /\ heap' = heap \cup {kdat}
            /\ mine' = [mine EXCEPT ![current] = @ \cup {[kdat |-> kdat, msgsz |-> bufsz]}]
    BY <1>2 DEF syscall_msg_req
  <2> DEFINE new == [kdat |-> kdat, msgsz |-> bufsz]
  <2>2. mail' = mail /\ lost' = lost
    BY <1>2 DEF syscall_msg_req
  <2>3. new \in mine'[current] /\ new.kdat = kdat /\ \A t \in Task : mine[t] \subseteq mine'[t]
    BY <1>0, <2>1
  <2>4. IsFiniteSet(heap')
    BY <2>1, FS_AddElement DEF HeapInv
  <2> HIDE DEF new
  <2>5. \A b \in heap' : Owned(b)'
    BY <1>0, <2>1, <2>2, <2>3 DEF HeapInv, Owned
  <2> QED BY <2>2, <2>4, <2>5 DEF HeapInv
<1>3. ASSUME NEW msg \in mine[current], syscall_msg_free(msg) PROVE HeapInv'
  <2>1. /\ heap' = heap \ {msg.kdat} /\ mine' = [mine EXCEPT ![current] = @ \ {msg}]
        /\ mail' = mail /\ lost' = lost
    BY <1>3 DEF syscall_msg_free
  <2>2. IsFiniteSet(heap')
    BY <2>1, FS_RemoveElement DEF HeapInv
  <2>3. \A t \in Task : \A m \in mine[t] : m # msg => m \in mine'[t]
    BY <1>0, <2>1
  <2>4. \A b \in heap' : Owned(b)'
    BY <2>1, <2>3 DEF HeapInv, Owned
  <2> QED BY <2>1, <2>2, <2>4 DEF HeapInv
<1>4. ASSUME NEW msg \in mine[current], NEW msgsz \in Size, NEW pid \in Task \ {0},
             syscall_msg_send(msg, msgsz, pid)
      PROVE  HeapInv'
  <2> DEFINE sent == [msg EXCEPT !.msgsz = msgsz]
  <2>1. /\ heap' = heap /\ mine' = [mine EXCEPT ![current] = @ \ {msg}] /\ msgsz < MSG_MAXSZ
        /\ \/ mail' = [mail EXCEPT ![pid] = Append(@, sent)] /\ lost' = lost
           \/ lost' = lost \cup {sent} /\ mail' = mail
    BY <1>4 DEF syscall_msg_send, Accepted
  <2>2. msg \in Message
    BY <1>0
  <2>3. sent.kdat = msg.kdat /\ sent.msgsz = msgsz
    BY <2>2 DEF Message
  <2> HIDE DEF sent
  <2>4. \A t \in Task : \A m \in mine[t] : m \in mine'[t] \/ m = msg
    BY <1>0, <2>1
  <2>5. CASE lost' = lost \cup {sent} /\ mail' = mail
    BY <2>1, <2>3, <2>4, <2>5 DEF HeapInv, Owned
  <2>6. CASE mail' = [mail EXCEPT ![pid] = Append(@, sent)] /\ lost' = lost
    <3>1. /\ mail'[pid] = Append(mail[pid], sent) /\ mail[pid] \in Seq(Message)
          /\ \A t \in Task : t # pid => mail'[t] = mail[t]
      BY <1>0, <2>6
    <3>2. /\ Len(mail'[pid]) = Len(mail[pid]) + 1 /\ Len(mail[pid]) \in Nat
          /\ mail'[pid][Len(mail[pid]) + 1] = sent
          /\ \A k \in 1 .. Len(mail[pid]) : mail'[pid][k] = mail[pid][k]
      BY <3>1
    <3>3. \A t \in Task : \A k \in 1 .. Len(mail[t]) :
              k \in 1 .. Len(mail'[t]) /\ mail'[t][k] = mail[t][k]
      BY <3>1, <3>2
    <3>4. \A t \in Task : \A k \in 1 .. Len(mail'[t]) :
              \/ k \in 1 .. Len(mail[t]) /\ mail'[t][k] = mail[t][k]
              \/ mail'[t][k] = sent
      <4> TAKE t \in Task
      <4> TAKE k \in 1 .. Len(mail'[t])
      <4>1. CASE t # pid
        <5>1. mail'[t] = mail[t]
          BY <3>1, <4>1
        <5> QED BY <5>1
      <4>2. CASE t = pid /\ k = Len(mail[pid]) + 1
        BY <3>2, <4>2
      <4>3. CASE t = pid /\ k # Len(mail[pid]) + 1
        <5>1. k \in 1 .. Len(mail[pid])
          BY <3>2, <4>3
        <5> QED BY <3>2, <4>3, <5>1
      <4> QED BY <4>1, <4>2, <4>3
    <3>5. \E k \in 1 .. Len(mail'[pid]) : mail'[pid][k] = sent
      BY <3>2
    <3>6. \A t \in Task : \A k \in 1 .. Len(mail'[t]) : mail'[t][k].msgsz < MSG_MAXSZ
      BY <2>1, <2>3, <3>4 DEF HeapInv
    <3>7. \A b \in heap' : Owned(b)'
      <4> SUFFICES ASSUME NEW b \in heap PROVE Owned(b)'
        BY <2>1
      <4>1. CASE \E t \in Task : \E m \in mine[t] : m.kdat = b
        BY <2>3, <2>4, <3>5, <4>1 DEF Owned
      <4>2. CASE \E n \in lost : n.kdat = b
        BY <2>6, <4>2 DEF Owned
      <4>3. CASE \E t \in Task : \E k \in 1 .. Len(mail[t]) : mail[t][k].kdat = b
        BY <3>3, <4>3 DEF Owned
      <4> QED BY <4>1, <4>2, <4>3 DEF HeapInv, Owned
    <3> QED BY <2>1, <3>6, <3>7 DEF HeapInv
  <2> QED BY <2>1, <2>5, <2>6
<1>5. CASE syscall_msg_recv
  <2> DEFINE kmsg == Head(mail[current])
  <2>1. /\ mail[current] # <<>> /\ heap' = heap /\ lost' = lost
        /\ mine' = [mine EXCEPT ![current] = @ \cup {kmsg}]
        /\ mail' = [mail EXCEPT ![current] = Tail(@)]
    BY <1>5 DEF syscall_msg_recv
  <2>2. /\ mail'[current] = Tail(mail[current]) /\ mail[current] \in Seq(Message)
        /\ \A t \in Task : t # current => mail'[t] = mail[t]
        /\ kmsg \in mine'[current] /\ \A t \in Task : mine[t] \subseteq mine'[t]
    BY <1>0, <2>1
  <2>3. /\ Len(mail'[current]) = Len(mail[current]) - 1 /\ Len(mail[current]) \in Nat \ {0}
        /\ kmsg = mail[current][1]
        /\ \A k \in 1 .. Len(mail'[current]) : mail'[current][k] = mail[current][k + 1]
    <3> DEFINE s == mail[current]
    <3>1. s \in Seq(Message) /\ s # <<>> /\ mail'[current] = Tail(s)
      BY <2>1, <2>2
    <3> HIDE DEF s
    <3>2. /\ Len(Tail(s)) = Len(s) - 1 /\ Len(s) \in Nat \ {0} /\ Head(s) = s[1]
          /\ \A k \in 1 .. Len(Tail(s)) : Tail(s)[k] = s[k + 1]
      BY <3>1
    <3> QED BY <3>1, <3>2 DEF s
  <2> HIDE DEF kmsg
  <2>4. \A t \in Task : \A k \in 1 .. Len(mail'[t]) :
            \E l \in 1 .. Len(mail[t]) : mail'[t][k] = mail[t][l]
    <3> TAKE t \in Task
    <3> TAKE k \in 1 .. Len(mail'[t])
    <3>1. CASE t = current
      <4>1. k + 1 \in 1 .. Len(mail[t])
        BY <2>3, <3>1
      <4> QED BY <2>3, <3>1, <4>1
    <3>2. CASE t # current
      BY <2>2, <3>2
    <3> QED BY <3>1, <3>2
  <2>5. \A t \in Task : \A l \in 1 .. Len(mail[t]) :
            \/ \E k \in 1 .. Len(mail'[t]) : mail'[t][k] = mail[t][l]
            \/ mail[t][l] = kmsg
    <3> TAKE t \in Task
    <3> TAKE l \in 1 .. Len(mail[t])
    <3>1. CASE t = current /\ l # 1
      <4>1. l - 1 \in 1 .. Len(mail'[t]) /\ (l - 1) + 1 = l
        BY <2>3, <3>1
      <4> QED BY <2>3, <3>1, <4>1
    <3>2. CASE t # current
      BY <2>2, <3>2
    <3> QED BY <2>3, <3>1, <3>2
  <2>6. \A b \in heap' : Owned(b)'
    <3> SUFFICES ASSUME NEW b \in heap PROVE Owned(b)'
      BY <2>1
    <3>1. CASE \E t \in Task : \E m \in mine[t] : m.kdat = b
      BY <2>2, <3>1 DEF Owned
    <3>2. CASE \E n \in lost : n.kdat = b
      BY <2>1, <3>2 DEF Owned
    <3>3. CASE \E t \in Task : \E k \in 1 .. Len(mail[t]) : mail[t][k].kdat = b
      BY <1>0, <2>2, <2>5, <3>3 DEF Owned
    <3> QED BY <3>1, <3>2, <3>3 DEF HeapInv, Owned
  <2>7. \A t \in Task : \A k \in 1 .. Len(mail'[t]) : mail'[t][k].msgsz < MSG_MAXSZ
    BY <2>4 DEF HeapInv
  <2> QED BY <2>1, <2>6, <2>7 DEF HeapInv
<1>6. ASSUME NEW t \in Task, task_switch(t) PROVE HeapInv'
  BY <1>1, <1>6 DEF task_switch, hist, space
<1>7. CASE task_newtask
  BY <1>1, <1>7 DEF task_newtask, hist, space
<1>8. ASSUME NEW base \in Port, NEW len \in Port,
             syscall_reqio(base, len) \/ syscall_blkio(base, len)
      PROVE  HeapInv'
  BY <1>1, <1>8 DEF syscall_reqio, syscall_blkio, hist, space
<1>9. CASE UNCHANGED vars
  BY <1>1, <1>9 DEF vars, hist, space
<1> QED BY <1>2, <1>3, <1>4, <1>5, <1>6, <1>7, <1>8, <1>9 DEF Next

\* A one-to-one map onto a finite set counts it.
LEMMA CountedBy ==
    ASSUME NEW S, NEW T, IsFiniteSet(T), NEW f \in [S -> T],
           \A x, y \in S : f[x] = f[y] => x = y,
           \A b \in T : \E x \in S : f[x] = b
    PROVE  Cardinality(S) = Cardinality(T)
<1>1. f \in Injection(S, T)
  BY DEF Injection, IsInjective
<1>2. f \in Surjection(S, T)
  BY DEF Surjection
<1> QED BY <1>1, <1>2, FS_Injection

\* Every body belongs to a message and no two messages have the same, so that bodies
\* and messages are equally many.
LEMMA AsManyBodies ==
    ASSUME IInv, HeapInv
    PROVE  Cardinality(heap) =
               Cardinality(lost) + Cardinality(UNION {{<<t, msg>> : msg \in mine[t]} : t \in Task}) +
               Cardinality(UNION {{<<t, k>> : k \in DOMAIN mail[t]} : t \in Task})
<1> DEFINE M  == UNION {{<<t, msg>> : msg \in mine[t]} : t \in Task}
           K  == UNION {{<<t, k>> : k \in DOMAIN mail[t]} : t \in Task}
           BL == {b \in heap : \E n \in lost : n.kdat = b}
           BM == {b \in heap : \E t \in Task : \E msg \in mine[t] : msg.kdat = b}
           BK == {b \in heap : \E t \in Task : \E k \in 1 .. Len(mail[t]) : mail[t][k].kdat = b}
<1>0. /\ mine \in [Task -> SUBSET Message] /\ mail \in [Task -> Seq(Message)] /\ lost \subseteq Message
      /\ 0 \in Task
  BY ContextsAssumption DEF IInv, BodyTypes, Task
<1>1. \A t \in Task : mail[t] \in Seq(Message) /\ DOMAIN mail[t] = 1 .. Len(mail[t])
  BY <1>0
<1>2. \A x : x \in M <=> \E t \in Task : \E msg \in mine[t] : x = <<t, msg>>
  OBVIOUS
<1>3. \A x : x \in K <=> \E t \in Task : \E k \in 1 .. Len(mail[t]) : x = <<t, k>>
  BY <1>1
<1>4. heap = (BL \cup BM) \cup BK
  BY DEF HeapInv, Owned
\* Where messages are.
<1>5. \A t \in Task : \A msg \in mine[t] : <<t, msg>> \in Placed /\ t # 0
  BY <1>0 DEF Placed, IInv, BootInv
<1>6. \A n \in lost : <<0, n>> \in Placed
  BY <1>0 DEF Placed
<1>7. \A t \in Task : \A k \in 1 .. Len(mail[t]) : <<0, mail[t][k]>> \in Placed
  <2> TAKE t \in Task
  <2> TAKE k \in 1 .. Len(mail[t])
  <2>1. mail[t][k] \in Message /\ k \in DOMAIN mail[t]
    BY <1>1
  <2> QED BY <1>0, <2>1 DEF Placed
<1>8. /\ \A x \in Placed : x[2].kdat \in heap
      /\ \A x, y \in Placed : x[2].kdat = y[2].kdat => x = y
      /\ \A t, u \in Task : \A k \in 1 .. Len(mail[t]), l \in 1 .. Len(mail[u]) :
            mail[t][k].kdat = mail[u][l].kdat => t = u /\ k = l
      /\ \A t \in Task : \A k \in 1 .. Len(mail[t]) : \A n \in lost : mail[t][k].kdat # n.kdat
  BY DEF IInv, BodyInv
<1>9. ASSUME NEW t, NEW m, NEW u, NEW n, <<t, m>> \in Placed, <<u, n>> \in Placed, m.kdat = n.kdat
      PROVE  t = u /\ m = n
  BY <1>8, <1>9
<1>10. ASSUME NEW t, NEW m, <<t, m>> \in Placed PROVE m.kdat \in heap
  BY <1>8, <1>10
<1> HIDE DEF M, K
<1>11. Cardinality(lost) = Cardinality(BL)
  <2> DEFINE f == [n \in lost |-> n.kdat]
  <2>1. f \in [lost -> BL]
    BY <1>6, <1>10
  <2>2. \A x, y \in lost : f[x] = f[y] => x = y
    BY <1>6, <1>9
  <2>3. \A b \in BL : \E x \in lost : f[x] = b
    OBVIOUS
  <2>4. IsFiniteSet(BL)
    BY FS_Subset DEF HeapInv
  <2> HIDE DEF f, BL
  <2> QED BY <2>1, <2>2, <2>3, <2>4, CountedBy
<1>12. Cardinality(M) = Cardinality(BM)
  <2> DEFINE f == [x \in M |-> x[2].kdat]
  <2>1. \A x \in M : x = <<x[1], x[2]>> /\ x[1] \in Task /\ x[2] \in mine[x[1]]
    BY <1>2
  <2>2. f \in [M -> BM]
    BY <1>5, <1>10, <2>1
  <2>3. \A x, y \in M : f[x] = f[y] => x = y
    BY <1>5, <1>9, <2>1
  <2>4. \A b \in BM : \E x \in M : f[x] = b
    <3> TAKE b \in BM
    <3>1. PICK t \in Task : \E msg \in mine[t] : msg.kdat = b
      OBVIOUS
    <3>2. PICK msg \in mine[t] : msg.kdat = b
      BY <3>1
    <3>3. <<t, msg>> \in M
      BY <1>2
    <3> QED BY <3>2, <3>3
  <2>5. IsFiniteSet(BM)
    BY FS_Subset DEF HeapInv
  <2> HIDE DEF f, BM
  <2> QED BY <2>2, <2>3, <2>4, <2>5, CountedBy
<1>13. Cardinality(K) = Cardinality(BK)
  <2> DEFINE f == [x \in K |-> mail[x[1]][x[2]].kdat]
  <2>1. \A x \in K : x = <<x[1], x[2]>> /\ x[1] \in Task /\ x[2] \in 1 .. Len(mail[x[1]])
    BY <1>3
  <2>2. f \in [K -> BK]
    BY <1>7, <1>10, <2>1
  <2>3. \A x, y \in K : f[x] = f[y] => x = y
    BY <1>8, <2>1
  <2>4. \A b \in BK : \E x \in K : f[x] = b
    <3> TAKE b \in BK
    <3>1. PICK t \in Task : \E k \in 1 .. Len(mail[t]) : mail[t][k].kdat = b
      OBVIOUS
    <3>2. PICK k \in 1 .. Len(mail[t]) : mail[t][k].kdat = b
      BY <3>1
    <3>3. <<t, k>> \in K
      BY <1>3
    <3> QED BY <3>2, <3>3
  <2>5. IsFiniteSet(BK)
    BY FS_Subset DEF HeapInv
  <2> HIDE DEF f, BK
  <2> QED BY <2>2, <2>3, <2>4, <2>5, CountedBy
<1>14. BL \cap BM = {}
  <2> SUFFICES ASSUME NEW n \in lost, NEW t \in Task, NEW msg \in mine[t], msg.kdat = n.kdat PROVE FALSE
    OBVIOUS
  <2> QED BY <1>5, <1>6, <1>9
<1>15. (BL \cup BM) \cap BK = {}
  <2>1. BL \cap BK = {}
    BY <1>8
  <2>2. BM \cap BK = {}
    <3> SUFFICES ASSUME NEW t \in Task, NEW msg \in mine[t], NEW u \in Task, NEW k \in 1 .. Len(mail[u]),
                        msg.kdat = mail[u][k].kdat
                 PROVE  FALSE
      OBVIOUS
    <3>1. <<t, msg>> \in Placed /\ t # 0 /\ <<0, mail[u][k]>> \in Placed
      BY <1>5, <1>7
    <3> QED BY <1>9, <3>1
  <2> QED BY <2>1, <2>2
<1>16. IsFiniteSet(BL) /\ IsFiniteSet(BM) /\ IsFiniteSet(BK)
  BY FS_Subset DEF HeapInv
<1> HIDE DEF BL, BM, BK
<1>17. /\ IsFiniteSet(BL \cup BM)
       /\ Cardinality(BL \cup BM) = Cardinality(BL) + Cardinality(BM)
  <2>1. /\ IsFiniteSet(BL \cup BM)
        /\ Cardinality(BL \cup BM) = Cardinality(BL) + Cardinality(BM) - Cardinality(BL \cap BM)
    BY <1>16, FS_Union
  <2>2. Cardinality(BL) \in Nat /\ Cardinality(BM) \in Nat /\ Cardinality({}) = 0
    BY <1>16, FS_CardinalityType, FS_EmptySet
  <2>3. Cardinality(BL \cap BM) = 0
    BY <1>14, <2>2
  <2> QED BY <2>1, <2>2, <2>3
<1>18. Cardinality(heap) = Cardinality(BL \cup BM) + Cardinality(BK)
  <2>1. Cardinality((BL \cup BM) \cup BK) =
            Cardinality(BL \cup BM) + Cardinality(BK) - Cardinality((BL \cup BM) \cap BK)
    BY <1>16, <1>17, FS_Union
  <2>2. Cardinality(BL \cup BM) \in Nat /\ Cardinality(BK) \in Nat /\ Cardinality({}) = 0
    BY <1>16, <1>17, FS_CardinalityType, FS_EmptySet
  <2>3. Cardinality((BL \cup BM) \cap BK) = 0
    BY <1>15, <2>2
  <2> QED BY <1>4, <2>1, <2>2, <2>3
<1> QED BY <1>11, <1>12, <1>13, <1>17, <1>18 DEF M, K

\* A body is allocated exactly as long as one message has it, with its program, under
\* way or, for good, sent to nobody, and no two messages have the same, through every
\* sequence of requests, releases, sends and receives by all tasks, where no ring is
\* overrun.
THEOREM ContextsOneMessagePerBody == Spec => []OneMessagePerBody
<1>1. TurnInv /\ IInv /\ HeapInv => OneMessagePerBody
  <2> SUFFICES ASSUME TurnInv, IInv, HeapInv PROVE OneMessagePerBody
    OBVIOUS
  <2>1. TypeOK
    <3>1. /\ alive \subseteq Task /\ current \in alive /\ cr3 \in alive
          /\ pages \in [Task -> [Index -> Body \cup {NONE, ALIEN}]]
          /\ tabled \subseteq alive /\ heap \subseteq Body /\ lost \subseteq Message
      BY DEF IInv, BodyTypes
    <3>2. tss.esp0 \in alive \cup {NONE} /\ tss.open \subseteq Port
      BY <3>1 DEF TurnInv, PortsInv, RunsAsItself
    <3>3. \A t \in Task : iobm[t] = NONE \/ iobm[t] \subseteq Port
      BY DEF TurnInv, PortsInv
    <3>4. ASSUME NEW t \in Task
          PROVE  /\ mine[t] \subseteq Message
                 /\ \A k \in DOMAIN mail[t] : mail[t][k] \in Message /\ mail[t][k].msgsz < MSG_MAXSZ
      <4>1. mine[t] \subseteq Message /\ mail[t] \in Seq(Message)
        BY DEF IInv, BodyTypes
      <4> QED BY <4>1 DEF HeapInv
    <3> QED BY <3>1, <3>2, <3>3, <3>4 DEF TypeOK
  <2>2. \A b \in heap : \E x \in Placed : x[2].kdat = b
    <3> TAKE b \in heap
    <3>0. /\ mine \in [Task -> SUBSET Message] /\ mail \in [Task -> Seq(Message)]
          /\ lost \subseteq Message /\ 0 \in Task
      BY ContextsAssumption DEF IInv, BodyTypes, Task
    <3>1. ASSUME NEW t \in Task, NEW msg \in mine[t], msg.kdat = b PROVE \E x \in Placed : x[2].kdat = b
      <4>1. <<t, msg>> \in Placed
        BY <3>0 DEF Placed
      <4> QED BY <3>1, <4>1
    <3>2. ASSUME NEW n \in lost, n.kdat = b PROVE \E x \in Placed : x[2].kdat = b
      <4>1. <<0, n>> \in Placed
        BY <3>0 DEF Placed
      <4> QED BY <3>2, <4>1
    <3>3. ASSUME NEW t \in Task, NEW k \in 1 .. Len(mail[t]), mail[t][k].kdat = b
          PROVE  \E x \in Placed : x[2].kdat = b
      <4>1. mail[t] \in Seq(Message) /\ mail[t][k] \in Message /\ k \in DOMAIN mail[t]
        BY <3>0
      <4>2. <<0, mail[t][k]>> \in Placed
        BY <3>0, <4>1 DEF Placed
      <4> QED BY <3>3, <4>2
    <3> QED BY <3>1, <3>2, <3>3 DEF HeapInv, Owned
  <2>3. \A x \in Placed : x[2].kdat \in heap
    BY DEF IInv, BodyInv
  <2>4. heap = {x[2].kdat : x \in Placed}
    BY <2>2, <2>3
  <2> QED BY <2>1, <2>4, AsManyBodies DEF OneMessagePerBody
<1>2. Init => TurnInv /\ IInv /\ HeapInv
  BY ContextsInit, BodiesInit, HeapInit
<1>3. (TurnInv /\ IInv /\ HeapInv) /\ [Next]_vars => (TurnInv /\ IInv /\ HeapInv)'
  BY ContextsStep, BodiesStep, HeapStep
<1> QED BY <1>1, <1>2, <1>3, PTL DEF Spec
=============================================================================
