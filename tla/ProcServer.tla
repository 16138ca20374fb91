----------------------------- MODULE ProcServer -----------------------------
(***************************************************************************)
(* The process server (apps/procsvr) and the calls of the C library that   *)
(* talk to it: spawnv with __send_preg, find_process, message_release.     *)
(* Programs are any users of these calls; init first spawns the server.    *)
(*                                                                         *)
(* Message passing is taken as one queue per process, which module Ipc     *)
(* shows it to be until a ring overruns or wraps.  Bodies of messages are  *)
(* kept apart from the queues: a body is a kernel buffer, and a process    *)
(* that freed one can still read it, since msg_free does not unmap it.     *)
(***************************************************************************)
EXTENDS Integers, Sequences, FiniteSets, SequencesExt

CONSTANTS
    Files,          \* paths of programs that may be spawned
    PROCSVR,        \* the path of the server
    INITNAME,       \* the name of init
    BYTE,           \* values of a byte, 256
    ZERO,           \* the character '0'
    MAXPROCS,       \* bound: processes
    NBUF,           \* bound: message bodies allocated at a time
    MAXMSGS         \* bound: messages prepared

\* A name is a string: the characters before its 0.
Mark   == 0 .. BYTE - 1
Char   == Mark \ {0}
Names  == Seq(Char)
NONAME == << >>                     \* bytes of a pid read as a name: no program's

ASSUME ByteAssumption  == BYTE \in Nat \ {0} /\ ZERO \in Mark
ASSUME FilesAssumption == /\ Files \in SUBSET Names /\ PROCSVR \in Files
                          /\ INITNAME \in Names \ Files
                          /\ NONAME \notin Files \cup {INITNAME}
ASSUME BoundAssumption == MAXPROCS \in Nat \ {0, 1} /\ NBUF \in Nat /\ MAXMSGS \in Nat

Pids    == 0 .. MAXPROCS - 1
INIT    == 0
SERVER  == 1
Buffer  == 1 .. NBUF
MISSING == -1                       \* find_process: not found
GARBAGE == -2                       \* bytes of a name read as a pid

\* name[strlen(name)] = c, for paths below 127 bytes: a mark of 0 is none.
Name(path, c) == IF c = 0 THEN path ELSE Append(path, c)

\* proc_reg_t, proc_req_t and proc_req_ans_t share their first bytes; pid is that
\* of an answer or the target of a registration.
Body(kind, name, pid) == [kind |-> kind, name |-> name, pid |-> pid]
Blank == Body("blank", NONAME, GARBAGE)

VARIABLES
    next_pid,
    pc,         \* "none", "user", "registering", "finding"; the server: "released"
    spawned,    \* r and path of a spawnv between micro_spawn and __send_preg
    inbox,      \* messages to each process, [src, kdat]
    body,       \* what each buffer holds
    held,       \* buffers allocated
    nsent,      \* messages prepared so far
    proc_tree,  \* nodes in the order a traversal meets them, the root first
    released,   \* the message the server has just released
    \* history
    registered, \* pids in the order parse_procreg saw them
    creator,    \* who spawned or forked each process
    own,        \* per process, the names it has sent registrations for
    answer,     \* per process, the last name it looked up and the pid it got
    stale,      \* the server has answered a message it had released
    unmarked    \* a second process of a name got no mark

kernelVars == <<inbox, body, held, nsent>>
history    == <<registered, creator, own, answer, stale, unmarked>>
vars       == <<next_pid, pc, spawned, kernelVars, proc_tree, released, history>>

NoMessage == [src |-> INIT, kdat |-> 0]

\* proc_init has run by the time the server receives.  It does not set refcount of
\* the root, which nobody reads as long as no second init is spawned.
Init ==
    /\ next_pid = 1
    /\ pc = [p \in Pids |-> IF p = INIT THEN "user" ELSE "none"]
    /\ spawned = [p \in Pids |-> [r |-> 0, path |-> PROCSVR]]
    /\ inbox = [p \in Pids |-> <<>>]
    /\ body = [b \in Buffer |-> Blank]
    /\ held = {}
    /\ nsent = 0
    /\ proc_tree = <<[pid |-> INIT, name |-> INITNAME, refcount |-> 0, depth |-> 0]>>
    /\ released = NoMessage
    /\ registered = <<INIT>>
    /\ creator = [p \in Pids |-> INIT]
    /\ own = [p \in Pids |-> {}]
    /\ answer = [p \in Pids |-> [name |-> NONAME, pid |-> MISSING, own |-> FALSE]]
    /\ stale = FALSE
    /\ unmarked = FALSE

-----------------------------------------------------------------------------
(* The tree, as the sequence of its nodes in the order a traversal meets   *)
(* them, each with its depth.                                              *)

Nodes(t) == 1 .. Len(t)

\* The first node met that has the pid, or the name, or 0.
traverse_by_pid(t, pid)   == SelectInSeq(t, LAMBDA n : n.pid = pid)
traverse_by_name(t, name) == SelectInSeq(t, LAMBDA n : n.name = name)

\* proc_list_append: the node becomes the last child of node i, so it comes before
\* the first node after i that is no descendant of i.
proc_list_append(t, i, proc) ==
    LET k == SelectInSubSeq(t, i + 1, Len(t), LAMBDA n : n.depth <= t[i].depth)
    IN  InsertAt(t, IF k = 0 THEN Len(t) + 1 ELSE k,
                 [pid |-> proc.pid, name |-> proc.name, refcount |-> proc.refcount,
                  depth |-> t[i].depth + 1])

\* Mutant: the fallback goes to the last process of the tree.
Bug_proc_add(t, proc, parent) ==
    LET found == traverse_by_pid(t, parent)
    IN  proc_list_append(t, IF found # 0 THEN found ELSE Len(t), proc)

\* A process whose parent is not in the tree is appended to init, which is.
proc_add(t, proc, parent) ==
    LET found == traverse_by_pid(t, parent)
    IN  proc_list_append(t, IF found # 0 THEN found ELSE traverse_by_pid(t, INIT), proc)

\* Mutant: found->refcount++ forgotten.
Bug_parse_procreg(t, parent, reg, garbage) ==
    LET found == traverse_by_name(t, reg.name)
        name  == IF found = 0 THEN reg.name
                 ELSE Name(reg.name, (t[found].refcount + ZERO) % BYTE)
    IN  proc_add(t, [pid |-> reg.pid, name |-> name, refcount |-> garbage], parent)

\* refcount of the new process is what malloc left there.
parse_procreg(t, parent, reg, garbage) ==
    LET found  == traverse_by_name(t, reg.name)
        name   == IF found = 0 THEN reg.name
                  ELSE Name(reg.name, (t[found].refcount + ZERO) % BYTE)
        counts == IF found = 0 THEN t ELSE [t EXCEPT ![found].refcount = (@ + 1) % BYTE]
    IN  proc_add(counts, [pid |-> reg.pid, name |-> name, refcount |-> garbage], parent)

proc_find_by_name(t, name) ==
    LET found == traverse_by_name(t, name) IN IF found = 0 THEN MISSING ELSE t[found].pid

-----------------------------------------------------------------------------
(* The C library.                                                          *)

\* message_prepare, the body filled in, and message_send.  Bodies are of one size:
\* kalloc_a takes the first buffer that is free.
Post(p, to, content) ==
    \E b \in Buffer \ held :
        /\ \A c \in Buffer \ held : b <= c
        /\ nsent < MAXMSGS
        /\ nsent' = nsent + 1
        /\ held' = held \cup {b}
        /\ body' = [body EXCEPT ![b] = content]
        /\ inbox' = [inbox EXCEPT ![to] = Append(@, [src |-> p, kdat |-> b])]

Program(p) == p # SERVER /\ pc[p] = "user"

\* micro_spawn in spawnv: the child may run before it is registered.
spawnv(p, path) ==
    /\ Program(p)
    /\ next_pid < MAXPROCS
    /\ next_pid = SERVER => path = PROCSVR
    /\ next_pid' = next_pid + 1
    /\ pc' = [pc EXCEPT ![p] = "registering", ![next_pid] = "user"]
    /\ spawned' = [spawned EXCEPT ![p] = [r |-> next_pid, path |-> path]]
    /\ creator' = [creator EXCEPT ![next_pid] = p]
    /\ UNCHANGED <<kernelVars, proc_tree, released, registered, own, answer, stale, unmarked>>

__send_preg(p) ==
    /\ pc[p] = "registering"
    /\ Post(p, SERVER, Body("PREG", spawned[p].path, spawned[p].r))
    /\ pc' = [pc EXCEPT ![p] = "user"]
    /\ own' = [own EXCEPT ![p] = @ \cup {spawned[p].path}]
    /\ UNCHANGED <<next_pid, spawned, proc_tree, released, registered, creator, answer, stale, unmarked>>

\* fork registers nobody.
fork(p) ==
    /\ Program(p)
    /\ next_pid \in 2 .. MAXPROCS - 1
    /\ next_pid' = next_pid + 1
    /\ pc' = [pc EXCEPT ![next_pid] = "user"]
    /\ creator' = [creator EXCEPT ![next_pid] = p]
    /\ UNCHANGED <<spawned, kernelVars, proc_tree, released, registered, own, answer, stale, unmarked>>

\* find_process up to its message_send.
find_process(p, name) ==
    /\ Program(p)
    /\ next_pid > SERVER
    /\ Post(p, SERVER, Body("PREQ", name, GARBAGE))
    /\ pc' = [pc EXCEPT ![p] = "finding"]
    /\ answer' = [answer EXCEPT ![p] = [name |-> name, pid |-> MISSING, own |-> name \in own[p]]]
    /\ UNCHANGED <<next_pid, spawned, proc_tree, released, registered, creator, own, stale, unmarked>>

\* Mutant: any message is taken for the answer.
Bug_FindReceive(p) ==
    LET m == Head(inbox[p]) IN
    /\ pc[p] = "finding"
    /\ inbox[p] # <<>>
    /\ inbox' = [inbox EXCEPT ![p] = Tail(@)]
    /\ pc' = [pc EXCEPT ![p] = "user"]
    /\ answer' = [answer EXCEPT ![p].pid = body[m.kdat].pid]
    /\ held' = held \ {m.kdat}
    /\ UNCHANGED <<next_pid, spawned, body, nsent, proc_tree, released, registered, creator, own, stale, unmarked>>

\* A turn of the loop in find_process: a message that is no answer is dropped, and
\* its body stays allocated.
FindReceive(p) ==
    LET m == Head(inbox[p]) IN
    /\ pc[p] = "finding"
    /\ inbox[p] # <<>>
    /\ inbox' = [inbox EXCEPT ![p] = Tail(@)]
    /\ IF body[m.kdat].kind = "PREQ"
       THEN /\ pc' = [pc EXCEPT ![p] = "user"]
            /\ answer' = [answer EXCEPT ![p].pid = body[m.kdat].pid]
            /\ held' = held \ {m.kdat}
       ELSE UNCHANGED <<pc, answer, held>>
    /\ UNCHANGED <<next_pid, spawned, body, nsent, proc_tree, released, registered, creator, own, stale, unmarked>>

\* Any other message between programs, or to the server.
SendOther(p, q) ==
    /\ Program(p)
    /\ q < next_pid /\ q # p
    /\ Post(p, q, Body("other", NONAME, GARBAGE))
    /\ UNCHANGED <<next_pid, pc, spawned, proc_tree, released, history>>

-----------------------------------------------------------------------------
(* The server: main and handle_message.                                    *)

Received(kind) ==
    /\ pc[SERVER] = "user"
    /\ inbox[SERVER] # <<>>
    /\ body[Head(inbox[SERVER]).kdat].kind = kind

\* Mutant: no answer if there is no such process.
Bug_parse_procreq(m, rest) ==
    LET pid == proc_find_by_name(proc_tree, body[m.kdat].name)
    IN  /\ body' = [body EXCEPT ![m.kdat] = Body("PREQ", NONAME, pid)]
        /\ inbox' = IF pid = MISSING THEN rest
                    ELSE [rest EXCEPT ![m.src] = Append(@, [src |-> SERVER, kdat |-> m.kdat])]

\* parse_procreq on message m: the answer is written over the name and the same
\* body sent back.
parse_procreq(m, rest) ==
    LET pid == proc_find_by_name(proc_tree, body[m.kdat].name)
    IN  /\ body' = [body EXCEPT ![m.kdat] = Body("PREQ", NONAME, pid)]
        /\ inbox' = [rest EXCEPT ![m.src] = Append(@, [src |-> SERVER, kdat |-> m.kdat])]

\* The first if of handle_message, with message_release.
HandleReg ==
    LET m     == Head(inbox[SERVER])
        reg   == body[m.kdat]
        found == traverse_by_name(proc_tree, reg.name) IN
    /\ Received("PREG")
    /\ \E garbage \in Mark : proc_tree' = parse_procreg(proc_tree, m.src, reg, garbage)
    /\ registered' = Append(registered, reg.pid)
    /\ unmarked' = (unmarked \/ (found # 0 /\ (proc_tree[found].refcount + ZERO) % BYTE = 0))
    /\ inbox' = [inbox EXCEPT ![SERVER] = Tail(@)]
    /\ held' = held \ {m.kdat}
    /\ released' = m
    /\ pc' = [pc EXCEPT ![SERVER] = "released"]
    /\ UNCHANGED <<next_pid, spawned, body, nsent, creator, own, answer, stale>>

\* The second if, on the message just released: its body may be another message's
\* by now.
HandleReleased ==
    /\ pc[SERVER] = "released"
    /\ pc' = [pc EXCEPT ![SERVER] = "user"]
    /\ released' = NoMessage
    /\ IF body[released.kdat].kind = "PREQ"
       THEN parse_procreq(released, inbox) /\ stale' = TRUE
       ELSE UNCHANGED <<body, inbox, stale>>
    /\ UNCHANGED <<next_pid, spawned, held, nsent, proc_tree, registered, creator, own, answer, unmarked>>

HandleReq ==
    /\ Received("PREQ")
    /\ parse_procreq(Head(inbox[SERVER]), [inbox EXCEPT ![SERVER] = Tail(@)])
    /\ UNCHANGED <<next_pid, pc, spawned, held, nsent, proc_tree, released, history>>

HandleOther ==
    /\ Received("other")
    /\ inbox' = [inbox EXCEPT ![SERVER] = Tail(@)]
    /\ UNCHANGED <<next_pid, pc, spawned, body, held, nsent, proc_tree, released, history>>

-----------------------------------------------------------------------------
Server == HandleReg \/ HandleReleased \/ HandleReq \/ HandleOther

\* Programs need not call anything, and cannot once the bounds are used up.
Idle ==
    /\ \A p \in Pids : inbox[p] # <<>> => p # SERVER /\ pc[p] # "finding"
    /\ pc[SERVER] # "released"
    /\ UNCHANGED vars

Next ==
    \/ \E p \in Pids : \/ \E path \in Files : spawnv(p, path)
                       \/ __send_preg(p)
                       \/ fork(p)
                       \/ \E path \in Files : find_process(p, path)
                       \/ FindReceive(p)
                       \/ \E q \in Pids : SendOther(p, q)
    \/ Server
    \/ Idle

Spec == Init /\ [][Next]_vars

LiveSpec == Spec /\ WF_vars(Server) /\ \A p \in Pids \ {SERVER} : WF_vars(FindReceive(p))

-----------------------------------------------------------------------------
(* Properties.                                                             *)

\* Type invariant.  Every message has a body that is allocated, until the server
\* answers one it had released.
TypeOK ==
    /\ next_pid \in 1 .. MAXPROCS
    /\ pc \in [Pids -> {"none", "user", "registering", "finding", "released"}]
    /\ held \subseteq Buffer
    /\ \A i \in Nodes(proc_tree) : /\ proc_tree[i].refcount \in Mark
                                    /\ proc_tree[i].depth = 0 <=> i = 1
    /\ ~stale => \A p \in Pids : \A i \in 1 .. Len(inbox[p]) : inbox[p][i].kdat \in held

\* The node above node i.
ParentOf(i) ==
    CHOOSE j \in 1 .. i - 1 :
        /\ proc_tree[j].depth < proc_tree[i].depth
        /\ \A k \in j + 1 .. i - 1 : proc_tree[k].depth >= proc_tree[i].depth

\* Until the server answers a message it had released, proc_add has put every
\* registered process into the tree once, under its creator, or under init if the
\* creator was forked or its own registration arrived later.  The type invariant
\* holds before and after.
RegisteredUnderCreator ==
    /\ TypeOK
    /\ ~stale =>
          \A p \in Range(registered) :
              LET place(q) == CHOOSE k \in 1 .. Len(registered) : registered[k] = q
                  nodes    == {i \in Nodes(proc_tree) : proc_tree[i].pid = p}
                  known    == creator[p] \in Range(registered) /\ place(creator[p]) < place(p)
              IN  /\ Cardinality(nodes) = 1
                  /\ \A i \in nodes : i # 1 =>
                         proc_tree[ParentOf(i)].pid = IF known THEN creator[p] ELSE INIT

\* Paths, or the name of init, that are another path with a character behind it.
Ambiguous == {n \in Files \cup {INITNAME} : \E f \in Files, c \in Char : n = Append(f, c)}

\* Such a name, or one with a mark behind it: its mark comes from the process met
\* first, which need not be the one that gave the earlier marks.
Twofold(n) == n \in Ambiguous \/ \E f \in Ambiguous \cap Files, c \in Char : n = Append(f, c)

\* As long as every mark that parse_procreg put behind a name was a character, no
\* two processes have one name, but for names that a mark and another program's
\* path both spell, and those made from them.
NamesDistinct ==
    ~stale /\ ~unmarked =>
        \A i, j \in Nodes(proc_tree) :
            proc_tree[i].name = proc_tree[j].name => i = j \/ Twofold(proc_tree[i].name)

\* A process that registered a child and then looks its name up finds a process
\* of that name, whoever else registers and asks meanwhile.
FindsOwn(p) ==
    pc[p] = "user" /\ answer[p].own =>
        \E i \in Nodes(proc_tree) : proc_tree[i].name = answer[p].name
                                    /\ proc_tree[i].pid = answer[p].pid

\* That holds until the server answers a message it had released.
FindsOwnUntilStale == ~stale => \A p \in Pids : FindsOwn(p)

\* find_process "Will wait until satisfied": a lookup comes to an end.
LookupEnds == \A p \in Pids \ {SERVER} : pc[p] = "finding" ~> (pc[p] = "user" \/ stale)

\* proc.h, find_process: "Returns the process ID of the process with given name".
\* handle_message reads a message after releasing it and may take the next request
\* for it: one request is answered twice, and the second answer is wrong.
FindsOwnSpawn == \A p \in Pids : FindsOwn(p)

\* proc.h, find_process: "Returns the process ID of the process with given name".
\* There may be two: the mark of parse_procreg can spell another program's path.
NamesUnique ==
    ~stale /\ ~unmarked =>
        \A i, j \in Nodes(proc_tree) : proc_tree[i].name = proc_tree[j].name => i = j
=============================================================================
