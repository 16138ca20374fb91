--------------------------- MODULE ProcServerProofs ---------------------------
(***************************************************************************)
(* The process server registers every process once, under its creator,     *)
(* gives no name twice until a mark is 0 or spells another program's path, *)
(* and answers lookups rightly until it answers a message it had released, *)
(* for every number of processes, programs and message bodies and every    *)
(* size of a byte.                                                         *)
(***************************************************************************)
EXTENDS ProcServer, SequenceTheorems, FiniteSetTheorems, WellFoundedInduction, TLAPS

\* Names, messages, bodies and nodes.
NameType == Names
Letter   == [src : Pids, kdat : Buffer]
BodyType == [kind : {"blank", "PREG", "PREQ", "other"}, name : NameType, pid : Int]
NodeType == [pid : Int, name : NameType, refcount : Mark, depth : Nat]

\* The types of all variables; a registration asks for a program's path.
TypeInv ==
    /\ next_pid \in 1 .. MAXPROCS
    /\ pc \in [Pids -> {"none", "user", "registering", "finding", "released"}]
    /\ \A p \in Pids : p >= next_pid => pc[p] = "none"
    /\ pc[SERVER] \in {"none", "user", "released"}
    /\ spawned \in [Pids -> [r : Pids, path : Files]]
    /\ inbox \in [Pids -> Seq(Letter)]
    /\ body \in [Buffer -> BodyType]
    /\ \A b \in Buffer : body[b].kind = "PREG" => body[b].name \in Files
    /\ held \subseteq Buffer
    /\ released \in [src : Pids, kdat : 0 .. NBUF]
    /\ pc[SERVER] = "released" => released.kdat \in Buffer
    /\ registered \in Seq(Int)
    /\ creator \in [Pids -> Pids]
    /\ own \in [Pids -> SUBSET NameType]
    /\ answer \in [Pids -> [name : NameType, pid : Int, own : BOOLEAN]]
    /\ stale \in BOOLEAN /\ unmarked \in BOOLEAN

\* The root is init, and all others are below it.
TreeInv(t) ==
    /\ t \in Seq(NodeType) /\ Len(t) >= 1 /\ t[1].pid = INIT
    /\ \A i \in 1 .. Len(t) : t[i].depth = 0 <=> i = 1

\* The mark that comes next after a refcount.
NextOf(r) == (r + ZERO) % BYTE

\* No two names are equal but twofold ones; and where a name can only be a path and
\* a mark, and the path only a path, the mark next in turn for that path is larger,
\* or 0.
NameInv(t) ==
    /\ \A i, j \in 1 .. Len(t) : t[i].name = t[j].name => i = j \/ Twofold(t[i].name)
    /\ \A j \in 1 .. Len(t), g \in Files \ Ambiguous, c \in Char :
           t[j].name = Append(g, c) /\ t[j].name \notin Ambiguous =>
               \E i \in 1 .. Len(t) :
                   t[i].name = g /\ (NextOf(t[i].refcount) = 0 \/ c < NextOf(t[i].refcount))

\* The sender and the body of the i-th message to p, and its kind.
From(p, i)    == inbox[p][i].src
Text(p, i)    == body[inbox[p][i].kdat]
Mail(p, i, x) == i \in 1 .. Len(inbox[p]) /\ Text(p, i).kind = x

\* Every message has a body of its own, which is allocated.
MailInv ==
    /\ \A p \in Pids : \A i \in 1 .. Len(inbox[p]) : inbox[p][i].kdat \in held
    /\ \A p, q \in Pids : \A i \in 1 .. Len(inbox[p]), j \in 1 .. Len(inbox[q]) :
           inbox[p][i].kdat = inbox[q][j].kdat => p = q /\ i = j
    /\ \A i \in 1 .. Len(inbox[SERVER]) : inbox[SERVER][i].src # SERVER

\* Process r is alive, was created by p and has not been registered.
Unregistered(r, p) ==
    /\ r \in 1 .. next_pid - 1 /\ creator[r] = p
    /\ \A k \in 1 .. Len(registered) : registered[k] # r

\* A process is registered once: it is registered, or one message asks for
\* that, or its creator is about to send one.
RegInv ==
    /\ \A p \in Pids, i \in Nat : Mail(p, i, "PREG") =>
           p = SERVER /\ Unregistered(Text(p, i).pid, From(p, i))
    /\ \A i, j \in Nat : Mail(SERVER, i, "PREG") /\ Mail(SERVER, j, "PREG") =>
           (Text(SERVER, i).pid = Text(SERVER, j).pid => i = j)
    /\ \A p \in Pids : pc[p] = "registering" =>
           /\ Unregistered(spawned[p].r, p)
           /\ \A i \in Nat : Mail(SERVER, i, "PREG") => Text(SERVER, i).pid # spawned[p].r
    /\ \A k \in 1 .. Len(registered) : registered[k] \in 0 .. next_pid - 1
    /\ \A k, j \in 1 .. Len(registered) : registered[k] = registered[j] => k = j

\* Node q of t is above node i.
Above(t, q, i) ==
    /\ q \in 1 .. i - 1 /\ t[q].depth < t[i].depth
    /\ \A k \in q + 1 .. i - 1 : t[k].depth >= t[i].depth

\* p was registered after its creator.
Known(p) ==
    \E j, k \in 1 .. Len(registered) : j < k /\ registered[j] = creator[p] /\ registered[k] = p

\* The nodes are the registered processes, each below its creator or below init.
PlaceInv(t) ==
    /\ \A i, j \in 1 .. Len(t) : t[i].pid = t[j].pid => i = j
    /\ \A i \in 1 .. Len(t) : \E k \in 1 .. Len(registered) : registered[k] = t[i].pid
    /\ \A k \in 1 .. Len(registered) : \E i \in 1 .. Len(t) : registered[k] = t[i].pid
    /\ \A i \in 2 .. Len(t) : \E q \in 1 .. Len(t) :
           Above(t, q, i) /\ t[q].pid = IF Known(t[i].pid) THEN creator[t[i].pid] ELSE INIT

\* t has a node of the name.
Has(t, name) == \E i \in 1 .. Len(t) : t[i].name = name

\* A registration of the name is among the first n messages to the server.
Asked(name, n) == \E i \in 1 .. n : Mail(SERVER, i, "PREG") /\ Text(SERVER, i).name = name

\* The i-th message to q is the request of p or the answer to it.
Lookup(p, q, i) == Mail(q, i, "PREQ") /\ (q = p \/ (q = SERVER /\ From(q, i) = p))

\* t has a node of the name and the pid; the pid is a right answer to p.
Node(t, name, pid) == \E i \in 1 .. Len(t) : t[i].name = name /\ t[i].pid = pid
Right(t, p, pid)   == answer[p].own => Node(t, answer[p].name, pid)

\* What a process registered is in the tree or on its way.
OwnInv ==
    \A p \in Pids : \A name \in own[p] : Has(proc_tree, name) \/ Asked(name, Len(inbox[SERVER]))

\* A process has one request or answer under way, and only while it waits.
AskInv ==
    /\ \A p, q \in Pids, i \in Nat : p # SERVER /\ Lookup(p, q, i) => pc[p] = "finding"
    /\ \A p, q, r \in Pids, i, j \in Nat :
           p # SERVER /\ Lookup(p, q, i) /\ Lookup(p, r, j) => q = r /\ i = j

\* What a process registered comes to the server before its request.
ReqInv ==
    \A i \in Nat : Mail(SERVER, i, "PREQ") =>
        LET asked == answer[From(SERVER, i)] IN
        /\ Text(SERVER, i).name = asked.name
        /\ asked.own => Has(proc_tree, asked.name) \/ Asked(asked.name, i - 1)

\* Answers are right, on their way and when received.
AnsInv ==
    /\ \A p \in Pids, i \in Nat : p # SERVER /\ Mail(p, i, "PREQ") =>
           Right(proc_tree, p, Text(p, i).pid)
    /\ \A p \in Pids : pc[p] # "finding" => Right(proc_tree, p, answer[p].pid)

\* What holds until the server answers a message it had released.
Sound == MailInv /\ RegInv /\ PlaceInv(proc_tree) /\ OwnInv /\ AskInv /\ ReqInv /\ AnsInv

\* The inductive invariant.
IInv == TypeInv /\ TreeInv(proc_tree) /\ (~unmarked => NameInv(proc_tree)) /\ (~stale => Sound)

\* u is t with e at place k.
Shifted(t, u, k, e) ==
    /\ Len(u) = Len(t) + 1 /\ u[k] = e
    /\ \A j \in 1 .. k - 1 : u[j] = t[j]
    /\ \A j \in k + 1 .. Len(t) + 1 : u[j] = t[j - 1]

\* What a node says, but for its refcount.
Alike(a, b) == a.pid = b.pid /\ a.name = b.name /\ a.depth = b.depth

\* u is t, but for refcounts, with a node at place k that is the last child of node i.
Planted(t, u, i, k, pid, name) ==
    /\ u \in Seq(NodeType) /\ Len(u) = Len(t) + 1
    /\ i \in 1 .. Len(t) /\ k \in i + 1 .. Len(t) + 1
    /\ \A j \in 1 .. k - 1 : Alike(u[j], t[j])
    /\ \A j \in k + 1 .. Len(t) + 1 : Alike(u[j], t[j - 1])
    /\ u[k].pid = pid /\ u[k].name = name /\ u[k].depth = t[i].depth + 1
    /\ \A j \in i + 1 .. k - 1 : t[j].depth > t[i].depth
    /\ k <= Len(t) => t[k].depth <= t[i].depth

\* Where a node is put that has the parent: below it, or below init.
Under(t, i, parent) ==
    \/ t[i].pid = parent
    \/ t[i].pid = INIT /\ \A j \in 1 .. Len(t) : t[j].pid # parent

\* The refcounts of u are those of t, but one more at node f.
Tallied(t, u, k, f) ==
    /\ \A j \in 1 .. k - 1 : j # f => u[j].refcount = t[j].refcount
    /\ \A j \in k + 1 .. Len(t) + 1 : j - 1 # f => u[j].refcount = t[j - 1].refcount
    /\ f \in 1 .. k - 1 => u[f].refcount = (t[f].refcount + 1) % BYTE
    /\ f \in k .. Len(t) => u[f + 1].refcount = (t[f].refcount + 1) % BYTE

\* The name node f of t makes of a name, or the name itself.
Marked(t, f, name) ==
    IF f = 0 THEN name ELSE Name(name, NextOf(t[f].refcount))

\* f is a node of the name, or there is none and f is 0.
Named(t, f, name) ==
    \/ f \in 1 .. Len(t) /\ t[f].name = name
    \/ f = 0 /\ \A j \in 1 .. Len(t) : t[j].name # name

\* What parse_procreg makes of the tree, f being the node found.
Registers(t, u, f, parent, pid, name) ==
    \E i, k \in Nat :
        /\ Named(t, f, name) /\ Under(t, i, parent)
        /\ Planted(t, u, i, k, pid, Marked(t, f, name)) /\ Tallied(t, u, k, f)

\* A message x from p to q is added; the others stay.
PostMail(p, q, x) ==
    /\ \A r \in Pids : Len(inbox'[r]) = IF r = q THEN Len(inbox[r]) + 1 ELSE Len(inbox[r])
    /\ \A r \in Pids : \A i \in 1 .. Len(inbox[r]) :
           inbox'[r][i] = inbox[r][i] /\ body'[inbox[r][i].kdat] = body[inbox[r][i].kdat]
    /\ inbox'[q][Len(inbox[q]) + 1].src = p
    /\ body'[inbox'[q][Len(inbox[q]) + 1].kdat] = x

\* The first message to p is taken; the others stay.
TakeMail(p) ==
    /\ Len(inbox[p]) >= 1
    /\ \A q \in Pids : Len(inbox'[q]) = IF q = p THEN Len(inbox[q]) - 1 ELSE Len(inbox[q])
    /\ \A q \in Pids : \A i \in 1 .. Len(inbox'[q]) :
           inbox'[q][i] = IF q = p THEN inbox[q][i + 1] ELSE inbox[q][i]
    /\ body' = body

\* The server takes its first message and sends it back to p with the text x.
AnswerMail(p, x) ==
    /\ Len(inbox[SERVER]) >= 1 /\ inbox[SERVER][1].src = p
    /\ \A q \in Pids : Len(inbox'[q]) = IF q = SERVER THEN Len(inbox[q]) - 1
                                        ELSE IF q = p THEN Len(inbox[q]) + 1 ELSE Len(inbox[q])
    /\ \A i \in 1 .. Len(inbox'[SERVER]) :
           /\ inbox'[SERVER][i] = inbox[SERVER][i + 1]
           /\ body'[inbox[SERVER][i + 1].kdat] = body[inbox[SERVER][i + 1].kdat]
    /\ \A q \in Pids \ {SERVER} : \A i \in 1 .. Len(inbox[q]) :
           inbox'[q][i] = inbox[q][i] /\ body'[inbox[q][i].kdat] = body[inbox[q][i].kdat]
    /\ body'[inbox'[p][Len(inbox[p]) + 1].kdat] = x

\* Where a message was before one to s was taken.
Was(s, p, i) == IF p = s THEN i + 1 ELSE i

\* What a step that takes a message to s, if any, changes for registrations:
\* nothing, or a process is created.
Calm(s) ==
    /\ \A p \in Pids, i \in Nat : Mail(p, i, "PREG")' =>
           /\ Mail(p, Was(s, p, i), "PREG")
           /\ Text(p, i)' = Text(p, Was(s, p, i)) /\ From(p, i)' = From(p, Was(s, p, i))
    /\ registered' = registered /\ next_pid' \in Nat /\ next_pid' >= next_pid
    /\ \A r \in 0 .. next_pid - 1 : creator'[r] = creator[r]
    /\ \A p \in Pids : pc'[p] = "registering" =>
           \/ pc[p] = "registering" /\ spawned'[p].r = spawned[p].r
           \/ spawned'[p].r = next_pid /\ next_pid < next_pid' /\ creator'[next_pid] = p

\* What a step that takes a message to s, if any, changes for lookups: a name is
\* added to the tree or to the registrations under way.
Carry(s) ==
    /\ \A p \in Pids, i \in Nat : Mail(p, i, "PREQ")' =>
           /\ Mail(p, Was(s, p, i), "PREQ")
           /\ Text(p, i)' = Text(p, Was(s, p, i)) /\ From(p, i)' = From(p, Was(s, p, i))
    /\ \A i \in Nat \ {0} : Mail(SERVER, Was(s, SERVER, i), "PREG") =>
           Mail(SERVER, i, "PREG")' /\ Text(SERVER, i)' = Text(SERVER, Was(s, SERVER, i))
    /\ s = SERVER /\ Mail(SERVER, 1, "PREG") => Has(proc_tree', Text(SERVER, 1).name)
    /\ \A name, pid : Node(proc_tree, name, pid) => Node(proc_tree', name, pid)
    /\ \A p \in Pids : pc'[p] = "finding" <=> pc[p] = "finding"
    /\ answer' = answer
    /\ \A p \in Pids : \A name \in own'[p] :
           name \in own[p] \/ \E i \in Nat : Mail(SERVER, i, "PREG")' /\ Text(SERVER, i)'.name = name

-----------------------------------------------------------------------------
(* Sequences and sets of naturals.                                         *)

\* A set of naturals that is not empty has a least element, which Min selects.
LEMMA LeastNat ==
    ASSUME NEW S \in SUBSET Nat, S # {}
    PROVE  Min(S) \in S /\ \A y \in S : Min(S) <= y
<1> DEFINE R == OpToRel(<, Nat)
<1>1. IsWellFoundedOn(R, Nat)
  BY NatLessThanWellFounded
<1> HIDE DEF R
<1>2. \E x \in S : \A y \in S : ~ (<<y, x>> \in R)
  BY <1>1, WFMin, Zenon
<1>3. PICK x \in S : \A y \in S : ~ (<<y, x>> \in R)
  BY <1>2
<1>4. \A y \in S : y < x => <<y, x>> \in R
  BY DEF R, OpToRel
<1>5. \A y \in S : ~(y < x)
  BY <1>3, <1>4
<1>6. \A y \in S : y \in Nat
  OBVIOUS
<1>7. \A y \in S : x <= y
  BY <1>5, <1>6
<1> QED BY <1>7 DEF Min

\* InsertAt moves what comes after.
LEMMA Inserted ==
    ASSUME NEW S, NEW s \in Seq(S), NEW i \in 1 .. Len(s) + 1, NEW e \in S
    PROVE  InsertAt(s, i, e) \in Seq(S) /\ Shifted(s, InsertAt(s, i, e), i, e)
<1> DEFINE a == SubSeq(s, 1, i - 1)
           b == SubSeq(s, i, Len(s))
           n == Len(s)
<1>0. n \in Nat /\ i \in Nat /\ i >= 1 /\ i <= n + 1 /\ \A k \in 1 .. n : s[k] \in S
  BY LenProperties, ElementOfSeq
<1>1. /\ a \in Seq(S) /\ Len(a) = i - 1
      /\ \A k \in 1 .. i - 1 : a[k] = s[k]
  <2>1. /\ a \in Seq(S) /\ Len(a) = (IF 1 <= i - 1 THEN (i - 1) - 1 + 1 ELSE 0)
        /\ \A k \in 1 .. (i - 1) - 1 + 1 : a[k] = s[1 + k - 1]
    BY <1>0, SubSeqProperties
  <2> HIDE DEF a
  <2> QED BY <1>0, <2>1
<1>2. /\ b \in Seq(S) /\ Len(b) = n - i + 1
      /\ \A k \in 1 .. n - i + 1 : b[k] = s[i + k - 1]
  <2>1. /\ b \in Seq(S) /\ Len(b) = (IF i <= n THEN n - i + 1 ELSE 0)
        /\ \A k \in 1 .. n - i + 1 : b[k] = s[i + k - 1]
    BY <1>0, SubSeqProperties
  <2> HIDE DEF b
  <2> QED BY <1>0, <2>1
<1>3. <<e>> \in Seq(S) /\ Len(<<e>>) = 1 /\ <<e>>[1] = e
  OBVIOUS
<1>4. InsertAt(s, i, e) = a \o <<e>> \o b
  BY DEF InsertAt
<1> HIDE DEF a, b
<1> DEFINE c == a \o <<e>>
<1>5. /\ c \in Seq(S) /\ Len(c) = i /\ c[i] = e
      /\ \A k \in 1 .. i - 1 : c[k] = s[k]
  <2> DEFINE o == <<e>>
  <2>1. o \in Seq(S) /\ Len(o) = 1 /\ o[1] = e
    BY <1>3
  <2> HIDE DEF o
  <2>2. /\ a \o o \in Seq(S) /\ Len(a \o o) = Len(a) + Len(o)
        /\ \A k \in 1 .. Len(a) + Len(o) : (a \o o)[k] = IF k <= Len(a) THEN a[k] ELSE o[k - Len(a)]
    BY <1>1, <2>1, ConcatProperties
  <2>3. a \o o \in Seq(S) /\ Len(a \o o) = i /\ (a \o o)[i] = e /\ \A k \in 1 .. i - 1 : (a \o o)[k] = s[k]
    BY <1>0, <1>1, <2>1, <2>2
  <2> QED BY <2>3 DEF o
<1> HIDE DEF c
<1>6. /\ c \o b \in Seq(S) /\ Len(c \o b) = Len(c) + Len(b)
      /\ \A k \in 1 .. Len(c) + Len(b) : (c \o b)[k] = IF k <= Len(c) THEN c[k] ELSE b[k - Len(c)]
  BY <1>2, <1>5, ConcatProperties
<1> DEFINE t == c \o b
<1>7. InsertAt(s, i, e) = t
  BY <1>4 DEF c
<1> HIDE DEF t
<1>8. /\ t \in Seq(S) /\ Len(t) = n + 1
      /\ \A k \in 1 .. n + 1 : t[k] = IF k <= i THEN c[k] ELSE b[k - i]
  BY <1>0, <1>2, <1>5, <1>6 DEF t
<1>9. t[i] = e /\ \A k \in 1 .. i - 1 : t[k] = s[k]
  BY <1>0, <1>5, <1>8
<1>10. \A k \in i + 1 .. n + 1 : t[k] = s[k - 1]
  BY <1>0, <1>2, <1>8
<1> QED BY <1>7, <1>8, <1>9, <1>10 DEF Shifted

-----------------------------------------------------------------------------
(* The tree.                                                               *)

\* The fields of a node.
LEMMA Field ==
    ASSUME NEW t \in Seq(NodeType)
    PROVE  /\ Len(t) \in Nat
           /\ \A i \in 1 .. Len(t) : /\ t[i] \in NodeType /\ t[i].pid \in Int /\ t[i].name \in NameType
                                    /\ t[i].refcount \in Mark /\ t[i].depth \in Nat
<1>1. Len(t) \in Nat /\ \A i \in 1 .. Len(t) : t[i] \in NodeType
  BY LenProperties, ElementOfSeq
<1> QED BY <1>1 DEF NodeType

\* traverse_by_pid finds the process if it is there.
LEMMA ByPid ==
    ASSUME NEW t \in Seq(NodeType), NEW x \in Int
    PROVE  LET f == traverse_by_pid(t, x) IN
           \/ f \in 1 .. Len(t) /\ t[f].pid = x
           \/ f = 0 /\ \A j \in 1 .. Len(t) : t[j].pid # x
<1> DEFINE I == {i \in 1 .. Len(t) : t[i].pid = x}
<1>1. traverse_by_pid(t, x) = IF I # {} THEN Min(I) ELSE 0
  BY DEF traverse_by_pid, SelectInSeq
<1>2. I # {} => Min(I) \in I
  <2>1. Len(t) \in Nat
    BY Field
  <2>2. I \in SUBSET Nat
    BY <2>1
  <2> HIDE DEF I
  <2> QED BY <2>2, LeastNat
<1>3. CASE I # {}
  BY <1>1, <1>2, <1>3
<1>4. CASE I = {}
  BY <1>1, <1>4
<1> QED BY <1>3, <1>4

\* traverse_by_name finds a process of the name if there is one.
LEMMA ByName ==
    ASSUME NEW t \in Seq(NodeType), NEW x \in NameType
    PROVE  Named(t, traverse_by_name(t, x), x)
<1> DEFINE I == {i \in 1 .. Len(t) : t[i].name = x}
<1>1. traverse_by_name(t, x) = IF I # {} THEN Min(I) ELSE 0
  BY DEF traverse_by_name, SelectInSeq
<1>2. I # {} => Min(I) \in I
  <2>1. Len(t) \in Nat
    BY Field
  <2>2. I \in SUBSET Nat
    BY <2>1
  <2> HIDE DEF I
  <2> QED BY <2>2, LeastNat
<1>3. CASE I # {}
  BY <1>1, <1>2, <1>3 DEF Named
<1>4. CASE I = {}
  BY <1>1, <1>4 DEF Named
<1> QED BY <1>3, <1>4

\* proc_list_append puts a process behind the last descendant of its parent.
LEMMA Appended ==
    ASSUME NEW t \in Seq(NodeType), NEW i \in 1 .. Len(t), NEW proc,
           proc.pid \in Int, proc.name \in NameType, proc.refcount \in Mark
    PROVE  \E k \in Nat : /\ Planted(t, proc_list_append(t, i, proc), i, k, proc.pid, proc.name)
                          /\ Tallied(t, proc_list_append(t, i, proc), k, 0)
<1> DEFINE n == Len(t)
           I == {j \in i + 1 .. n : t[j].depth <= t[i].depth}
           k == IF I # {} THEN Min(I) ELSE n + 1
           e == [pid |-> proc.pid, name |-> proc.name, refcount |-> proc.refcount, depth |-> t[i].depth + 1]
           u == proc_list_append(t, i, proc)
<1>0. n \in Nat /\ \A j \in 1 .. n : t[j] \in NodeType /\ t[j].depth \in Nat
  BY Field
<1>1. e \in NodeType /\ e.pid = proc.pid /\ e.name = proc.name /\ e.depth = t[i].depth + 1
  BY <1>0 DEF NodeType
<1>2. I # {} => Min(I) \in I /\ \A j \in I : Min(I) <= j
  <2>1. I \in SUBSET Nat
    BY <1>0
  <2> HIDE DEF I
  <2> QED BY <2>1, LeastNat
<1>3. k \in i + 1 .. n + 1 /\ (k <= n => t[k].depth <= t[i].depth)
  <2>1. CASE I # {}
    BY <1>0, <1>2, <2>1
  <2>2. CASE I = {}
    BY <1>0, <2>2
  <2> QED BY <2>1, <2>2
<1>4. ASSUME NEW j \in i + 1 .. k - 1 PROVE t[j].depth > t[i].depth
  <2>1. j \notin I
    <3>1. CASE I = {}
      BY <3>1
    <3>2. CASE I # {}
      <4>1. k = Min(I) /\ \A x \in I : k <= x
        BY <1>2, <3>2
      <4> HIDE DEF I, k
      <4> QED BY <1>0, <1>3, <4>1
    <3> QED BY <3>1, <3>2
  <2>2. j \in i + 1 .. n
    BY <1>0, <1>3
  <2> QED BY <1>0, <2>1, <2>2
<1>5. u = InsertAt(t, k, e)
  <2>1. I # {} => Min(I) # 0
    BY <1>2
  <2>2. SelectInSubSeq(t, i + 1, Len(t), LAMBDA m : m.depth <= t[i].depth)
            = IF I # {} THEN Min(I) ELSE 0
    BY DEF SelectInSubSeq
  <2> QED BY <2>1, <2>2 DEF proc_list_append
<1> HIDE DEF I, e, u
<1>6. k \in 1 .. n + 1 /\ k \in Nat
  BY <1>0, <1>3
<1> HIDE DEF k
<1>7. u \in Seq(NodeType) /\ Shifted(t, u, k, e)
  BY <1>1, <1>5, <1>6, Inserted
<1>8. Planted(t, u, i, k, proc.pid, proc.name)
  BY <1>0, <1>1, <1>3, <1>4, <1>6, <1>7 DEF Planted, Shifted, Alike
<1>9. Tallied(t, u, k, 0)
  BY <1>0, <1>6, <1>7 DEF Tallied, Shifted
<1> QED BY <1>6, <1>8, <1>9 DEF u

\* proc_add finds a place.
LEMMA AddedUnder ==
    ASSUME NEW t, TreeInv(t), NEW proc, NEW parent \in Int,
           proc.pid \in Int, proc.name \in NameType, proc.refcount \in Mark
    PROVE  \E i, k \in Nat : /\ Under(t, i, parent)
                             /\ Planted(t, proc_add(t, proc, parent), i, k, proc.pid, proc.name)
                             /\ Tallied(t, proc_add(t, proc, parent), k, 0)
<1> DEFINE f == traverse_by_pid(t, parent)
           g == traverse_by_pid(t, INIT)
           i == IF f # 0 THEN f ELSE g
<1>0. t \in Seq(NodeType) /\ Len(t) \in Nat /\ Len(t) >= 1 /\ t[1].pid = INIT
  BY Field DEF TreeInv
<1>1. \/ f \in 1 .. Len(t) /\ t[f].pid = parent
      \/ f = 0 /\ \A j \in 1 .. Len(t) : t[j].pid # parent
  BY <1>0, ByPid
<1>2. g \in 1 .. Len(t) /\ t[g].pid = INIT
  <2>1. INIT \in Int
    BY DEF INIT
  <2>2. \/ g \in 1 .. Len(t) /\ t[g].pid = INIT
        \/ g = 0 /\ \A j \in 1 .. Len(t) : t[j].pid # INIT
    BY <1>0, <2>1, ByPid
  <2> QED BY <1>0, <2>2
<1>3. proc_add(t, proc, parent) = proc_list_append(t, i, proc)
  BY DEF proc_add
<1> HIDE DEF f, g
<1>4. i \in 1 .. Len(t) /\ i \in Nat /\ Under(t, i, parent)
  BY <1>0, <1>1, <1>2 DEF Under
<1> HIDE DEF i
<1>5. PICK k \in Nat : /\ Planted(t, proc_list_append(t, i, proc), i, k, proc.pid, proc.name)
                       /\ Tallied(t, proc_list_append(t, i, proc), k, 0)
  BY <1>0, <1>4, Appended
<1> QED BY <1>3, <1>4, <1>5

\* parse_procreg: the mark and the count at the node found, then the new node.
LEMMA Parsed ==
    ASSUME NEW t, TreeInv(t), NEW parent \in Int, NEW reg, reg.pid \in Int,
           reg.name \in NameType, NEW garbage \in Mark
    PROVE  LET f == traverse_by_name(t, reg.name)
           IN  /\ f \in Nat /\ Named(t, f, reg.name)
               /\ Registers(t, parse_procreg(t, parent, reg, garbage), f, parent, reg.pid, reg.name)
<1> DEFINE f == traverse_by_name(t, reg.name)
           c == IF f = 0 THEN t ELSE [t EXCEPT ![f].refcount = (@ + 1) % BYTE]
           x == Marked(t, f, reg.name)
           p == [pid |-> reg.pid, name |-> x, refcount |-> garbage]
           u == parse_procreg(t, parent, reg, garbage)
<1>0. t \in Seq(NodeType) /\ Len(t) \in Nat /\ Len(t) >= 1
      /\ \A j \in 1 .. Len(t) : t[j] \in NodeType /\ t[j].refcount \in Mark
  BY Field DEF TreeInv
<1>1. Named(t, f, reg.name)
  BY <1>0, ByName
<1>2. f = 0 \/ f \in 1 .. Len(t)
  BY <1>1 DEF Named
<1>3. u = proc_add(c, p, parent)
  BY DEF parse_procreg, Marked, NextOf
<1> HIDE DEF f
<1>4. x \in NameType
  <2>1. CASE f = 0
    BY <2>1 DEF Marked
  <2>2. CASE f # 0
    <3>1. t[f].refcount \in Mark
      BY <1>0, <1>2, <2>2
    <3> DEFINE d == NextOf(t[f].refcount)
    <3>2. d \in Mark
      BY <3>1, ByteAssumption DEF Mark, NextOf
    <3> HIDE DEF d
    <3>3. x = IF d = 0 THEN reg.name ELSE Append(reg.name, d)
      BY <2>2 DEF Marked, Name, d
    <3>4. d # 0 => Append(reg.name, d) \in NameType
      BY <3>2, AppendProperties DEF Char, NameType, Names
    <3> QED BY <3>3, <3>4
  <2> QED BY <2>1, <2>2
<1> HIDE DEF x
<1>5. /\ c \in Seq(NodeType) /\ Len(c) = Len(t)
      /\ \A j \in 1 .. Len(t) : Alike(c[j], t[j]) /\ (j # f => c[j].refcount = t[j].refcount)
      /\ f # 0 => c[f].refcount = (t[f].refcount + 1) % BYTE
  <2>1. CASE f = 0
    BY <1>0, <2>1 DEF Alike
  <2>2. CASE f # 0
    <3> DEFINE r == (t[f].refcount + 1) % BYTE
               e == [t[f] EXCEPT !.refcount = r]
    <3>1. f \in 1 .. Len(t) /\ t[f].refcount \in Mark /\ t[f] \in NodeType
      BY <1>0, <1>2, <2>2
    <3>2. r \in Mark
      BY <3>1, ByteAssumption DEF Mark
    <3> HIDE DEF r
    <3>3. e \in NodeType /\ Alike(e, t[f]) /\ e.refcount = r
      BY <3>1, <3>2 DEF NodeType, Alike
    <3>4. c = [t EXCEPT ![f] = e]
      BY <2>2 DEF r
    <3> HIDE DEF e, c
    <3>5. c \in Seq(NodeType) /\ Len(c) = Len(t) /\ \A j \in 1 .. Len(t) : c[j] = IF j = f THEN e ELSE t[j]
      BY <1>0, <3>1, <3>3, <3>4, ExceptSeq
    <3> QED BY <1>0, <3>1, <3>3, <3>5 DEF Alike, r
  <2> QED BY <2>1, <2>2
<1> HIDE DEF c
<1>6. TreeInv(c)
  BY <1>0, <1>5 DEF TreeInv, Alike
<1>7. p.pid = reg.pid /\ p.name = x /\ p.refcount \in Mark
  OBVIOUS
<1> HIDE DEF p
<1>8. PICK i \in Nat, k \in Nat : /\ Under(c, i, parent) /\ Planted(c, proc_add(c, p, parent), i, k, reg.pid, x)
                                  /\ Tallied(c, proc_add(c, p, parent), k, 0)
  BY <1>4, <1>6, <1>7, AddedUnder
<1> DEFINE v == proc_add(c, p, parent)
<1> HIDE DEF v
<1>9. Planted(c, v, i, k, reg.pid, x) /\ Under(c, i, parent) /\ Tallied(c, v, k, 0) /\ u = v
  BY <1>3, <1>8 DEF v
<1>10. Planted(t, v, i, k, reg.pid, x)
  <2>1. i \in 1 .. Len(t) /\ k \in i + 1 .. Len(t) + 1
    BY <1>5, <1>9 DEF Planted
  <2>2. \A j \in 1 .. k - 1 : Alike(v[j], t[j])
    BY <1>0, <1>5, <1>9, <2>1 DEF Planted, Alike
  <2>3. ASSUME NEW j \in k + 1 .. Len(t) + 1 PROVE Alike(v[j], t[j - 1])
    <3>1. j - 1 \in 1 .. Len(t) /\ j \in k + 1 .. Len(c) + 1
      BY <1>0, <1>5, <2>1
    <3>2. Alike(v[j], c[j - 1]) /\ Alike(c[j - 1], t[j - 1])
      BY <1>5, <1>9, <3>1 DEF Planted
    <3> QED BY <3>2 DEF Alike
  <2>4. \A j \in i .. k - 1 : c[j].depth = t[j].depth
    BY <1>0, <1>5, <2>1 DEF Alike
  <2>5. k <= Len(t) => c[k].depth = t[k].depth
    BY <1>0, <1>5, <2>1 DEF Alike
  <2>6. i \in i .. k - 1
    BY <1>0, <2>1
  <2> QED BY <1>0, <1>5, <1>9, <2>1, <2>2, <2>3, <2>4, <2>5, <2>6 DEF Planted
<1>11. Under(t, i, parent)
  BY <1>5, <1>9, <1>10 DEF Under, Planted, Alike
<1>12. Tallied(t, v, k, f)
  <2>1. k \in 1 .. Len(t) + 1
    BY <1>0, <1>10 DEF Planted
  <2>2. \A j \in 1 .. k - 1 : v[j].refcount = c[j].refcount /\ j \in 1 .. Len(t)
    <3>1. \A j \in 1 .. k - 1 : j # 0 /\ j \in 1 .. Len(t)
      BY <1>0, <2>1
    <3> QED BY <1>9, <3>1 DEF Tallied
  <2>3. \A j \in k + 1 .. Len(t) + 1 : v[j].refcount = c[j - 1].refcount /\ j - 1 \in 1 .. Len(t)
    <3>1. \A j \in k + 1 .. Len(t) + 1 : j - 1 # 0 /\ j - 1 \in 1 .. Len(t)
      BY <1>0, <2>1
    <3> QED BY <1>5, <1>9, <3>1 DEF Tallied
  <2>4. \A j \in 1 .. k - 1 : j # f => v[j].refcount = t[j].refcount
    BY <1>5, <2>2
  <2>5. \A j \in k + 1 .. Len(t) + 1 : j - 1 # f => v[j].refcount = t[j - 1].refcount
    BY <1>5, <2>3
  <2>6. f \in 1 .. k - 1 => v[f].refcount = (t[f].refcount + 1) % BYTE
    BY <1>5, <2>2
  <2>7. f \in k .. Len(t) => v[f + 1].refcount = (t[f].refcount + 1) % BYTE
    <3>1. SUFFICES ASSUME f \in k .. Len(t) PROVE v[f + 1].refcount = c[f].refcount /\ f # 0
      BY <1>5
    <3>2. f + 1 \in k + 1 .. Len(t) + 1 /\ (f + 1) - 1 = f /\ f # 0
      BY <1>0, <2>1, <3>1
    <3> QED BY <2>3, <3>2
  <2> QED BY <2>4, <2>5, <2>6, <2>7 DEF Tallied
<1>13. f \in Nat
  BY <1>0, <1>2
<1> QED BY <1>1, <1>9, <1>10, <1>11, <1>12, <1>13 DEF Registers, f, x

\* A new node keeps the shape of the tree.
LEMMA TreeGrows ==
    ASSUME NEW t, TreeInv(t), NEW u, NEW i, NEW k, NEW pid, NEW name, Planted(t, u, i, k, pid, name)
    PROVE  TreeInv(u)
<1>0. t \in Seq(NodeType) /\ Len(t) \in Nat /\ Len(t) >= 1 /\ \A j \in 1 .. Len(t) : t[j].depth \in Nat
  BY Field DEF TreeInv
<1>1. i \in 1 .. Len(t) /\ k \in i + 1 .. Len(t) + 1
  BY DEF Planted
<1>2. u[1].pid = INIT
  BY <1>0, <1>1 DEF Planted, TreeInv, Alike
<1>3. ASSUME NEW j \in 1 .. Len(u) PROVE u[j].depth = 0 <=> j = 1
  <2>1. CASE j < k
    BY <1>0, <1>1, <2>1 DEF Planted, TreeInv, Alike
  <2>2. CASE j = k
    BY <1>0, <1>1, <2>2 DEF Planted, TreeInv, Alike
  <2>3. CASE j > k
    <3>1. j \in k + 1 .. Len(t) + 1 /\ j - 1 \in 1 .. Len(t) /\ j - 1 # 1
      BY <1>0, <1>1, <2>3 DEF Planted
    <3> QED BY <1>0, <3>1 DEF Planted, TreeInv, Alike
  <2> QED BY <1>0, <1>1, <2>1, <2>2, <2>3 DEF Planted
<1> QED BY <1>0, <1>2, <1>3 DEF Planted, TreeInv

\* Nodes keep their names and pids.
LEMMA NodesStay ==
    ASSUME NEW t, TreeInv(t), NEW u, NEW i, NEW k, NEW pid, NEW name, Planted(t, u, i, k, pid, name)
    PROVE  /\ \A j \in 1 .. Len(t) : \E l \in 1 .. Len(u) : Alike(u[l], t[j])
           /\ \A l \in 1 .. Len(u) : l = k \/ \E j \in 1 .. Len(t) : Alike(u[l], t[j])
           /\ k \in 1 .. Len(u)
<1>0. t \in Seq(NodeType) /\ Len(t) \in Nat /\ Len(u) = Len(t) + 1
  BY Field DEF TreeInv, Planted
<1>1. i \in 1 .. Len(t) /\ k \in i + 1 .. Len(t) + 1
  BY DEF Planted
<1>2. ASSUME NEW j \in 1 .. Len(t) PROVE \E l \in 1 .. Len(u) : Alike(u[l], t[j])
  <2>1. CASE j < k
    <3>1. j \in 1 .. k - 1 /\ j \in 1 .. Len(u)
      BY <1>0, <1>1, <2>1
    <3> QED BY <3>1 DEF Planted
  <2>2. CASE j >= k
    <3>1. j + 1 \in k + 1 .. Len(t) + 1 /\ j + 1 \in 1 .. Len(u) /\ (j + 1) - 1 = j
      BY <1>0, <1>1, <2>2
    <3> QED BY <3>1 DEF Planted
  <2> QED BY <1>0, <1>1, <2>1, <2>2
<1>3. ASSUME NEW l \in 1 .. Len(u), l # k PROVE \E j \in 1 .. Len(t) : Alike(u[l], t[j])
  <2>1. CASE l < k
    <3>1. l \in 1 .. k - 1 /\ l \in 1 .. Len(t)
      BY <1>0, <1>1, <2>1
    <3> QED BY <3>1 DEF Planted
  <2>2. CASE l > k
    <3>1. l \in k + 1 .. Len(t) + 1 /\ l - 1 \in 1 .. Len(t)
      BY <1>0, <1>1, <2>2
    <3> QED BY <3>1 DEF Planted
  <2> QED BY <1>0, <1>1, <1>3, <2>1, <2>2
<1> QED BY <1>0, <1>1, <1>2, <1>3

-----------------------------------------------------------------------------
(* Names and places.                                                       *)

\* A sum of two bytes.
LEMMA ByteSum ==
    ASSUME NEW x \in Nat, x < 2 * BYTE
    PROVE  x % BYTE = IF x < BYTE THEN x ELSE x - BYTE
<1>1. BYTE \in Nat /\ BYTE > 0
  BY ByteAssumption
<1>2. CASE x < BYTE
  BY <1>1, <1>2
<1>3. CASE x >= BYTE
  <2> DEFINE y == x - BYTE
  <2>1. y \in 0 .. BYTE - 1 /\ x = y + BYTE
    BY <1>1, <1>3
  <2>2. x = BYTE * (x \div BYTE) + (x % BYTE) /\ x % BYTE \in 0 .. BYTE - 1 /\ x \div BYTE \in Int
    BY <1>1
  <2> DEFINE q == x \div BYTE
             r == x % BYTE
  <2>3. q \in Int /\ r \in 0 .. BYTE - 1 /\ y + BYTE = BYTE * q + r
    BY <2>1, <2>2
  <2> HIDE DEF q, r, y
  <2>4. BYTE * (q - 1) = y - r
    BY <1>1, <2>1, <2>3
  <2>5. q - 1 = 0
    <3>1. CASE q - 1 >= 1
      <4>1. BYTE * (q - 1) >= BYTE
        BY <1>1, <2>3, <3>1
      <4> QED BY <1>1, <2>1, <2>3, <2>4, <4>1
    <3>2. CASE q - 1 <= -1
      <4>1. BYTE * (q - 1) <= -BYTE
        BY <1>1, <2>3, <3>2
      <4> QED BY <1>1, <2>1, <2>3, <2>4, <4>1
    <3> QED BY <2>3, <3>1, <3>2
  <2>6. r = y
    BY <1>1, <2>1, <2>3, <2>5
  <2> QED BY <1>1, <1>3, <2>6 DEF r, y
<1> QED BY <1>1, <1>2, <1>3

\* The mark after c.
LEMMA NextMark ==
    ASSUME NEW r \in Mark
    PROVE  LET c == (r + ZERO) % BYTE
               d == (((r + 1) % BYTE) + ZERO) % BYTE
           IN  c \in Mark /\ d \in Mark /\ (d = 0 \/ d = c + 1)
<1>1. BYTE \in Nat /\ BYTE > 0 /\ ZERO \in Nat /\ ZERO < BYTE /\ r \in Nat /\ r < BYTE
  BY ByteAssumption DEF Mark
<1> DEFINE c == (r + ZERO) % BYTE
           s == (r + 1) % BYTE
           d == (s + ZERO) % BYTE
<1>2. c = IF r + ZERO < BYTE THEN r + ZERO ELSE r + ZERO - BYTE
  <2> DEFINE y == r + ZERO
  <2>1. y \in Nat /\ y < 2 * BYTE
    BY <1>1
  <2> HIDE DEF y
  <2>2. y % BYTE = IF y < BYTE THEN y ELSE y - BYTE
    BY <2>1, ByteSum
  <2> QED BY <1>1, <2>1, <2>2 DEF y
<1>3. s = IF r + 1 < BYTE THEN r + 1 ELSE 0
  <2> DEFINE y == r + 1
  <2>1. y \in Nat /\ y < 2 * BYTE
    BY <1>1
  <2> HIDE DEF y
  <2>2. y % BYTE = IF y < BYTE THEN y ELSE y - BYTE
    BY <2>1, ByteSum
  <2>3. s = IF r + 1 < BYTE THEN r + 1 ELSE r + 1 - BYTE
    BY <1>1, <2>1, <2>2 DEF y, s
  <2> HIDE DEF s
  <2> QED BY <1>1, <2>3
<1> HIDE DEF s, c
<1>4. s \in Nat /\ s < BYTE
  BY <1>1, <1>3
<1>5. d = IF s + ZERO < BYTE THEN s + ZERO ELSE s + ZERO - BYTE
  <2> DEFINE y == s + ZERO
  <2>1. y \in Nat /\ y < 2 * BYTE
    BY <1>1, <1>4
  <2> HIDE DEF y
  <2>2. y % BYTE = IF y < BYTE THEN y ELSE y - BYTE
    BY <2>1, ByteSum
  <2> QED BY <1>1, <1>4, <2>1, <2>2 DEF y
<1> HIDE DEF d
<1>6. c \in Mark /\ d \in Mark /\ (d = 0 \/ d = c + 1)
  BY <1>1, <1>2, <1>3, <1>4, <1>5 DEF Mark
<1> QED BY <1>6 DEF c, d, s

\* A name and its last character.
LEMMA AppendSame ==
    ASSUME NEW a \in Names, NEW b \in Names, NEW c \in Char, NEW d \in Char, Append(a, c) = Append(b, d)
    PROVE  a = b /\ c = d
<1>1. Len(a) = Len(b)
  <2>1. Len(Append(a, c)) = Len(a) + 1 /\ Len(Append(b, d)) = Len(b) + 1 /\ Len(a) \in Nat /\ Len(b) \in Nat
    BY AppendProperties, LenProperties DEF Names
  <2> QED BY <2>1
<1>2. c = d
  BY <1>1, AppendProperties DEF Names
<1>3. ASSUME NEW i \in 1 .. Len(a) PROVE a[i] = b[i]
  BY <1>1, AppendProperties DEF Names
<1> QED BY <1>1, <1>2, <1>3, SeqEqual DEF Names

\* A registration keeps names apart, but for twofold ones, unless its mark is 0.
LEMMA NamesStay ==
    ASSUME NEW t, TreeInv(t), NameInv(t), NEW u, NEW i \in Nat, NEW k \in Nat, NEW f \in Nat,
           NEW pid, NEW name \in Files,
           Named(t, f, name), Planted(t, u, i, k, pid, Marked(t, f, name)), Tallied(t, u, k, f),
           f # 0 => NextOf(t[f].refcount) # 0
    PROVE  NameInv(u)
<1> DEFINE n == Len(t)
           x == Marked(t, f, name)
           Prior(l) == IF l < k THEN l ELSE l - 1
<1>0. /\ t \in Seq(NodeType) /\ n \in Nat /\ Len(u) = n + 1 /\ k \in 1 .. n + 1
      /\ \A j \in 1 .. n : t[j].name \in NameType /\ t[j].refcount \in Mark
      /\ u \in Seq(NodeType) /\ \A j \in 1 .. n + 1 : u[j].name \in NameType /\ u[j].refcount \in Mark
  <2>1. t \in Seq(NodeType) /\ u \in Seq(NodeType) /\ Len(u) = n + 1
    BY DEF TreeInv, Planted
  <2>2. n \in Nat
    BY <2>1, Field
  <2>3. k \in 1 .. n + 1
    BY <2>2 DEF Planted
  <2> QED BY <2>1, <2>2, <2>3, Field
<1>1. \A l \in 1 .. n + 1 : l # k => Prior(l) \in 1 .. n /\ u[l].name = t[Prior(l)].name
  <2>1. ASSUME NEW l \in 1 .. n + 1, l # k PROVE Prior(l) \in 1 .. n /\ u[l].name = t[Prior(l)].name
    <3>1. CASE l < k
      BY <1>0, <3>1 DEF Planted, Alike
    <3>2. CASE l > k
      <4>1. Prior(l) = l - 1 /\ l - 1 \in 1 .. n /\ l \in k + 1 .. n + 1
        BY <1>0, <3>2
      <4> HIDE DEF Prior
      <4>2. Alike(u[l], t[l - 1])
        BY <4>1 DEF Planted
      <4> QED BY <4>1, <4>2 DEF Alike
    <3> QED BY <1>0, <2>1, <3>1, <3>2
  <2> QED BY <2>1
<1>2. u[k].name = x
  BY DEF Planted
<1>3. \A l, m \in 1 .. n + 1 : l # k /\ m # k /\ Prior(l) = Prior(m) => l = m
  BY <1>0
<1>4. \A j \in 1 .. n : \E l \in 1 .. n + 1 : l # k /\ Prior(l) = j
  <2>1. ASSUME NEW j \in 1 .. n PROVE \E l \in 1 .. n + 1 : l # k /\ Prior(l) = j
    <3>1. CASE j < k
      <4>1. j \in 1 .. n + 1 /\ j # k /\ Prior(j) = j
        BY <1>0, <3>1
      <4> QED BY <4>1
    <3>2. CASE j >= k
      <4>1. j + 1 \in 1 .. n + 1 /\ j + 1 # k /\ Prior(j + 1) = j
        BY <1>0, <3>2
      <4> QED BY <4>1
    <3> QED BY <1>0, <3>1, <3>2
  <2> QED BY <2>1
<1>5. \A l \in 1 .. n + 1 : l # k => u[l].refcount = IF Prior(l) = f THEN (t[f].refcount + 1) % BYTE
                                                     ELSE t[Prior(l)].refcount
  <2>1. ASSUME NEW l \in 1 .. n + 1, l # k, Prior(l) # f PROVE u[l].refcount = t[Prior(l)].refcount
    BY <1>0, <2>1 DEF Tallied
  <2>2. ASSUME NEW l \in 1 .. n + 1, l # k, Prior(l) = f PROVE u[l].refcount = (t[f].refcount + 1) % BYTE
    <3>1. CASE l < k
      <4>1. f = l /\ f \in 1 .. k - 1
        BY <1>0, <2>2, <3>1
      <4> QED BY <4>1 DEF Tallied
    <3>2. CASE l > k
      <4>1. f + 1 = l /\ f \in k .. n
        BY <1>0, <2>2, <3>2
      <4> QED BY <4>1 DEF Tallied
    <3> QED BY <1>0, <2>2, <3>1, <3>2
  <2> QED BY <2>1, <2>2
<1> HIDE DEF Prior, n, x
\* The new name is none of the others', unless it is twofold.
<1>6. ASSUME NEW j \in 1 .. n, t[j].name = x PROVE Twofold(x)
  <2>1. CASE f = 0
    BY <1>6, <2>1 DEF Named, Marked, n, x
  <2>2. CASE f # 0
    <3> DEFINE c == NextOf(t[f].refcount)
    <3>1. f \in 1 .. n /\ t[f].name = name /\ t[f].refcount \in Mark
      BY <1>0, <2>2 DEF Named, n
    <3>2. c \in Char
      BY <2>2, <3>1, NextMark DEF Char, NextOf
    <3> HIDE DEF c
    <3>3. x = Append(name, c)
      BY <2>2, <3>2 DEF Marked, Name, Char, c, x
    <3>4. CASE name \in Ambiguous
      BY <3>2, <3>3, <3>4 DEF Twofold
    <3>5. CASE x \in Ambiguous
      BY <3>5 DEF Twofold
    <3>6. CASE name \notin Ambiguous /\ x \notin Ambiguous
      <4>0. /\ t[j].name = Append(name, c) /\ t[j].name \notin Ambiguous
            /\ name \in Files \ Ambiguous /\ j \in 1 .. Len(t)
        BY <1>6, <3>3, <3>6 DEF n
      <4>1. PICK h \in 1 .. n : t[h].name = name /\ (NextOf(t[h].refcount) = 0 \/ c < NextOf(t[h].refcount))
        BY <3>2, <4>0, Zenon DEF NameInv, n
      <4>2. ~Twofold(name)
        <5>1. SUFFICES ASSUME NEW g \in Ambiguous \cap Files, NEW d \in Char, name = Append(g, d) PROVE FALSE
          BY <3>6 DEF Twofold
        <5> QED BY <3>6, <5>1 DEF Ambiguous
      <4>3. h = f
        BY <3>1, <4>1, <4>2 DEF NameInv, n
      <4>4. c = 0 \/ c < c
        BY <4>1, <4>3 DEF c
      <4>5. c # 0 /\ c \in Int
        BY <3>2, ByteAssumption DEF Char, Mark
      <4> QED BY <4>4, <4>5
    <3> QED BY <3>4, <3>5, <3>6
  <2> QED BY <2>1, <2>2
<1>7. ASSUME NEW l \in 1 .. n + 1, NEW m \in 1 .. n + 1, u[l].name = u[m].name
      PROVE  l = m \/ Twofold(u[l].name)
  <2>1. CASE l = k /\ m # k
    <3>1. t[Prior(m)].name = x /\ Prior(m) \in 1 .. n /\ u[l].name = x
      BY <1>1, <1>2, <1>7, <2>1
    <3> QED BY <1>6, <3>1
  <2>2. CASE m = k /\ l # k
    <3>1. t[Prior(l)].name = x /\ Prior(l) \in 1 .. n /\ u[l].name = x
      BY <1>1, <1>2, <1>7, <2>2
    <3> QED BY <1>6, <3>1
  <2>3. CASE l # k /\ m # k
    <3>1. t[Prior(l)].name = t[Prior(m)].name /\ Prior(l) \in 1 .. n /\ Prior(m) \in 1 .. n
          /\ u[l].name = t[Prior(l)].name
      BY <1>1, <1>7, <2>3
    <3>2. Prior(l) = Prior(m) \/ Twofold(t[Prior(l)].name)
      BY <3>1 DEF NameInv, n
    <3> QED BY <1>3, <2>3, <3>1, <3>2
  <2> QED BY <2>1, <2>2, <2>3
\* The next mark of every plain path is larger.
<1>8. ASSUME NEW l \in 1 .. n + 1, NEW g \in Files \ Ambiguous, NEW b \in Char,
             u[l].name = Append(g, b), u[l].name \notin Ambiguous
      PROVE  \E h \in 1 .. n + 1 : u[h].name = g /\ (NextOf(u[h].refcount) = 0 \/ b < NextOf(u[h].refcount))
  <2>1. CASE l = k
    <3>1. f # 0
      <4>1. SUFFICES ASSUME f = 0 PROVE FALSE
        OBVIOUS
      <4>2. name = Append(g, b)
        BY <1>2, <1>8, <2>1, <4>1 DEF Marked, x
      <4>3. name \in Ambiguous
        BY <4>2 DEF Ambiguous
      <4> QED BY <1>2, <1>8, <2>1, <4>1, <4>3 DEF Marked, x
    <3>2. f \in 1 .. n /\ t[f].name = name /\ t[f].refcount \in Mark
      BY <1>0, <3>1 DEF Named, n
    <3>3. PICK h \in 1 .. n + 1 : h # k /\ Prior(h) = f
      BY <1>4, <3>2
    <3> DEFINE c == NextOf(t[f].refcount)
               d == NextOf((t[f].refcount + 1) % BYTE)
    <3>4. c \in Mark /\ d \in Mark /\ (d = 0 \/ d = c + 1) /\ c # 0
      BY <3>1, <3>2, NextMark DEF NextOf
    <3>5. u[h].name = name /\ NextOf(u[h].refcount) = d
      BY <1>1, <1>5, <3>2, <3>3
    <3> HIDE DEF c, d
    <3>6. u[l].name = Append(name, c)
      BY <1>2, <2>1, <3>1, <3>4 DEF Marked, Name, c, x
    <3>7. name = g /\ b = c
      <4>1. name \in Names /\ g \in Names /\ c \in Char
        BY <3>4, FilesAssumption DEF Char
      <4> QED BY <1>8, <3>6, <4>1, AppendSame
    <3>8. d = 0 \/ c < d
      BY <3>4, ByteAssumption DEF Mark
    <3> QED BY <3>5, <3>7, <3>8
  <2>2. CASE l # k
    <3>1. PICK j \in 1 .. n : u[l].name = t[j].name
      BY <1>1, <2>2
    <3>2. PICK i0 \in 1 .. n : t[i0].name = g /\ (NextOf(t[i0].refcount) = 0 \/ b < NextOf(t[i0].refcount))
      <4>1. /\ t[j].name = Append(g, b) /\ t[j].name \notin Ambiguous /\ j \in 1 .. n
            /\ g \in Files \ Ambiguous /\ b \in Char
        BY <1>8, <3>1
      <4>2. \A q \in 1 .. n, e \in Files \ Ambiguous, c \in Char :
                t[q].name = Append(e, c) /\ t[q].name \notin Ambiguous =>
                    \E m \in 1 .. n : t[m].name = e /\ (NextOf(t[m].refcount) = 0 \/ c < NextOf(t[m].refcount))
        BY Zenon DEF NameInv, n
      <4> QED BY <4>1, <4>2, Zenon
    <3>3. PICK h \in 1 .. n + 1 : h # k /\ Prior(h) = i0
      BY <1>4
    <3>4. u[h].name = g
      BY <1>1, <3>2, <3>3
    <3>5. CASE i0 # f
      <4>1. u[h].refcount = t[i0].refcount
        BY <1>5, <3>3, <3>5
      <4> QED BY <3>2, <3>4, <4>1
    <3>6. CASE i0 = f
      <4> DEFINE c == NextOf(t[f].refcount)
                 d == NextOf((t[f].refcount + 1) % BYTE)
      <4>1. f # 0 /\ t[f].refcount \in Mark
        BY <1>0, <3>6
      <4>2. c \in Mark /\ d \in Mark /\ (d = 0 \/ d = c + 1) /\ c # 0
        BY <4>1, NextMark DEF NextOf
      <4>3. NextOf(u[h].refcount) = d
        BY <1>5, <3>3, <3>6
      <4>4. b < c
        BY <3>2, <3>6, <4>2
      <4> HIDE DEF c, d
      <4>5. d = 0 \/ b < d
        BY <4>2, <4>4, ByteAssumption DEF Mark, Char
      <4> QED BY <3>4, <4>3, <4>5
    <3> QED BY <3>5, <3>6
  <2> QED BY <2>1, <2>2
<1>9. Len(u) = n + 1
  BY <1>0
<1> QED BY <1>7, <1>8, <1>9 DEF NameInv

\* A node keeps the one above it, and the new one is below node i.
LEMMA AboveStays ==
    ASSUME NEW t, TreeInv(t), NEW u, NEW i, NEW k, NEW pid, NEW name, Planted(t, u, i, k, pid, name)
    PROVE  /\ Above(u, i, k) /\ u[i].pid = t[i].pid
           /\ \A l \in 2 .. Len(u) : l # k =>
                  \E j \in 2 .. Len(t) :
                      /\ Alike(u[l], t[j])
                      /\ \A q \in 1 .. Len(t) : Above(t, q, j) =>
                             \E r \in 1 .. Len(u) : Above(u, r, l) /\ u[r].pid = t[q].pid
<1> DEFINE n == Len(t)
<1>0. /\ t \in Seq(NodeType) /\ n \in Nat /\ Len(u) = n + 1 /\ i \in 1 .. n /\ k \in i + 1 .. n + 1
      /\ \A j \in 1 .. n : t[j].depth \in Nat
      /\ u \in Seq(NodeType) /\ \A j \in 1 .. n + 1 : u[j].depth \in Nat
  <2>1. t \in Seq(NodeType) /\ u \in Seq(NodeType) /\ Len(u) = n + 1
    BY DEF TreeInv, Planted
  <2>2. i \in 1 .. n /\ k \in i + 1 .. n + 1
    BY DEF Planted
  <2> QED BY <2>1, <2>2, Field
<1>1. \A j \in 1 .. k - 1 : u[j].depth = t[j].depth /\ u[j].pid = t[j].pid /\ Alike(u[j], t[j])
  BY DEF Planted, Alike
<1>2. \A j \in k + 1 .. n + 1 : u[j].depth = t[j - 1].depth /\ u[j].pid = t[j - 1].pid /\ Alike(u[j], t[j - 1])
  BY DEF Planted, Alike
<1>3. u[k].depth = t[i].depth + 1
  BY DEF Planted
<1>4. \A j \in i + 1 .. k - 1 : t[j].depth > t[i].depth
  BY DEF Planted
<1>5. k <= n => t[k].depth <= t[i].depth
  BY DEF Planted
<1> HIDE DEF n
<1>6. Above(u, i, k) /\ u[i].pid = t[i].pid
  <2>1. i \in 1 .. k - 1 /\ i \in 1 .. n
    BY <1>0
  <2>2. \A j \in i + 1 .. k - 1 : j \in 1 .. k - 1 /\ j \in 1 .. n
    BY <1>0
  <2>3. \A j \in i + 1 .. k - 1 : u[j].depth >= u[k].depth
    BY <1>0, <1>1, <1>3, <1>4, <2>1, <2>2
  <2>4. u[i].depth < u[k].depth
    BY <1>0, <1>1, <1>3, <2>1
  <2> QED BY <1>1, <2>1, <2>3, <2>4 DEF Above
<1>7. ASSUME NEW l \in 2 .. n + 1, l # k
      PROVE  \E j \in 2 .. n :
                 /\ Alike(u[l], t[j])
                 /\ \A q \in 1 .. n : Above(t, q, j) =>
                        \E r \in 1 .. n + 1 : Above(u, r, l) /\ u[r].pid = t[q].pid
  <2>1. CASE l < k
    <3>1. l \in 2 .. n /\ l \in 1 .. k - 1
      BY <1>0, <2>1
    <3>2. ASSUME NEW q \in 1 .. n, Above(t, q, l) PROVE Above(u, q, l) /\ u[q].pid = t[q].pid /\ q \in 1 .. n + 1
      <4>1. q \in 1 .. l - 1 /\ t[q].depth < t[l].depth /\ \A j \in q + 1 .. l - 1 : t[j].depth >= t[l].depth
        BY <3>2 DEF Above
      <4>2. q \in 1 .. k - 1 /\ q \in 1 .. n + 1 /\ \A j \in q + 1 .. l - 1 : j \in 1 .. k - 1
        BY <1>0, <3>1, <4>1
      <4> QED BY <1>1, <3>1, <4>1, <4>2 DEF Above
    <3> QED BY <1>1, <3>1, <3>2
  <2>2. CASE l > k
    <3> DEFINE j == l - 1
    <3>1. j \in 2 .. n /\ l \in k + 1 .. n + 1 /\ j >= k /\ j \in 1 .. n /\ l = j + 1
      BY <1>0, <2>2
    <3>2. Alike(u[l], t[j]) /\ u[l].depth = t[j].depth
      BY <1>2, <3>1
    <3> HIDE DEF j
    <3>3. ASSUME NEW q \in 1 .. n, Above(t, q, j)
          PROVE  \E r \in 1 .. n + 1 : Above(u, r, l) /\ u[r].pid = t[q].pid
      <4>1. q \in 1 .. j - 1 /\ t[q].depth < t[j].depth /\ \A m \in q + 1 .. j - 1 : t[m].depth >= t[j].depth
        BY <3>3 DEF Above
      <4>2. ASSUME NEW m \in k + 1 .. l - 1, m - 1 \in q + 1 .. j - 1 PROVE u[m].depth >= u[l].depth
        <5>1. m \in k + 1 .. n + 1
          BY <1>0, <3>1, <4>2
        <5>2. u[m].depth = t[m - 1].depth /\ t[m - 1].depth >= t[j].depth
          BY <1>2, <4>1, <4>2, <5>1
        <5> QED BY <3>2, <5>2
      <4>3. CASE q >= k
        <5>1. q + 1 \in k + 1 .. n + 1 /\ (q + 1) - 1 = q /\ q + 1 \in 1 .. l - 1 /\ q + 1 \in 1 .. n + 1
          BY <1>0, <3>1, <4>1, <4>3
        <5>2. u[q + 1].depth = t[q].depth /\ u[q + 1].pid = t[q].pid
          BY <1>2, <5>1
        <5>3. \A m \in (q + 1) + 1 .. l - 1 : m \in k + 1 .. l - 1 /\ m - 1 \in q + 1 .. j - 1
          BY <1>0, <3>1, <4>1, <4>3
        <5>4. Above(u, q + 1, l)
          <6>1. u[q + 1].depth < u[l].depth
            BY <3>2, <4>1, <5>2
          <6>2. \A m \in (q + 1) + 1 .. l - 1 : u[m].depth >= u[l].depth
            BY <4>2, <5>3
          <6> QED BY <5>1, <6>1, <6>2 DEF Above
        <5> QED BY <5>1, <5>2, <5>4
      <4>4. CASE q < k
        <5>1. q \in 1 .. k - 1 /\ q \in 1 .. l - 1 /\ q \in 1 .. n + 1
          BY <1>0, <3>1, <4>1, <4>4
        <5>2. u[q].depth = t[q].depth /\ u[q].pid = t[q].pid
          BY <1>1, <5>1
        <5>3. t[j].depth <= t[i].depth
          <6>1. k \in 1 .. n /\ t[k].depth <= t[i].depth
            BY <1>0, <1>5, <3>1
          <6>2. CASE j = k
            BY <6>1, <6>2
          <6>3. CASE j # k
            <7>1. k \in q + 1 .. j - 1
              BY <1>0, <3>1, <4>1, <4>4, <6>3
            <7>2. t[k].depth >= t[j].depth
              BY <4>1, <7>1
            <7> QED BY <1>0, <3>1, <6>1, <7>2
          <6> QED BY <6>2, <6>3
        <5>4. ASSUME NEW m \in q + 1 .. l - 1 PROVE u[m].depth >= u[l].depth
          <6>1. CASE m < k
            <7>1. m \in 1 .. k - 1 /\ m \in q + 1 .. j - 1
              BY <1>0, <3>1, <4>1, <6>1
            <7> QED BY <1>1, <3>2, <4>1, <7>1
          <6>2. CASE m = k
            BY <1>0, <1>3, <3>1, <3>2, <5>3, <6>2
          <6>3. CASE m > k
            <7>1. m \in k + 1 .. l - 1 /\ m - 1 \in q + 1 .. j - 1
              BY <1>0, <3>1, <4>1, <4>4, <6>3
            <7> QED BY <4>2, <7>1
          <6> QED BY <1>0, <4>1, <6>1, <6>2, <6>3
        <5>5. Above(u, q, l)
          <6>1. u[q].depth < u[l].depth
            BY <3>2, <4>1, <5>2
          <6> QED BY <5>1, <5>4, <6>1 DEF Above
        <5> QED BY <5>1, <5>2, <5>5
      <4> QED BY <1>0, <4>1, <4>3, <4>4
    <3> QED BY <3>1, <3>2, <3>3
  <2> QED BY <1>0, <1>7, <2>1, <2>2
<1> QED BY <1>0, <1>6, <1>7 DEF n

\* A node has one above it at most.
LEMMA AboveOne ==
    ASSUME NEW t \in Seq(NodeType), NEW i \in 1 .. Len(t), NEW p, NEW q, Above(t, p, i), Above(t, q, i)
    PROVE  p = q
<1>1. p \in 1 .. i - 1 /\ q \in 1 .. i - 1 /\ Len(t) \in Nat /\ i \in Nat
  BY Field DEF Above
<1>2. t[p].depth \in Nat /\ t[q].depth \in Nat /\ t[i].depth \in Nat
  <2>1. p \in 1 .. Len(t) /\ q \in 1 .. Len(t)
    BY <1>1
  <2> QED BY <2>1, Field
<1>3. ~(p < q)
  BY <1>1, <1>2 DEF Above
<1>4. ~(q < p)
  BY <1>1, <1>2 DEF Above
<1> QED BY <1>1, <1>3, <1>4

-----------------------------------------------------------------------------
(* Messages.                                                               *)

\* The constants among processes.
LEMMA Constants == SERVER \in Pids /\ INIT \in Pids /\ SERVER # INIT /\ Pids \subseteq Nat
  BY BoundAssumption DEF SERVER, INIT, Pids

\* The types of the messages to a process.
LEMMA Letters ==
    ASSUME TypeInv
    PROVE  \A p \in Pids : /\ inbox[p] \in Seq(Letter) /\ Len(inbox[p]) \in Nat
                           /\ \A i \in 1 .. Len(inbox[p]) :
                                  inbox[p][i] \in Letter /\ inbox[p][i].src \in Pids /\ inbox[p][i].kdat \in Buffer
<1>1. \A p \in Pids : inbox[p] \in Seq(Letter)
  BY DEF TypeInv
<1>2. ASSUME NEW p \in Pids
      PROVE  Len(inbox[p]) \in Nat /\ \A i \in 1 .. Len(inbox[p]) : inbox[p][i] \in Letter
  BY <1>1, LenProperties, ElementOfSeq
<1> QED BY <1>1, <1>2 DEF Letter

\* A message sent adds to one inbox.
LEMMA PostTypes ==
    ASSUME TypeInv, NEW p \in Pids, NEW q \in Pids, NEW x \in BodyType, x.kind = "PREG" => x.name \in Files,
           Post(p, q, x)
    PROVE  /\ inbox' \in [Pids -> Seq(Letter)] /\ body' \in [Buffer -> BodyType] /\ held' \subseteq Buffer
           /\ \A b \in Buffer : body'[b].kind = "PREG" => body'[b].name \in Files
<1>1. PICK b \in Buffer \ held : /\ held' = held \cup {b} /\ body' = [body EXCEPT ![b] = x]
                                 /\ inbox' = [inbox EXCEPT ![q] = Append(@, [src |-> p, kdat |-> b])]
  BY DEF Post
<1>2. [src |-> p, kdat |-> b] \in Letter
  BY DEF Letter
<1>3. Append(inbox[q], [src |-> p, kdat |-> b]) \in Seq(Letter)
  BY <1>2, Letters, AppendProperties
<1> QED BY <1>1, <1>3 DEF TypeInv

\* A message sent gets a body of its own.
LEMMA PostKeeps ==
    ASSUME TypeInv, MailInv, NEW p \in Pids, p # SERVER, NEW q \in Pids, NEW x \in BodyType, Post(p, q, x)
    PROVE  MailInv' /\ PostMail(p, q, x)
<1>1. PICK b \in Buffer \ held : /\ held' = held \cup {b} /\ body' = [body EXCEPT ![b] = x]
                                 /\ inbox' = [inbox EXCEPT ![q] = Append(@, [src |-> p, kdat |-> b])]
  BY DEF Post
<1> DEFINE m == [src |-> p, kdat |-> b]
           n == Len(inbox[q]) + 1
           J == Append(inbox[q], m)
<1>2. m \in Letter /\ m.src = p /\ m.kdat = b
  BY DEF Letter
<1> HIDE DEF m
<1>3. /\ J \in Seq(Letter) /\ Len(J) = n /\ J[n] = m
      /\ \A i \in 1 .. Len(inbox[q]) : J[i] = inbox[q][i]
  BY <1>2, Letters, AppendProperties
<1> HIDE DEF J
<1>4. \A r \in Pids : inbox'[r] = IF r = q THEN J ELSE inbox[r]
  BY <1>1 DEF TypeInv, J, m
<1>5. body'[b] = x /\ \A c \in Buffer : c # b => body'[c] = body[c]
  BY <1>1 DEF TypeInv
<1>6. \A r \in Pids : Len(inbox'[r]) = IF r = q THEN n ELSE Len(inbox[r])
  BY <1>3, <1>4
<1>7. \A r \in Pids : \A i \in 1 .. Len(inbox[r]) : inbox'[r][i] = inbox[r][i]
  BY <1>3, <1>4
<1>8. inbox'[q][n] = m
  BY <1>3, <1>4
<1>9. \A r \in Pids : \A i \in 1 .. Len(inbox[r]) : inbox[r][i].kdat \in held /\ inbox[r][i].kdat \in Buffer
  BY Letters DEF MailInv
<1>10. \A r \in Pids : \A i \in 1 .. Len(inbox[r]) : body'[inbox[r][i].kdat] = body[inbox[r][i].kdat]
  BY <1>5, <1>9
<1>11. PostMail(p, q, x)
  BY <1>2, <1>5, <1>6, <1>7, <1>8, <1>10 DEF PostMail, n
<1>12. \A r \in Pids : \A i \in 1 .. Len(inbox'[r]) : i \in 1 .. Len(inbox[r]) \/ (r = q /\ i = n)
  BY <1>6, Letters
<1>13. MailInv'
  <2>1. ASSUME NEW r \in Pids, NEW i \in 1 .. Len(inbox'[r]) PROVE inbox'[r][i].kdat \in held'
    BY <1>1, <1>2, <1>7, <1>8, <1>9, <1>12
  <2>2. ASSUME NEW r \in Pids, NEW s \in Pids, NEW i \in 1 .. Len(inbox'[r]), NEW j \in 1 .. Len(inbox'[s]),
               inbox'[r][i].kdat = inbox'[s][j].kdat
        PROVE  r = s /\ i = j
    <3>1. CASE i \in 1 .. Len(inbox[r]) /\ j \in 1 .. Len(inbox[s])
      <4>1. inbox[r][i].kdat = inbox[s][j].kdat
        BY <1>7, <2>2, <3>1
      <4> QED BY <3>1, <4>1 DEF MailInv
    <3>2. CASE i \in 1 .. Len(inbox[r]) /\ s = q /\ j = n
      <4>1. inbox'[r][i].kdat \in held
        BY <1>7, <1>9, <3>2
      <4>2. inbox'[s][j].kdat = b
        BY <1>2, <1>8, <3>2
      <4> QED BY <2>2, <4>1, <4>2
    <3>3. CASE r = q /\ i = n /\ j \in 1 .. Len(inbox[s])
      <4>1. inbox'[s][j].kdat \in held
        BY <1>7, <1>9, <3>3
      <4>2. inbox'[r][i].kdat = b
        BY <1>2, <1>8, <3>3
      <4> QED BY <2>2, <4>1, <4>2
    <3> QED BY <1>12, <3>1, <3>2, <3>3
  <2>3. ASSUME NEW i \in 1 .. Len(inbox'[SERVER]) PROVE inbox'[SERVER][i].src # SERVER
    <3>1. CASE i \in 1 .. Len(inbox[SERVER])
      BY <1>7, <3>1, Constants DEF MailInv
    <3>2. CASE SERVER = q /\ i = n
      BY <1>2, <1>8, <3>2
    <3> QED BY <1>12, <3>1, <3>2, Constants
  <2> QED BY <2>1, <2>2, <2>3 DEF MailInv
<1> QED BY <1>11, <1>13

\* A message taken shortens one inbox.
LEMMA TakeTypes ==
    ASSUME TypeInv, NEW p \in Pids, inbox[p] # <<>>, inbox' = [inbox EXCEPT ![p] = Tail(@)]
    PROVE  /\ inbox' \in [Pids -> Seq(Letter)]
           /\ \A q \in Pids : Len(inbox'[q]) = IF q = p THEN Len(inbox[q]) - 1 ELSE Len(inbox[q])
           /\ \A q \in Pids : \A i \in 1 .. Len(inbox'[q]) :
                  inbox'[q][i] = IF q = p THEN inbox[q][i + 1] ELSE inbox[q][i]
           /\ Len(inbox[p]) >= 1 /\ Head(inbox[p]) = inbox[p][1]
<1>1. /\ Tail(inbox[p]) \in Seq(Letter) /\ Len(Tail(inbox[p])) = Len(inbox[p]) - 1
      /\ \A i \in 1 .. Len(Tail(inbox[p])) : Tail(inbox[p])[i] = inbox[p][i + 1]
      /\ Head(inbox[p]) = inbox[p][1]
  BY Letters, HeadTailProperties
<1>2. Len(inbox[p]) >= 1
  BY Letters, EmptySeq
<1>3. \A q \in Pids : inbox'[q] = IF q = p THEN Tail(inbox[p]) ELSE inbox[q]
  BY DEF TypeInv
<1>4. inbox' \in [Pids -> Seq(Letter)]
  BY <1>1 DEF TypeInv
<1> QED BY <1>1, <1>2, <1>3, <1>4

\* Messages stay apart when one is taken, also if its body is released.
LEMMA TakeKeeps ==
    ASSUME TypeInv, MailInv, NEW p \in Pids, inbox[p] # <<>>, inbox' = [inbox EXCEPT ![p] = Tail(@)],
           body' = body, held' = held \/ held' = held \ {Head(inbox[p]).kdat}
    PROVE  MailInv' /\ TakeMail(p)
<1>1. TakeMail(p) /\ Head(inbox[p]) = inbox[p][1]
  BY TakeTypes DEF TakeMail
<1> DEFINE Prior(q, i) == IF q = p THEN i + 1 ELSE i
<1>2. \A q \in Pids : \A i \in 1 .. Len(inbox'[q]) :
          /\ Prior(q, i) \in 1 .. Len(inbox[q]) /\ inbox'[q][i] = inbox[q][Prior(q, i)]
          /\ (q = p => Prior(q, i) # 1) /\ i \in Nat
  BY <1>1, Letters DEF TakeMail
<1>3. \A q \in Pids : \A i, j \in Nat : Prior(q, i) = Prior(q, j) => i = j
  OBVIOUS
<1>4. 1 \in 1 .. Len(inbox[p])
  BY <1>1, Letters DEF TakeMail
<1> HIDE DEF Prior
<1>5. ASSUME NEW q \in Pids, NEW i \in 1 .. Len(inbox'[q]) PROVE inbox'[q][i].kdat \in held'
  <2>1. inbox[q][Prior(q, i)].kdat \in held
    BY <1>2 DEF MailInv
  <2>2. inbox[q][Prior(q, i)].kdat # inbox[p][1].kdat
    BY <1>2, <1>4 DEF MailInv
  <2> QED BY <1>1, <1>2, <2>1, <2>2
<1>6. ASSUME NEW q \in Pids, NEW r \in Pids, NEW i \in 1 .. Len(inbox'[q]), NEW j \in 1 .. Len(inbox'[r]),
             inbox'[q][i].kdat = inbox'[r][j].kdat
      PROVE  q = r /\ i = j
  <2>1. q = r /\ Prior(q, i) = Prior(r, j)
    BY <1>2, <1>6 DEF MailInv
  <2> QED BY <1>2, <1>3, <2>1
<1>7. ASSUME NEW i \in 1 .. Len(inbox'[SERVER]) PROVE inbox'[SERVER][i].src # SERVER
  BY <1>2, Constants DEF MailInv
<1> QED BY <1>1, <1>5, <1>6, <1>7 DEF MailInv

\* The texts of messages, and what a lookup finds.
LEMMA Texts ==
    /\ NONAME \in NameType /\ Blank \in BodyType
    /\ \A x \in Int : Body("PREQ", NONAME, x) \in BodyType
    /\ Body("other", NONAME, GARBAGE) \in BodyType
    /\ \A f \in Files : f \in NameType
    /\ INITNAME \in NameType
    /\ \A n \in NameType : Body("PREQ", n, GARBAGE) \in BodyType
    /\ \A n \in NameType, x \in Int : Body("PREG", n, x) \in BodyType
<1>2. NONAME \in NameType
  BY EmptySeq DEF NONAME, NameType, Names
<1>3. (\A f \in Files : f \in NameType) /\ INITNAME \in NameType
  BY FilesAssumption DEF NameType
<1>4. GARBAGE \in Int
  BY DEF GARBAGE
<1> HIDE DEF NameType
<1>5. \A n \in NameType, x \in Int, k \in {"blank", "PREG", "PREQ", "other"} : Body(k, n, x) \in BodyType
  BY DEF Body, BodyType
<1> QED BY <1>2, <1>3, <1>4, <1>5 DEF Blank

\* proc_find_by_name gives a pid or MISSING, and that of a node if there is one.
LEMMA FindByName ==
    ASSUME NEW t \in Seq(NodeType), NEW name \in NameType
    PROVE  /\ proc_find_by_name(t, name) \in Int
           /\ Has(t, name) => \E i \in 1 .. Len(t) : t[i].name = name /\ t[i].pid = proc_find_by_name(t, name)
<1> DEFINE f == traverse_by_name(t, name)
<1>1. Named(t, f, name)
  BY ByName
<1>2. proc_find_by_name(t, name) = IF f = 0 THEN MISSING ELSE t[f].pid
  BY DEF proc_find_by_name
<1> HIDE DEF f
<1>3. CASE f \in 1 .. Len(t) /\ t[f].name = name
  <2>1. f # 0 /\ t[f].pid \in Int
    BY <1>3, Field
  <2> QED BY <1>2, <1>3, <2>1
<1>4. CASE f = 0 /\ \A j \in 1 .. Len(t) : t[j].name # name
  BY <1>2, <1>4 DEF Has, MISSING
<1> QED BY <1>1, <1>3, <1>4 DEF Named

\* An answer is a message.
LEMMA AnswerTypes ==
    ASSUME TypeInv, TreeInv(proc_tree), NEW m, m.src \in Pids, m.kdat \in Buffer,
           NEW rest \in [Pids -> Seq(Letter)], parse_procreq(m, rest)
    PROVE  /\ inbox' \in [Pids -> Seq(Letter)] /\ body' \in [Buffer -> BodyType]
           /\ \A b \in Buffer : body'[b].kind = "PREG" => body'[b].name \in Files
<1> DEFINE pid == proc_find_by_name(proc_tree, body[m.kdat].name)
           x == Body("PREQ", NONAME, pid)
           a == [src |-> SERVER, kdat |-> m.kdat]
<1>1. body' = [body EXCEPT ![m.kdat] = x] /\ inbox' = [rest EXCEPT ![m.src] = Append(@, a)]
  BY DEF parse_procreq
<1>2. pid \in Int
  <2>1. body[m.kdat].name \in NameType /\ proc_tree \in Seq(NodeType)
    BY DEF TypeInv, TreeInv, BodyType
  <2> QED BY <2>1, FindByName
<1> HIDE DEF pid
<1>3. x \in BodyType /\ x.kind = "PREQ"
  BY <1>2, Texts DEF Body
<1>4. a \in Letter
  BY Constants DEF Letter
<1> HIDE DEF x, a
<1>5. Append(rest[m.src], a) \in Seq(Letter)
  BY <1>4, AppendProperties
<1> QED BY <1>1, <1>3, <1>5 DEF TypeInv

\* An answer takes the body of its request.
LEMMA AnswerKeeps ==
    ASSUME TypeInv, MailInv, inbox[SERVER] # <<>>, held' = held,
           parse_procreq(Head(inbox[SERVER]), [inbox EXCEPT ![SERVER] = Tail(@)])
    PROVE  LET m == inbox[SERVER][1] IN
           /\ MailInv'
           /\ AnswerMail(m.src, Body("PREQ", NONAME, proc_find_by_name(proc_tree, body[m.kdat].name)))
<1> DEFINE m == inbox[SERVER][1]
           x == Body("PREQ", NONAME, proc_find_by_name(proc_tree, body[m.kdat].name))
           a == [src |-> SERVER, kdat |-> m.kdat]
           rest == [inbox EXCEPT ![SERVER] = Tail(@)]
           n == Len(inbox[SERVER])
           p == m.src
           J == Append(inbox[p], a)
<1>1. /\ inbox[SERVER] \in Seq(Letter) /\ n \in Nat /\ n >= 1 /\ 1 \in 1 .. n
      /\ Tail(inbox[SERVER]) \in Seq(Letter) /\ Len(Tail(inbox[SERVER])) = n - 1
      /\ \A i \in 1 .. n - 1 : Tail(inbox[SERVER])[i] = inbox[SERVER][i + 1]
      /\ Head(inbox[SERVER]) = m
  BY Constants, Letters, EmptySeq, HeadTailProperties
<1>2. p \in Pids /\ p # SERVER /\ m.kdat \in Buffer
  BY <1>1, Letters, Constants DEF MailInv
<1>3. body' = [body EXCEPT ![m.kdat] = x] /\ inbox' = [rest EXCEPT ![p] = Append(rest[p], a)]
  BY <1>1 DEF parse_procreq
<1>4. rest[p] = inbox[p]
  BY <1>2 DEF TypeInv
<1>5. a \in Letter /\ a.kdat = m.kdat
  BY <1>2, Constants DEF Letter
<1> HIDE DEF a, x
<1>6. /\ J \in Seq(Letter) /\ Len(J) = Len(inbox[p]) + 1 /\ J[Len(inbox[p]) + 1] = a
      /\ \A i \in 1 .. Len(inbox[p]) : J[i] = inbox[p][i]
  BY <1>2, <1>5, Letters, AppendProperties
<1>7. \A q \in Pids : inbox'[q] = IF q = SERVER THEN Tail(inbox[SERVER]) ELSE IF q = p THEN J ELSE inbox[q]
  BY <1>2, <1>3, <1>4, Constants DEF TypeInv
<1> HIDE DEF J, m, p, n, rest
<1>8. body'[m.kdat] = x /\ \A c \in Buffer : c # m.kdat => body'[c] = body[c]
  BY <1>2, <1>3 DEF TypeInv
<1>9. ASSUME NEW q \in Pids, NEW i \in 1 .. Len(inbox[q]), q # SERVER \/ i # 1
      PROVE  /\ inbox[q][i].kdat \in held /\ inbox[q][i].kdat # m.kdat
             /\ body'[inbox[q][i].kdat] = body[inbox[q][i].kdat]
  <2>1. inbox[q][i].kdat \in held /\ inbox[q][i].kdat \in Buffer
    BY Letters DEF MailInv
  <2>2. inbox[q][i].kdat # m.kdat
    <3>1. SUFFICES ASSUME inbox[q][i].kdat = inbox[SERVER][1].kdat PROVE FALSE
      BY DEF m
    <3>2. q = SERVER /\ i = 1
      BY <1>1, <3>1, Constants DEF MailInv, n
    <3> QED BY <1>9, <3>2
  <2> QED BY <1>8, <2>1, <2>2
<1>10. m.kdat \in held
  BY <1>1, Constants DEF MailInv, m, n
<1>11. \A q \in Pids : Len(inbox'[q]) = IF q = SERVER THEN Len(inbox[q]) - 1
                                          ELSE IF q = p THEN Len(inbox[q]) + 1 ELSE Len(inbox[q])
  BY <1>1, <1>6, <1>7 DEF n
<1>17. \A i \in 1 .. Len(inbox'[SERVER]) : inbox'[SERVER][i] = inbox[SERVER][i + 1]
                                           /\ i + 1 \in 1 .. Len(inbox[SERVER]) /\ i + 1 # 1 /\ i \in Nat
  <2>1. inbox'[SERVER] = Tail(inbox[SERVER])
    BY <1>7, Constants
  <2> QED BY <1>1, <2>1 DEF n
<1>18. \A q \in Pids \ {SERVER} : \A i \in 1 .. Len(inbox[q]) : inbox'[q][i] = inbox[q][i]
  BY <1>6, <1>7
<1>19. inbox'[p][Len(inbox[p]) + 1] = a
  BY <1>2, <1>6, <1>7
<1>12. AnswerMail(p, x)
  <2>1. \A i \in 1 .. Len(inbox'[SERVER]) : body'[inbox[SERVER][i + 1].kdat] = body[inbox[SERVER][i + 1].kdat]
    BY <1>9, <1>17, Constants
  <2>2. body'[inbox'[p][Len(inbox[p]) + 1].kdat] = x
    BY <1>5, <1>8, <1>19
  <2>3. Len(inbox[SERVER]) >= 1 /\ inbox[SERVER][1].src = p
    BY <1>1 DEF n, p, m
  <2> QED BY <1>9, <1>11, <1>17, <1>18, <2>1, <2>2, <2>3 DEF AnswerMail
<1> DEFINE WQ(q, i) == IF q = p /\ i = Len(inbox[p]) + 1 THEN SERVER ELSE q
           WI(q, i) == IF q = SERVER THEN i + 1 ELSE IF q = p /\ i = Len(inbox[p]) + 1 THEN 1 ELSE i
<1>13. ASSUME NEW q \in Pids, NEW i \in 1 .. Len(inbox'[q])
       PROVE  /\ WQ(q, i) \in Pids /\ WI(q, i) \in 1 .. Len(inbox[WQ(q, i)])
              /\ inbox'[q][i].kdat = inbox[WQ(q, i)][WI(q, i)].kdat
  <2>1. CASE q = SERVER
    BY <1>2, <1>17, <2>1
  <2>2. CASE q = p /\ i = Len(inbox[p]) + 1
    <3>1. WQ(q, i) = SERVER /\ WI(q, i) = 1
      BY <1>2, <2>2
    <3>2. inbox'[q][i].kdat = m.kdat
      BY <1>5, <1>19, <2>2
    <3> QED BY <1>1, <3>1, <3>2, Constants DEF m, n
  <2>3. CASE q # SERVER /\ ~(q = p /\ i = Len(inbox[p]) + 1)
    <3>1. i \in 1 .. Len(inbox[q])
      BY <1>11, <2>3, Letters
    <3> QED BY <1>18, <2>3, <3>1
  <2> QED BY <2>1, <2>2, <2>3
<1>20. ASSUME NEW q \in Pids, NEW r \in Pids, NEW i \in Nat, NEW j \in Nat, i # 0, j # 0,
              WQ(q, i) = WQ(r, j), WI(q, i) = WI(r, j)
       PROVE  q = r /\ i = j
  BY <1>2, <1>20, Constants
<1> HIDE DEF WQ, WI
<1>14. ASSUME NEW q \in Pids, NEW i \in 1 .. Len(inbox'[q]) PROVE inbox'[q][i].kdat \in held'
  <2>1. inbox[WQ(q, i)][WI(q, i)].kdat \in held
    BY <1>13 DEF MailInv
  <2> QED BY <1>13, <2>1
<1>15. ASSUME NEW q \in Pids, NEW r \in Pids, NEW i \in 1 .. Len(inbox'[q]), NEW j \in 1 .. Len(inbox'[r]),
              inbox'[q][i].kdat = inbox'[r][j].kdat
       PROVE  q = r /\ i = j
  <2>1. inbox[WQ(q, i)][WI(q, i)].kdat = inbox[WQ(r, j)][WI(r, j)].kdat
    BY <1>13, <1>15
  <2>2. WQ(q, i) = WQ(r, j) /\ WI(q, i) = WI(r, j)
    BY <1>13, <2>1 DEF MailInv
  <2>3. i \in Nat /\ j \in Nat /\ i # 0 /\ j # 0
    BY <1>11, Letters
  <2> QED BY <1>20, <2>2, <2>3
<1>16. ASSUME NEW i \in 1 .. Len(inbox'[SERVER]) PROVE inbox'[SERVER][i].src # SERVER
  BY <1>17 DEF MailInv
<1>21. MailInv'
  BY <1>14, <1>15, <1>16 DEF MailInv
<1> QED BY <1>12, <1>21 DEF p, m, x

-----------------------------------------------------------------------------
(* What each way of passing messages does to the messages under way.       *)

\* After a message x from p to q.
LEMMA PostSeen ==
    ASSUME TypeInv, NEW p \in Pids, NEW q \in Pids, NEW x, NEW n \in Nat, n = Len(inbox[q]) + 1, PostMail(p, q, x)
    PROVE  /\ \A r \in Pids, i \in Nat, k \in {"PREG", "PREQ"} :
                  Mail(r, i, k)' <=> Mail(r, i, k) \/ (r = q /\ i = n /\ x.kind = k)
           /\ \A r \in Pids, i \in Nat, k \in {"PREG", "PREQ"} :
                  Mail(r, i, k) => Text(r, i)' = Text(r, i) /\ From(r, i)' = From(r, i)
           /\ Text(q, n)' = x /\ From(q, n)' = p
<1>1. \A r \in Pids : Len(inbox[r]) \in Nat
  BY Letters
<1>2. \A r \in Pids : \A i \in 1 .. Len(inbox[r]) : Text(r, i)' = Text(r, i) /\ From(r, i)' = From(r, i)
  BY DEF PostMail, Text, From
<1>3. Text(q, n)' = x /\ From(q, n)' = p
  BY DEF PostMail, Text, From
<1>4. \A r \in Pids, i \in Nat : i \in 1 .. Len(inbox'[r]) <=> i \in 1 .. Len(inbox[r]) \/ (r = q /\ i = n)
  BY <1>1 DEF PostMail
<1>5. q \in Pids /\ n \notin 1 .. Len(inbox[q])
  BY <1>1
<1>6. \A r \in Pids, i \in Nat, k \in {"PREG", "PREQ"} :
          Mail(r, i, k)' <=> Mail(r, i, k) \/ (r = q /\ i = n /\ x.kind = k)
  BY <1>2, <1>3, <1>4, <1>5 DEF Mail
<1> QED BY <1>2, <1>3, <1>6 DEF Mail

\* After a message to p was taken.
LEMMA TakeSeen ==
    ASSUME TypeInv, NEW p \in Pids, TakeMail(p)
    PROVE  /\ \A r \in Pids, i \in Nat \ {0}, k \in {"PREG", "PREQ"} : Mail(r, i, k)' <=> Mail(r, Was(p, r, i), k)
           /\ \A r \in Pids, i \in Nat, k \in {"PREG", "PREQ"} : Mail(r, i, k)' =>
                  i # 0 /\ Text(r, i)' = Text(r, Was(p, r, i)) /\ From(r, i)' = From(r, Was(p, r, i))
<1>1. \A r \in Pids : Len(inbox[r]) \in Nat
  BY Letters
<1>2. \A r \in Pids : \A i \in 1 .. Len(inbox'[r]) :
          Text(r, i)' = Text(r, Was(p, r, i)) /\ From(r, i)' = From(r, Was(p, r, i))
  BY DEF TakeMail, Text, From, Was
<1>3. \A r \in Pids, i \in Nat \ {0} : i \in 1 .. Len(inbox'[r]) <=> Was(p, r, i) \in 1 .. Len(inbox[r])
  BY <1>1 DEF TakeMail, Was
<1>4. \A r \in Pids, i \in Nat \ {0}, k \in {"PREG", "PREQ"} : Mail(r, i, k)' <=> Mail(r, Was(p, r, i), k)
  BY <1>2, <1>3 DEF Mail
<1> QED BY <1>2, <1>4 DEF Mail

\* After the server answered p with x.
LEMMA AnswerSeen ==
    ASSUME TypeInv, NEW p \in Pids, p # SERVER, NEW x, NEW n \in Nat, n = Len(inbox[p]) + 1,
           AnswerMail(p, x)
    PROVE  /\ \A r \in Pids, i \in Nat \ {0}, k \in {"PREG", "PREQ"} :
                  Mail(r, i, k)' <=> Mail(r, Was(SERVER, r, i), k) \/ (r = p /\ i = n /\ x.kind = k)
           /\ \A r \in Pids, i \in Nat, k \in {"PREG", "PREQ"} : Mail(r, i, k)' =>
                  i # 0 /\ (Mail(r, Was(SERVER, r, i), k) =>
                      Text(r, i)' = Text(r, Was(SERVER, r, i)) /\ From(r, i)' = From(r, Was(SERVER, r, i)))
           /\ Text(p, n)' = x
<1>1. \A r \in Pids : Len(inbox[r]) \in Nat
  BY Letters
<1>2. ASSUME NEW r \in Pids, NEW i \in Nat \ {0}
      PROVE  i \in 1 .. Len(inbox'[r]) <=> Was(SERVER, r, i) \in 1 .. Len(inbox[r]) \/ (r = p /\ i = n)
  BY <1>1 DEF AnswerMail, Was
<1>3. ASSUME NEW r \in Pids, NEW i \in Nat \ {0}, Was(SERVER, r, i) \in 1 .. Len(inbox[r])
      PROVE  Text(r, i)' = Text(r, Was(SERVER, r, i)) /\ From(r, i)' = From(r, Was(SERVER, r, i))
  <2>1. CASE r = SERVER
    <3>1. i \in 1 .. Len(inbox'[r]) /\ Was(SERVER, r, i) = i + 1
      BY <1>2, <1>3, <2>1 DEF Was
    <3>2. /\ inbox'[SERVER][i] = inbox[SERVER][i + 1]
          /\ body'[inbox[SERVER][i + 1].kdat] = body[inbox[SERVER][i + 1].kdat]
      BY <2>1, <3>1 DEF AnswerMail
    <3> QED BY <2>1, <3>1, <3>2 DEF Text, From
  <2>2. CASE r # SERVER
    <3>1. i \in 1 .. Len(inbox[r]) /\ Was(SERVER, r, i) = i
      BY <1>3, <2>2 DEF Was
    <3> QED BY <2>2, <3>1 DEF AnswerMail, Text, From
  <2> QED BY <2>1, <2>2
<1>4. Text(p, n)' = x
  BY DEF AnswerMail, Text
<1>5. n \notin 1 .. Len(inbox[p]) /\ n \in Nat \ {0} /\ Was(SERVER, p, n) = n
  BY <1>1 DEF Was
<1>6. ASSUME NEW r \in Pids, NEW i \in Nat \ {0}, NEW k \in {"PREG", "PREQ"}
      PROVE  Mail(r, i, k)' <=> Mail(r, Was(SERVER, r, i), k) \/ (r = p /\ i = n /\ x.kind = k)
  <2>1. CASE r = p /\ i = n
    BY <1>2, <1>4, <1>5, <2>1 DEF Mail
  <2>2. CASE ~(r = p /\ i = n)
    BY <1>2, <1>3, <2>2 DEF Mail
  <2> QED BY <2>1, <2>2
<1>7. \A r \in Pids, i \in Nat, k \in {"PREG", "PREQ"} : Mail(r, i, k)' => i # 0
  BY DEF Mail
<1>8. \A r \in Pids, i \in Nat \ {0}, k \in {"PREG", "PREQ"} : Mail(r, Was(SERVER, r, i), k) =>
          Text(r, i)' = Text(r, Was(SERVER, r, i)) /\ From(r, i)' = From(r, Was(SERVER, r, i))
  BY <1>3 DEF Mail
<1> QED BY <1>4, <1>6, <1>7, <1>8

\* One natural below another.
LEMMA Below ==
    ASSUME NEW a \in Nat, NEW b \in Nat, a >= 1, a < b
    PROVE  a \in 1 .. b - 1
  OBVIOUS

\* Processes are counted from 1.
LEMMA NextPid == ASSUME TypeInv PROVE next_pid \in Nat /\ next_pid >= 1
<1>1. next_pid \in 1 .. MAXPROCS
  BY DEF TypeInv
<1> QED BY <1>1, BoundAssumption

\* A new process has not been registered, and the others are as they were.
LEMMA RegStays ==
    ASSUME TypeInv, RegInv, NEW s, Calm(s)
    PROVE  RegInv'
<1>1. /\ registered' = registered /\ next_pid \in Nat /\ next_pid' \in Nat /\ next_pid' >= next_pid
      /\ \A r \in 0 .. next_pid - 1 : creator'[r] = creator[r]
  BY NextPid DEF Calm
<1>2. ASSUME NEW p \in Pids, NEW i \in Nat, Mail(p, i, "PREG")'
      PROVE  /\ Was(s, p, i) \in Nat /\ Mail(p, Was(s, p, i), "PREG")
             /\ Text(p, i)' = Text(p, Was(s, p, i)) /\ From(p, i)' = From(p, Was(s, p, i))
  <2>1. Was(s, p, i) \in Nat
    BY DEF Was
  <2> QED BY <1>2, <2>1 DEF Calm
<1>3. ASSUME NEW p \in Pids, NEW i \in Nat, Mail(p, i, "PREG")'
      PROVE  p = SERVER /\ Unregistered(Text(p, i).pid, From(p, i))'
  <2>1. p = SERVER /\ Unregistered(Text(p, Was(s, p, i)).pid, From(p, Was(s, p, i)))
    BY <1>2, <1>3 DEF RegInv
  <2>2. Unregistered(Text(p, i).pid, From(p, i))'
    BY <1>1, <1>2, <1>3, <2>1 DEF Unregistered
  <2> QED BY <2>1, <2>2
<1>4. ASSUME NEW i \in Nat, NEW j \in Nat, Mail(SERVER, i, "PREG")', Mail(SERVER, j, "PREG")',
             Text(SERVER, i)'.pid = Text(SERVER, j)'.pid
      PROVE  i = j
  <2>1. Was(s, SERVER, i) = Was(s, SERVER, j)
    BY <1>2, <1>4, Constants DEF RegInv
  <2> QED BY <2>1 DEF Was
<1>5. ASSUME NEW p \in Pids, pc'[p] = "registering"
      PROVE  /\ Unregistered(spawned[p].r, p)'
             /\ \A i \in Nat : Mail(SERVER, i, "PREG")' => Text(SERVER, i)'.pid # spawned'[p].r
  <2>1. CASE pc[p] = "registering" /\ spawned'[p].r = spawned[p].r
    <3>1. /\ Unregistered(spawned[p].r, p)
          /\ \A i \in Nat : Mail(SERVER, i, "PREG") => Text(SERVER, i).pid # spawned[p].r
      BY <2>1 DEF RegInv
    <3>2. Unregistered(spawned[p].r, p)'
      BY <1>1, <2>1, <3>1 DEF Unregistered
    <3> QED BY <1>2, <2>1, <3>1, <3>2, Constants
  <2>2. CASE spawned'[p].r = next_pid /\ next_pid < next_pid' /\ creator'[next_pid] = p
    <3>1. next_pid \in 1 .. next_pid' - 1
      <4>1. next_pid \in Nat /\ next_pid >= 1
        BY NextPid
      <4>2. next_pid' \in Nat /\ next_pid < next_pid'
        BY <1>1, <2>2
      <4> QED BY <4>1, <4>2, Below
    <3>2. \A k \in 1 .. Len(registered) : registered[k] # next_pid
      BY <1>1 DEF RegInv
    <3>3. Unregistered(spawned[p].r, p)'
      BY <1>1, <2>2, <3>1, <3>2 DEF Unregistered
    <3>4. ASSUME NEW i \in Nat, Mail(SERVER, i, "PREG")' PROVE Text(SERVER, i)'.pid # next_pid
      <4>1. Unregistered(Text(SERVER, Was(s, SERVER, i)).pid, From(SERVER, Was(s, SERVER, i)))
        BY <1>2, <3>4, Constants DEF RegInv
      <4> QED BY <1>1, <1>2, <3>4, <4>1, Constants DEF Unregistered
    <3> QED BY <2>2, <3>3, <3>4
  <2> QED BY <1>5, <2>1, <2>2 DEF Calm
<1>6. \A k \in 1 .. Len(registered) : registered[k] \in 0 .. next_pid' - 1
  BY <1>1 DEF RegInv
<1>7. RegInv'
  <2>1. \A p \in Pids, i \in Nat : Mail(p, i, "PREG")' => p = SERVER /\ Unregistered(Text(p, i).pid, From(p, i))'
    BY <1>3
  <2>2. \A i, j \in Nat : Mail(SERVER, i, "PREG")' /\ Mail(SERVER, j, "PREG")' =>
           (Text(SERVER, i)'.pid = Text(SERVER, j)'.pid => i = j)
    BY <1>4
  <2>3. \A k, j \in 1 .. Len(registered) : registered[k] = registered[j] => k = j
    BY DEF RegInv
  <2> QED BY <1>1, <1>5, <1>6, <2>1, <2>2, <2>3 DEF RegInv
<1> QED BY <1>7

\* __send_preg asks for a process nobody has asked for.
LEMMA RegSent ==
    ASSUME TypeInv, RegInv, NEW p \in Pids, pc[p] = "registering", NEW x, x.kind = "PREG", x.pid = spawned[p].r,
           PostMail(p, SERVER, x), pc' = [pc EXCEPT ![p] = "user"],
           UNCHANGED <<next_pid, spawned, registered, creator>>
    PROVE  RegInv'
<1>0. Len(inbox[SERVER]) \in Nat
  BY Letters, Constants
<1>1. PICK n \in Nat : n = Len(inbox[SERVER]) + 1
  BY <1>0
<1>2. /\ \A r \in Pids, i \in Nat : Mail(r, i, "PREG")' <=> Mail(r, i, "PREG") \/ (r = SERVER /\ i = n)
      /\ \A r \in Pids, i \in Nat : Mail(r, i, "PREG") => Text(r, i)' = Text(r, i) /\ From(r, i)' = From(r, i)
      /\ Text(SERVER, n)' = x /\ From(SERVER, n)' = p
  <2>1. \A r \in Pids, i \in Nat : Mail(r, i, "PREG")' <=> Mail(r, i, "PREG") \/ (r = SERVER /\ i = n)
    BY <1>1, PostSeen, Constants
  <2>2. \A r \in Pids, i \in Nat : Mail(r, i, "PREG") => Text(r, i)' = Text(r, i) /\ From(r, i)' = From(r, i)
    BY <1>1, PostSeen, Constants
  <2>3. Text(SERVER, n)' = x /\ From(SERVER, n)' = p
    BY <1>1, PostSeen, Constants
  <2> QED BY <2>1, <2>2, <2>3
<1>3. /\ Unregistered(spawned[p].r, p)
      /\ \A i \in Nat : Mail(SERVER, i, "PREG") => Text(SERVER, i).pid # spawned[p].r
  BY DEF RegInv
<1>4. ~Mail(SERVER, n, "PREG")
  BY <1>0, <1>1 DEF Mail
<1>5. ASSUME NEW r \in Pids, NEW i \in Nat, Mail(r, i, "PREG")'
      PROVE  r = SERVER /\ Unregistered(Text(r, i).pid, From(r, i))'
  <2>1. CASE Mail(r, i, "PREG")
    <3>1. r = SERVER /\ Unregistered(Text(r, i).pid, From(r, i))
      BY <2>1 DEF RegInv
    <3>2. Text(r, i)' = Text(r, i) /\ From(r, i)' = From(r, i)
      BY <1>2, <2>1
    <3> QED BY <3>1, <3>2 DEF Unregistered
  <2>2. CASE r = SERVER /\ i = n
    BY <1>2, <1>3, <2>2 DEF Unregistered
  <2> QED BY <1>2, <1>5, <2>1, <2>2
<1>6. ASSUME NEW i \in Nat, NEW j \in Nat, Mail(SERVER, i, "PREG")', Mail(SERVER, j, "PREG")',
             Text(SERVER, i)'.pid = Text(SERVER, j)'.pid
      PROVE  i = j
  BY <1>2, <1>3, <1>6, Constants DEF RegInv
<1>7. ASSUME NEW q \in Pids, pc'[q] = "registering"
      PROVE  /\ Unregistered(spawned[q].r, q)'
             /\ \A i \in Nat : Mail(SERVER, i, "PREG")' => Text(SERVER, i)'.pid # spawned'[q].r
  <2>1. q # p /\ pc[q] = "registering"
    BY <1>7 DEF TypeInv
  <2>2. /\ Unregistered(spawned[q].r, q)
        /\ \A i \in Nat : Mail(SERVER, i, "PREG") => Text(SERVER, i).pid # spawned[q].r
    BY <2>1 DEF RegInv
  <2>3. spawned[q].r # spawned[p].r
    BY <1>3, <2>1, <2>2 DEF Unregistered
  <2>4. Unregistered(spawned[q].r, q)'
    BY <2>2 DEF Unregistered
  <2> QED BY <1>2, <2>2, <2>3, <2>4, Constants
<1>8. RegInv'
  <2>1. \A r \in Pids, i \in Nat : Mail(r, i, "PREG")' => r = SERVER /\ Unregistered(Text(r, i).pid, From(r, i))'
    BY <1>5
  <2>2. \A i, j \in Nat : Mail(SERVER, i, "PREG")' /\ Mail(SERVER, j, "PREG")' =>
           (Text(SERVER, i)'.pid = Text(SERVER, j)'.pid => i = j)
    BY <1>6
  <2>3. /\ \A k \in 1 .. Len(registered) : registered[k] \in 0 .. next_pid - 1
        /\ \A k, j \in 1 .. Len(registered) : registered[k] = registered[j] => k = j
    BY DEF RegInv
  <2> QED BY <1>7, <2>1, <2>2, <2>3 DEF RegInv
<1> QED BY <1>8

\* The server registers the process its first message asks for.
LEMMA RegDone ==
    ASSUME TypeInv, RegInv, Mail(SERVER, 1, "PREG"), TakeMail(SERVER),
           registered' = Append(registered, Text(SERVER, 1).pid),
           pc' = [pc EXCEPT ![SERVER] = "released"], UNCHANGED <<next_pid, spawned, creator>>
    PROVE  RegInv'
<1> DEFINE x == Text(SERVER, 1).pid
<1>1. /\ \A r \in Pids, i \in Nat, k \in {"PREG", "PREQ"} : Mail(r, i, k)' =>
            /\ Mail(r, Was(SERVER, r, i), k)
            /\ i # 0 /\ Text(r, i)' = Text(r, Was(SERVER, r, i)) /\ From(r, i)' = From(r, Was(SERVER, r, i))
  BY TakeSeen, Constants
<1>2. ASSUME NEW i \in Nat, Mail(SERVER, i, "PREG")'
      PROVE  i + 1 # 1 /\ Mail(SERVER, i + 1, "PREG") /\ Text(SERVER, i)' = Text(SERVER, i + 1)
             /\ From(SERVER, i)' = From(SERVER, i + 1)
  BY <1>1, <1>2, Constants DEF Was
<1>3. Unregistered(x, From(SERVER, 1)) /\ x \in 0 .. next_pid - 1
  <2>1. Unregistered(x, From(SERVER, 1))
    BY Constants DEF RegInv
  <2> QED BY <2>1, NextPid DEF Unregistered
<1> HIDE DEF x
<1>4. /\ Len(registered) \in Nat /\ Len(registered') = Len(registered) + 1
      /\ \A k \in 1 .. Len(registered) : registered'[k] = registered[k]
      /\ registered'[Len(registered) + 1] = x
  <2>1. registered \in Seq(Int) /\ x \in Int /\ registered' = Append(registered, x)
    <3>1. registered \in Seq(Int)
      BY DEF TypeInv
    <3>2. x \in Int
      BY <1>3, NextPid
    <3> QED BY <3>1, <3>2 DEF x
  <2> QED BY <2>1, AppendProperties, LenProperties
<1>5. ASSUME NEW k \in 1 .. Len(registered') PROVE k \in 1 .. Len(registered) \/ k = Len(registered) + 1
  BY <1>4
<1>6. ASSUME NEW r, NEW q, Unregistered(r, q), r # x PROVE Unregistered(r, q)'
  BY <1>4, <1>5, <1>6 DEF Unregistered
<1>7. ASSUME NEW r \in Pids, NEW i \in Nat, Mail(r, i, "PREG")'
      PROVE  r = SERVER /\ Unregistered(Text(r, i).pid, From(r, i))'
  <2>1. r = SERVER
    <3>1. Mail(r, Was(SERVER, r, i), "PREG") /\ Was(SERVER, r, i) \in Nat
      BY <1>1, <1>7 DEF Was
    <3> QED BY <3>1 DEF RegInv
  <2>2. Mail(r, i + 1, "PREG") /\ Text(r, i)' = Text(r, i + 1) /\ From(r, i)' = From(r, i + 1) /\ i + 1 # 1
    BY <1>2, <1>7, <2>1
  <2>3. Unregistered(Text(r, i + 1).pid, From(r, i + 1)) /\ Text(r, i + 1).pid # x
    BY <2>1, <2>2, Constants DEF RegInv, x
  <2> QED BY <1>4, <1>5, <2>1, <2>2, <2>3 DEF Unregistered
<1>8. ASSUME NEW i \in Nat, NEW j \in Nat, Mail(SERVER, i, "PREG")', Mail(SERVER, j, "PREG")',
             Text(SERVER, i)'.pid = Text(SERVER, j)'.pid
      PROVE  i = j
  <2>1. i + 1 = j + 1
    BY <1>2, <1>8 DEF RegInv
  <2> QED BY <2>1
<1>9. ASSUME NEW q \in Pids, pc'[q] = "registering"
      PROVE  /\ Unregistered(spawned[q].r, q)'
             /\ \A i \in Nat : Mail(SERVER, i, "PREG")' => Text(SERVER, i)'.pid # spawned'[q].r
  <2>1. pc[q] = "registering"
    BY <1>9 DEF TypeInv
  <2>2. /\ Unregistered(spawned[q].r, q)
        /\ \A i \in Nat : Mail(SERVER, i, "PREG") => Text(SERVER, i).pid # spawned[q].r
    BY <2>1 DEF RegInv
  <2>3. spawned[q].r # x
    BY <2>2 DEF x
  <2>4. Unregistered(spawned[q].r, q)'
    BY <1>4, <1>5, <2>2, <2>3 DEF Unregistered
  <2> QED BY <1>2, <2>2, <2>4
<1>10. /\ \A k \in 1 .. Len(registered') : registered'[k] \in 0 .. next_pid - 1
       /\ \A k, j \in 1 .. Len(registered') : registered'[k] = registered'[j] => k = j
  <2>1. \A k \in 1 .. Len(registered) : registered[k] # x
    BY <1>3 DEF Unregistered
  <2> QED BY <1>3, <1>4, <1>5, <2>1 DEF RegInv
<1>11. RegInv'
  <2>1. \A r \in Pids, i \in Nat : Mail(r, i, "PREG")' => r = SERVER /\ Unregistered(Text(r, i).pid, From(r, i))'
    BY <1>7
  <2>2. \A i, j \in Nat : Mail(SERVER, i, "PREG")' /\ Mail(SERVER, j, "PREG")' =>
           (Text(SERVER, i)'.pid = Text(SERVER, j)'.pid => i = j)
    BY <1>8
  <2> QED BY <1>9, <1>10, <2>1, <2>2 DEF RegInv
<1> QED BY <1>11

\* Places stay when a process is created.
LEMMA PlaceStays ==
    ASSUME TypeInv, RegInv, PlaceInv(proc_tree), proc_tree' = proc_tree, registered' = registered,
           \A r \in 0 .. next_pid - 1 : creator'[r] = creator[r]
    PROVE  PlaceInv(proc_tree)'
<1>1. \A i \in 1 .. Len(proc_tree) : creator'[proc_tree[i].pid] = creator[proc_tree[i].pid]
  BY DEF PlaceInv, RegInv
<1>2. \A i \in 2 .. Len(proc_tree) : i \in 1 .. Len(proc_tree)
  OBVIOUS
<1>3. ASSUME NEW i \in 2 .. Len(proc_tree) PROVE Known(proc_tree[i].pid)' <=> Known(proc_tree[i].pid)
  <2>1. creator'[proc_tree[i].pid] = creator[proc_tree[i].pid]
    BY <1>1, <1>2
  <2> QED BY <2>1 DEF Known
<1>4. \A i \in 2 .. Len(proc_tree) : \E q \in 1 .. Len(proc_tree) :
          /\ Above(proc_tree, q, i)
          /\ proc_tree[q].pid = IF Known(proc_tree[i].pid) THEN creator[proc_tree[i].pid] ELSE INIT
  BY DEF PlaceInv
<1>5. \A i \in 2 .. Len(proc_tree) : \E q \in 1 .. Len(proc_tree) :
          /\ Above(proc_tree, q, i)
          /\ proc_tree[q].pid = IF Known(proc_tree[i].pid)' THEN creator'[proc_tree[i].pid] ELSE INIT
  BY <1>1, <1>2, <1>3, <1>4
<1>6. /\ \A i, j \in 1 .. Len(proc_tree) : proc_tree[i].pid = proc_tree[j].pid => i = j
      /\ \A i \in 1 .. Len(proc_tree) : \E k \in 1 .. Len(registered) : registered[k] = proc_tree[i].pid
      /\ \A k \in 1 .. Len(registered) : \E i \in 1 .. Len(proc_tree) : registered[k] = proc_tree[i].pid
  BY DEF PlaceInv
<1>7. \A i, q : Above(proc_tree, q, i)' <=> Above(proc_tree, q, i)
  BY DEF Above
<1> QED BY <1>5, <1>6, <1>7 DEF PlaceInv, INIT

\* The server puts the process it registers below its creator, or below init.
LEMMA PlaceDone ==
    ASSUME TypeInv, RegInv, NEW t, t = proc_tree, TreeInv(t), PlaceInv(t), Mail(SERVER, 1, "PREG"),
           NEW x, x = Text(SERVER, 1).pid, registered' = Append(registered, x), creator' = creator,
           NEW i, NEW k, NEW name, NEW u, u = proc_tree',
           Under(t, i, From(SERVER, 1)), Planted(t, u, i, k, x, name)
    PROVE  PlaceInv(proc_tree)'
<1> DEFINE n == Len(registered)
           R(y) == \E l \in 1 .. n : registered[l] = y
           S(y) == \E l \in 1 .. Len(registered') : registered'[l] = y
<1>1. Unregistered(x, From(SERVER, 1)) /\ x \in Int
  <2>1. Unregistered(x, From(SERVER, 1))
    BY Constants DEF RegInv
  <2> QED BY <2>1, NextPid DEF Unregistered
<1>2. n \in Nat /\ Len(registered') = n + 1 /\ registered'[n + 1] = x /\ \A l \in 1 .. n : registered'[l] = registered[l]
  <2>1. registered \in Seq(Int)
    BY DEF TypeInv
  <2> QED BY <1>1, <2>1, AppendProperties, LenProperties
<1>3. creator[x] = From(SERVER, 1) /\ ~R(x)
  BY <1>1 DEF Unregistered
<1>4. \A y : S(y) <=> R(y) \/ y = x
  <2>1. \A l \in 1 .. n + 1 : l \in 1 .. n \/ l = n + 1
    BY <1>2
  <2>2. n + 1 \in 1 .. n + 1 /\ \A l \in 1 .. n : l \in 1 .. n + 1
    BY <1>2
  <2> HIDE DEF n
  <2> QED BY <1>2, <2>1, <2>2 DEF n
<1>5. \A y : y # x => (Known(y)' <=> Known(y))
  <2>1. \A j, l \in 1 .. n + 1 : j < l /\ registered'[l] # x => j \in 1 .. n /\ l \in 1 .. n
    BY <1>2
  <2>2. \A l \in 1 .. n : l \in 1 .. n + 1
    BY <1>2
  <2> QED BY <1>2, <2>1, <2>2 DEF Known
<1>6. Known(x)' <=> R(creator[x])
  <2>1. \A j, l \in 1 .. n + 1 : j < l => j \in 1 .. n
    BY <1>2
  <2>2. n + 1 \in 1 .. n + 1 /\ \A l \in 1 .. n : l \in 1 .. n + 1 /\ l < n + 1
    BY <1>2
  <2>3. ASSUME Known(x)' PROVE R(creator[x])
    BY <1>2, <2>1, <2>3 DEF Known
  <2>4. ASSUME R(creator[x]) PROVE Known(x)'
    <3>1. PICK j \in 1 .. n : registered[j] = creator[x]
      BY <2>4
    <3>2. registered'[j] = creator'[x] /\ j \in 1 .. n + 1 /\ j < n + 1
      BY <1>2, <2>2, <3>1
    <3> QED BY <1>2, <2>2, <3>2 DEF Known
  <2> QED BY <2>3, <2>4
<1>7. \A y : R(y) <=> \E j \in 1 .. Len(t) : t[j].pid = y
  <2>1. /\ \A j \in 1 .. Len(t) : \E l \in 1 .. n : registered[l] = t[j].pid
        /\ \A l \in 1 .. n : \E j \in 1 .. Len(t) : registered[l] = t[j].pid
    BY DEF PlaceInv
  <2>2. ASSUME NEW j \in 1 .. Len(t) PROVE R(t[j].pid)
    BY <2>1
  <2>3. ASSUME NEW y, R(y) PROVE \E j \in 1 .. Len(t) : t[j].pid = y
    <3>1. PICK l \in 1 .. n : registered[l] = y
      BY <2>3
    <3>2. PICK j \in 1 .. Len(t) : registered[l] = t[j].pid
      BY <2>1
    <3> QED BY <3>1, <3>2
  <2> HIDE DEF R
  <2> QED BY <2>2, <2>3
<1>8. /\ Len(t) \in Nat /\ Len(u) = Len(t) + 1 /\ k \in 1 .. Len(u) /\ u[k].pid = x /\ k \in Nat
      /\ \A l \in 1 .. k - 1 : u[l].pid = t[l].pid
      /\ \A l \in k + 1 .. Len(t) + 1 : u[l].pid = t[l - 1].pid
      /\ i \in 1 .. Len(t)
  <2>1. Len(t) \in Nat
    BY Field DEF TreeInv
  <2> QED BY <2>1 DEF Planted, Alike
<1>9. \A y : (\E l \in 1 .. Len(u) : u[l].pid = y) <=> S(y)
  <2>1. /\ \A j \in 1 .. Len(t) : \E l \in 1 .. Len(u) : Alike(u[l], t[j])
        /\ \A l \in 1 .. Len(u) : l = k \/ \E j \in 1 .. Len(t) : Alike(u[l], t[j])
    BY NodesStay
  <2> HIDE DEF R, S
  <2>2. ASSUME NEW l \in 1 .. Len(u) PROVE S(u[l].pid)
    BY <1>4, <1>7, <1>8, <2>1 DEF Alike
  <2>3. ASSUME NEW y, S(y) PROVE \E l \in 1 .. Len(u) : u[l].pid = y
    <3>1. CASE y = x
      BY <1>8, <3>1
    <3>2. CASE R(y)
      <4>1. PICK j \in 1 .. Len(t) : t[j].pid = y
        BY <1>7, <3>2
      <4> QED BY <2>1, <4>1 DEF Alike
    <3> QED BY <1>4, <2>3, <3>1, <3>2
  <2> QED BY <2>2, <2>3
<1> HIDE DEF R, S
<1>10. ASSUME NEW j \in 1 .. Len(u), NEW l \in 1 .. Len(u), u[j].pid = u[l].pid PROVE j = l
  <2> DEFINE Old(a) == IF a < k THEN a ELSE a - 1
  <2>1. \A a \in 1 .. Len(u) : a # k => Old(a) \in 1 .. Len(t) /\ u[a].pid = t[Old(a)].pid
    BY <1>8
  <2>2. \A a, b \in 1 .. Len(u) : a # k /\ b # k /\ Old(a) = Old(b) => a = b
    BY <1>8
  <2> HIDE DEF Old
  <2>3. \A a \in 1 .. Len(u) : a # k => u[a].pid # x
    BY <1>3, <1>7, <2>1
  <2>4. \A a, b \in 1 .. Len(t) : t[a].pid = t[b].pid => a = b
    BY DEF PlaceInv
  <2>5. CASE j = k \/ l = k
    BY <1>8, <1>10, <2>3, <2>5
  <2>6. CASE j # k /\ l # k
    <3>1. t[Old(j)].pid = t[Old(l)].pid
      BY <1>10, <2>1, <2>6
    <3>2. Old(j) = Old(l)
      BY <2>1, <2>4, <2>6, <3>1
    <3> QED BY <2>2, <2>6, <3>2
  <2> QED BY <2>5, <2>6
<1>11. ASSUME NEW l \in 2 .. Len(u)
       PROVE  \E q \in 1 .. Len(u) : Above(u, q, l) /\ u[q].pid = IF Known(u[l].pid)' THEN creator[u[l].pid] ELSE INIT
  <2>1. CASE l = k
    <3>1. Above(u, i, k) /\ u[i].pid = t[i].pid
      BY AboveStays
    <3>2. t[i].pid = IF R(creator[x]) THEN creator[x] ELSE INIT
      BY <1>3, <1>7, <1>8 DEF Under
    <3>3. i \in 1 .. Len(u)
      BY <1>8
    <3>4. u[i].pid = IF Known(x)' THEN creator[x] ELSE INIT
      BY <1>6, <3>1, <3>2
    <3> QED BY <1>8, <2>1, <3>1, <3>3, <3>4
  <2>2. CASE l # k
    <3>1. PICK j \in 2 .. Len(t) :
              /\ Alike(u[l], t[j])
              /\ \A q \in 1 .. Len(t) : Above(t, q, j) => \E r \in 1 .. Len(u) : Above(u, r, l) /\ u[r].pid = t[q].pid
      BY <2>2, AboveStays
    <3>2. PICK q \in 1 .. Len(t) : Above(t, q, j) /\ t[q].pid = IF Known(t[j].pid) THEN creator[t[j].pid] ELSE INIT
      BY DEF PlaceInv
    <3>3. u[l].pid = t[j].pid /\ t[j].pid # x
      <4>1. j \in 1 .. Len(t)
        BY <1>8
      <4> QED BY <1>3, <1>7, <3>1, <4>1 DEF Alike
    <3>4. Known(t[j].pid)' <=> Known(t[j].pid)
      BY <1>5, <3>3
    <3> QED BY <3>1, <3>2, <3>3, <3>4
  <2> QED BY <2>1, <2>2
<1>12. /\ \A l \in 1 .. Len(u) : \E j \in 1 .. Len(registered') : registered'[j] = u[l].pid
       /\ \A j \in 1 .. Len(registered') : \E l \in 1 .. Len(u) : registered'[j] = u[l].pid
  BY <1>9 DEF S
<1>13. \A l \in 2 .. Len(u) : \E q \in 1 .. Len(u) : /\ Above(proc_tree, q, l)'
          /\ u[q].pid = IF Known(proc_tree[l].pid)' THEN creator'[u[l].pid] ELSE INIT
  <2>1. \A q, l : Above(u, q, l) => Above(proc_tree, q, l)'
    BY DEF Above
  <2>2. \A l : Known(u[l].pid)' <=> Known(proc_tree[l].pid)'
    BY DEF Known
  <2>3. ASSUME NEW l \in 2 .. Len(u)
        PROVE  \E q \in 1 .. Len(u) : /\ Above(proc_tree, q, l)'
                  /\ u[q].pid = IF Known(proc_tree[l].pid)' THEN creator'[u[l].pid] ELSE INIT
    <3>1. PICK q \in 1 .. Len(u) : Above(u, q, l) /\ u[q].pid = IF Known(u[l].pid)' THEN creator[u[l].pid] ELSE INIT
      BY <1>11
    <3>2. u[q].pid = IF Known(proc_tree[l].pid)' THEN creator'[u[l].pid] ELSE INIT
      BY <2>2, <3>1
    <3> QED BY <2>1, <3>1, <3>2
  <2> QED BY <2>3
<1>14. /\ \A j, l \in 1 .. Len(proc_tree') : proc_tree'[j].pid = proc_tree'[l].pid => j = l
       /\ \A l \in 1 .. Len(proc_tree') : \E j \in 1 .. Len(registered') : registered'[j] = proc_tree'[l].pid
       /\ \A j \in 1 .. Len(registered') : \E l \in 1 .. Len(proc_tree') : registered'[j] = proc_tree'[l].pid
  BY <1>10, <1>12
<1>15. \A l \in 2 .. Len(proc_tree') : \E q \in 1 .. Len(proc_tree') : /\ Above(proc_tree, q, l)'
          /\ proc_tree'[q].pid = IF Known(proc_tree[l].pid)' THEN creator'[proc_tree'[l].pid] ELSE INIT
  BY <1>13
<1> QED BY <1>14, <1>15 DEF PlaceInv, INIT

-----------------------------------------------------------------------------
(* Lookups.                                                                *)

\* A node of a name is a node of the name and some pid.
LEMMA HasNode == \A t, name : Has(t, name) <=> \E pid : Node(t, name, pid)
  BY DEF Has, Node

\* Registrations under way stay ahead of what was sent after them.
LEMMA AskedStays ==
    ASSUME NEW s, Carry(s), NEW name, NEW i \in Nat \ {0},
           Has(proc_tree, name) \/ Asked(name, Was(s, SERVER, i) - 1)
    PROVE  Has(proc_tree', name) \/ Asked(name, i - 1)'
<1>1. CASE Has(proc_tree, name)
  BY <1>1, HasNode DEF Carry
<1>2. CASE Asked(name, Was(s, SERVER, i) - 1)
  <2>1. PICK j \in 1 .. Was(s, SERVER, i) - 1 : Mail(SERVER, j, "PREG") /\ Text(SERVER, j).name = name
    BY <1>2 DEF Asked
  <2>2. CASE s = SERVER /\ j = 1
    BY <2>1, <2>2 DEF Carry
  <2>3. CASE ~(s = SERVER /\ j = 1)
    <3>1. PICK l \in Nat \ {0} : Was(s, SERVER, l) = j /\ l \in 1 .. i - 1
      <4>1. CASE s = SERVER
        <5>1. j - 1 \in Nat \ {0} /\ Was(s, SERVER, j - 1) = j /\ j - 1 \in 1 .. i - 1
          BY <2>3, <4>1 DEF Was
        <5> QED BY <5>1
      <4>2. CASE s # SERVER
        <5>1. j \in Nat \ {0} /\ Was(s, SERVER, j) = j /\ j \in 1 .. i - 1
          BY <4>2 DEF Was
        <5> QED BY <5>1
      <4> QED BY <4>1, <4>2
    <3>2. Mail(SERVER, l, "PREG")' /\ Text(SERVER, l)' = Text(SERVER, j)
      BY <2>1, <3>1 DEF Carry
    <3> QED BY <2>1, <3>1, <3>2 DEF Asked
  <2> QED BY <2>2, <2>3
<1> QED BY <1>1, <1>2

\* Lookups go on.
LEMMA FindStays ==
    ASSUME TypeInv, OwnInv, AskInv, ReqInv, AnsInv, NEW s, Carry(s)
    PROVE  OwnInv' /\ AskInv' /\ ReqInv' /\ AnsInv'
<1>1. ASSUME NEW p \in Pids, NEW i \in Nat, Mail(p, i, "PREQ")'
      PROVE  /\ i # 0 /\ Was(s, p, i) \in Nat /\ Mail(p, Was(s, p, i), "PREQ")
             /\ Text(p, i)' = Text(p, Was(s, p, i)) /\ From(p, i)' = From(p, Was(s, p, i))
  <2>1. i # 0
    BY <1>1 DEF Mail
  <2>2. Was(s, p, i) \in Nat
    BY DEF Was
  <2> QED BY <1>1, <2>1, <2>2 DEF Carry
<1>2. \A p \in Pids, i, j \in Nat : Was(s, p, i) = Was(s, p, j) => i = j
  BY DEF Was
<1>3. answer' = answer /\ \A p \in Pids : pc'[p] = "finding" <=> pc[p] = "finding"
  BY DEF Carry
<1>4. OwnInv'
  <2>1. SUFFICES ASSUME NEW p \in Pids, NEW name \in own'[p]
                 PROVE  Has(proc_tree', name) \/ Asked(name, Len(inbox[SERVER]))'
    BY DEF OwnInv
  <2>2. ASSUME NEW i \in Nat, Mail(SERVER, i, "PREG")', Text(SERVER, i)'.name = name
        PROVE  Asked(name, Len(inbox[SERVER]))'
    BY <2>2 DEF Asked, Mail
  <2>3. CASE name \in own[p] /\ ~Has(proc_tree, name)
    <3>0. Len(inbox[SERVER]) \in Nat
      BY Letters, Constants
    <3>1. PICK n \in Nat \ {0} : n = Len(inbox[SERVER]) + 1
      BY <3>0
    <3>2. Asked(name, n - 1)
      BY <2>3, <3>0, <3>1 DEF OwnInv
    <3>3. PICK j \in 1 .. n - 1 : Mail(SERVER, j, "PREG") /\ Text(SERVER, j).name = name
      BY <3>2 DEF Asked
    <3>4. Asked(name, Was(s, SERVER, n) - 1)
      BY <3>3 DEF Asked, Was
    <3>5. Has(proc_tree', name) \/ Asked(name, n - 1)'
      BY <3>4, AskedStays
    <3>6. ASSUME Asked(name, n - 1)' PROVE Asked(name, Len(inbox[SERVER]))'
      BY <3>6 DEF Asked, Mail
    <3> QED BY <3>5, <3>6
  <2>4. CASE Has(proc_tree, name)
    BY <2>4, HasNode DEF Carry
  <2> QED BY <2>2, <2>3, <2>4 DEF Carry
<1>5. AskInv'
  <2>1. ASSUME NEW p \in Pids, NEW q \in Pids, NEW i \in Nat, Lookup(p, q, i)'
        PROVE  Was(s, q, i) \in Nat /\ Lookup(p, q, Was(s, q, i))
    BY <1>1, <2>1 DEF Lookup
  <2>2. ASSUME NEW p \in Pids, NEW q \in Pids, NEW i \in Nat, p # SERVER, Lookup(p, q, i)'
        PROVE  pc'[p] = "finding"
    BY <1>3, <2>1, <2>2 DEF AskInv
  <2>3. ASSUME NEW p \in Pids, NEW q \in Pids, NEW r \in Pids, NEW i \in Nat, NEW j \in Nat,
               p # SERVER, Lookup(p, q, i)', Lookup(p, r, j)'
        PROVE  q = r /\ i = j
    <3>1. q = r /\ Was(s, q, i) = Was(s, r, j)
      BY <2>1, <2>3 DEF AskInv
    <3> QED BY <1>2, <3>1
  <2> QED BY <2>2, <2>3 DEF AskInv
<1>6. ReqInv'
  <2>1. SUFFICES ASSUME NEW i \in Nat, Mail(SERVER, i, "PREQ")'
                 PROVE  LET asked == answer'[From(SERVER, i)'] IN
                        /\ Text(SERVER, i)'.name = asked.name
                        /\ asked.own => Has(proc_tree', asked.name) \/ Asked(answer[From(SERVER, i)].name, i - 1)'
    BY DEF ReqInv
  <2>2. PICK a : a = answer[From(SERVER, Was(s, SERVER, i))]
    OBVIOUS
  <2>3. i # 0 /\ Text(SERVER, i)'.name = a.name /\ answer'[From(SERVER, i)'] = a
    BY <1>1, <1>3, <2>1, <2>2, Constants DEF ReqInv
  <2>4. a.own => Has(proc_tree, a.name) \/ Asked(a.name, Was(s, SERVER, i) - 1)
    BY <1>1, <2>1, <2>2, Constants DEF ReqInv
  <2>5. a.own => Has(proc_tree', a.name) \/ Asked(a.name, i - 1)'
    BY <2>3, <2>4, AskedStays
  <2>6. Asked(a.name, i - 1)' => Asked(answer[From(SERVER, i)].name, i - 1)'
    BY <2>3 DEF Asked
  <2> QED BY <2>3, <2>5, <2>6
<1>7. AnsInv'
  <2>1. ASSUME NEW p \in Pids, NEW pid, Right(proc_tree, p, pid) PROVE Right(proc_tree, p, pid)'
    BY <1>3, <2>1 DEF Right, Carry, Node
  <2>2. ASSUME NEW p \in Pids, NEW i \in Nat, p # SERVER, Mail(p, i, "PREQ")'
        PROVE  Right(proc_tree, p, Text(p, i).pid)'
    <3>1. PICK x : x = Text(p, Was(s, p, i)).pid
      OBVIOUS
    <3>2. Right(proc_tree, p, x) /\ Text(p, i)'.pid = x
      BY <1>1, <2>2, <3>1 DEF AnsInv
    <3>3. Right(proc_tree, p, x)'
      BY <2>1, <3>2
    <3> QED BY <3>2, <3>3 DEF Right, Node
  <2>3. ASSUME NEW p \in Pids, pc'[p] # "finding" PROVE Right(proc_tree, p, answer[p].pid)'
    <3>1. PICK x : x = answer[p].pid
      OBVIOUS
    <3>2. Right(proc_tree, p, x) /\ answer'[p].pid = x
      BY <1>3, <2>3, <3>1 DEF AnsInv
    <3>3. Right(proc_tree, p, x)'
      BY <2>1, <3>2
    <3> QED BY <3>2, <3>3 DEF Right, Node
  <2> QED BY <2>2, <2>3 DEF AnsInv
<1> QED BY <1>4, <1>5, <1>6, <1>7

\* A registration under way stays when a message is sent.
LEMMA AskedPosted ==
    ASSUME TypeInv, NEW p \in Pids, NEW x, PostMail(p, SERVER, x), NEW name, NEW n \in Nat, Asked(name, n)
    PROVE  Asked(name, n)'
<1>0. Len(inbox[SERVER]) + 1 \in Nat
  BY Letters, Constants
<1>1. PICK i \in 1 .. n : Mail(SERVER, i, "PREG") /\ Text(SERVER, i).name = name
  BY DEF Asked
<1>2. PICK k \in Nat : k = Len(inbox[SERVER]) + 1
  BY <1>0
<1>3. i \in Nat
  OBVIOUS
<1>4. Mail(SERVER, i, "PREG")' /\ Text(SERVER, i)' = Text(SERVER, i)
  BY <1>1, <1>2, <1>3, PostSeen, Constants
<1> QED BY <1>1, <1>4 DEF Asked

\* find_process asks after all that the process registered.
LEMMA FindAsked ==
    ASSUME TypeInv, OwnInv, AskInv, ReqInv, AnsInv, NEW p \in Pids, p # SERVER, pc[p] = "user",
           NEW name, NEW x, x.kind = "PREQ", x.name = name, PostMail(p, SERVER, x),
           pc' = [pc EXCEPT ![p] = "finding"],
           answer' = [answer EXCEPT ![p] = [name |-> name, pid |-> MISSING, own |-> name \in own[p]]],
           UNCHANGED <<proc_tree, own>>
    PROVE  OwnInv' /\ AskInv' /\ ReqInv' /\ AnsInv'
<1>0. Len(inbox[SERVER]) \in Nat
  BY Letters, Constants
<1>1. PICK n \in Nat : n = Len(inbox[SERVER]) + 1
  BY <1>0
<1>2. /\ \A r \in Pids, i \in Nat : Mail(r, i, "PREQ")' <=> Mail(r, i, "PREQ") \/ (r = SERVER /\ i = n)
      /\ \A r \in Pids, i \in Nat : Mail(r, i, "PREQ") => Text(r, i)' = Text(r, i) /\ From(r, i)' = From(r, i)
      /\ Text(SERVER, n)' = x /\ From(SERVER, n)' = p
  <2>1. \A r \in Pids, i \in Nat : Mail(r, i, "PREQ")' <=> Mail(r, i, "PREQ") \/ (r = SERVER /\ i = n)
    BY <1>1, PostSeen, Constants
  <2>2. \A r \in Pids, i \in Nat : Mail(r, i, "PREQ") => Text(r, i)' = Text(r, i) /\ From(r, i)' = From(r, i)
    BY <1>1, PostSeen, Constants
  <2>3. Text(SERVER, n)' = x /\ From(SERVER, n)' = p
    BY <1>1, PostSeen, Constants
  <2> QED BY <2>1, <2>2, <2>3
<1>3. /\ \A q \in Pids : q # p => pc'[q] = pc[q] /\ answer'[q] = answer[q]
      /\ pc'[p] = "finding" /\ answer'[p] = [name |-> name, pid |-> MISSING, own |-> name \in own[p]]
  BY DEF TypeInv
<1>4. \A q \in Pids, i \in Nat : ~Lookup(p, q, i)
  BY DEF AskInv
<1>5. \A y : Has(proc_tree, y) <=> Has(proc_tree', y)
  OBVIOUS
<1>6. OwnInv'
  <2>1. SUFFICES ASSUME NEW q \in Pids, NEW y \in own[q]
                 PROVE  Has(proc_tree', y) \/ Asked(y, Len(inbox[SERVER]))'
    BY DEF OwnInv
  <2>2. Has(proc_tree, y) \/ Asked(y, n - 1)
    BY <1>0, <1>1 DEF OwnInv
  <2>3. n - 1 \in Nat
    BY <1>0, <1>1
  <2>4. Asked(y, n - 1) => Asked(y, n - 1)'
    BY <2>3, AskedPosted
  <2>5. Asked(y, n - 1)' => Asked(y, Len(inbox[SERVER]))'
    BY <2>3 DEF Asked, Mail
  <2> QED BY <1>5, <2>2, <2>4, <2>5
<1>7. ASSUME NEW q \in Pids, NEW r \in Pids, NEW i \in Nat, q # SERVER, Lookup(q, r, i)'
      PROVE  (q # p /\ Lookup(q, r, i)) \/ (q = p /\ r = SERVER /\ i = n)
  <2>1. CASE Mail(r, i, "PREQ")
    <3>1. Lookup(q, r, i)
      BY <1>2, <1>7, <2>1 DEF Lookup
    <3> QED BY <1>4, <3>1
  <2>2. CASE r = SERVER /\ i = n
    BY <1>2, <1>7, <2>2 DEF Lookup
  <2> QED BY <1>2, <1>7, <2>1, <2>2 DEF Lookup
<1>8. AskInv'
  <2>1. ASSUME NEW q \in Pids, NEW r \in Pids, NEW i \in Nat, q # SERVER, Lookup(q, r, i)'
        PROVE  pc'[q] = "finding"
    BY <1>3, <1>7, <2>1 DEF AskInv
  <2>2. ASSUME NEW q \in Pids, NEW r \in Pids, NEW s \in Pids, NEW i \in Nat, NEW j \in Nat,
               q # SERVER, Lookup(q, r, i)', Lookup(q, s, j)'
        PROVE  r = s /\ i = j
    BY <1>7, <2>2 DEF AskInv
  <2> QED BY <2>1, <2>2 DEF AskInv
<1>9. ReqInv'
  <2>1. SUFFICES ASSUME NEW i \in Nat, Mail(SERVER, i, "PREQ")'
                 PROVE  LET asked == answer'[From(SERVER, i)'] IN
                        /\ Text(SERVER, i)'.name = asked.name
                        /\ asked.own => Has(proc_tree', asked.name) \/ Asked(answer[From(SERVER, i)].name, i - 1)'
    BY DEF ReqInv
  <2>2. PICK a : a = answer'[From(SERVER, i)']
    OBVIOUS
  <2>3. Asked(a.name, i - 1)' => Asked(answer[From(SERVER, i)].name, i - 1)'
    BY <2>2 DEF Asked
  <2>4. i - 1 \in Nat
    BY <1>0, <2>1 DEF Mail
  <2>5. Asked(a.name, i - 1) => Asked(a.name, i - 1)'
    BY <2>4, AskedPosted
  <2>6. CASE Mail(SERVER, i, "PREQ")
    <3>1. From(SERVER, i) \in Pids /\ From(SERVER, i) # p
      <4>1. From(SERVER, i) \in Pids
        BY <2>6, Letters, Constants DEF Mail, From
      <4> QED BY <1>4, <2>6, <4>1, Constants DEF Lookup
    <3>2. a = answer[From(SERVER, i)] /\ Text(SERVER, i)' = Text(SERVER, i)
      BY <1>2, <1>3, <2>2, <2>6, <3>1, Constants
    <3>3. Text(SERVER, i).name = a.name /\ (a.own => Has(proc_tree, a.name) \/ Asked(a.name, i - 1))
      BY <2>6, <3>2 DEF ReqInv
    <3> QED BY <1>5, <2>2, <2>3, <2>5, <3>2, <3>3
  <2>7. CASE i = n
    <3>1. a.name = name /\ a.own = (name \in own[p]) /\ Text(SERVER, i)'.name = name
      BY <1>2, <1>3, <2>2, <2>7
    <3>2. a.own => Has(proc_tree, name) \/ Asked(name, i - 1)
      <4>1. i - 1 = Len(inbox[SERVER])
        BY <1>0, <1>1, <2>7
      <4> QED BY <3>1, <4>1 DEF OwnInv
    <3> QED BY <1>5, <2>2, <2>3, <2>5, <3>1, <3>2
  <2> QED BY <1>2, <2>1, <2>6, <2>7, Constants
<1>10. AnsInv'
  <2>1. ASSUME NEW q \in Pids, NEW pid, q # p, Right(proc_tree, q, pid) PROVE Right(proc_tree, q, pid)'
    BY <1>3, <2>1 DEF Right, Node
  <2>2. ASSUME NEW q \in Pids, NEW i \in Nat, q # SERVER, Mail(q, i, "PREQ")'
        PROVE  Right(proc_tree, q, Text(q, i).pid)'
    <3>1. Mail(q, i, "PREQ") /\ Text(q, i)' = Text(q, i)
      BY <1>2, <2>2
    <3>2. q # p
      BY <1>4, <3>1 DEF Lookup
    <3>3. Right(proc_tree, q, Text(q, i).pid)
      BY <2>2, <3>1 DEF AnsInv
    <3> QED BY <1>3, <3>1, <3>2, <3>3 DEF Right, Node
  <2>3. ASSUME NEW q \in Pids, pc'[q] # "finding" PROVE Right(proc_tree, q, answer[q].pid)'
    <3>1. q # p /\ pc[q] # "finding"
      BY <1>3, <2>3
    <3>2. Right(proc_tree, q, answer[q].pid)
      BY <3>1 DEF AnsInv
    <3> QED BY <1>3, <3>1, <3>2 DEF Right, Node
  <2> QED BY <2>2, <2>3 DEF AnsInv
<1> QED BY <1>6, <1>8, <1>9, <1>10

\* find_process receives the answer it waits for.
LEMMA FindGot ==
    ASSUME TypeInv, OwnInv, AskInv, ReqInv, AnsInv, NEW p \in Pids, p # SERVER, TakeMail(p), Mail(p, 1, "PREQ"),
           pc' = [pc EXCEPT ![p] = "user"], answer' = [answer EXCEPT ![p].pid = Text(p, 1).pid],
           UNCHANGED <<proc_tree, own>>
    PROVE  OwnInv' /\ AskInv' /\ ReqInv' /\ AnsInv'
<1>1. /\ \A r \in Pids, i \in Nat \ {0}, k \in {"PREG", "PREQ"} : Mail(r, i, k)' <=> Mail(r, Was(p, r, i), k)
      /\ \A r \in Pids, i \in Nat, k \in {"PREG", "PREQ"} : Mail(r, i, k)' =>
             i # 0 /\ Text(r, i)' = Text(r, Was(p, r, i)) /\ From(r, i)' = From(r, Was(p, r, i))
  BY TakeSeen
<1>2. \A r \in Pids, i \in Nat : Was(p, r, i) \in Nat /\ (i # 0 /\ r = p => Was(p, r, i) # 1)
  BY DEF Was
<1>3. \A r \in Pids, i, j \in Nat : Was(p, r, i) = Was(p, r, j) => i = j
  BY DEF Was
<1>4. \A i : Was(p, SERVER, i) = i
  BY DEF Was
<1>5. /\ \A q \in Pids : q # p => pc'[q] = pc[q] /\ answer'[q] = answer[q]
      /\ pc'[p] = "user" /\ answer'[p].pid = Text(p, 1).pid
      /\ answer'[p].name = answer[p].name /\ answer'[p].own = answer[p].own
  <2>1. DOMAIN pc = Pids /\ answer \in [Pids -> [name : NameType, pid : Int, own : BOOLEAN]]
    BY DEF TypeInv
  <2> QED BY <2>1
<1>6. \A q \in Pids : answer'[q].name = answer[q].name /\ answer'[q].own = answer[q].own
  BY <1>5
<1>7. \A i \in Nat : Mail(SERVER, i, "PREG") => Mail(SERVER, i, "PREG")' /\ Text(SERVER, i)' = Text(SERVER, i)
  <2>1. \A i \in Nat : Mail(SERVER, i, "PREG") => i # 0
    BY DEF Mail
  <2> QED BY <1>1, <1>4, <2>1, Constants
<1>8. \A y, n : Asked(y, n) /\ n \in Nat => Asked(y, n)'
  BY <1>7 DEF Asked
<1>9. OwnInv'
  <2>0. inbox'[SERVER] = inbox[SERVER] \/ Len(inbox'[SERVER]) = Len(inbox[SERVER])
    BY Constants DEF TakeMail
  <2>1. SUFFICES ASSUME NEW q \in Pids, NEW y \in own[q]
                 PROVE  Has(proc_tree', y) \/ Asked(y, Len(inbox[SERVER]))'
    BY DEF OwnInv
  <2>2. Len(inbox[SERVER]) \in Nat
    BY Letters, Constants
  <2>3. PICK n \in Nat : n = Len(inbox[SERVER])
    BY <2>2
  <2>4. Has(proc_tree', y) \/ Asked(y, n)'
    BY <1>8, <2>3 DEF OwnInv
  <2>5. Asked(y, n)' => Asked(y, Len(inbox[SERVER]))'
    BY <2>3 DEF Asked, Mail
  <2> QED BY <2>4, <2>5
<1>10. ASSUME NEW q \in Pids, NEW r \in Pids, NEW i \in Nat, q # SERVER, Lookup(q, r, i)'
       PROVE  q # p /\ Lookup(q, r, Was(p, r, i))
  <2>1. Lookup(q, r, Was(p, r, i)) /\ i # 0
    BY <1>1, <1>10 DEF Lookup
  <2>2. Lookup(p, p, 1)
    BY DEF Lookup
  <2>3. q # p
    BY <1>2, <2>1, <2>2 DEF AskInv
  <2> QED BY <2>1, <2>3
<1>11. AskInv'
  <2>1. ASSUME NEW q \in Pids, NEW r \in Pids, NEW i \in Nat, q # SERVER, Lookup(q, r, i)'
        PROVE  pc'[q] = "finding"
    BY <1>2, <1>5, <1>10, <2>1 DEF AskInv
  <2>2. ASSUME NEW q \in Pids, NEW r \in Pids, NEW s \in Pids, NEW i \in Nat, NEW j \in Nat,
               q # SERVER, Lookup(q, r, i)', Lookup(q, s, j)'
        PROVE  r = s /\ i = j
    <3>1. r = s /\ Was(p, r, i) = Was(p, s, j)
      BY <1>2, <1>10, <2>2 DEF AskInv
    <3> QED BY <1>3, <3>1
  <2> QED BY <2>1, <2>2 DEF AskInv
<1>12. ReqInv'
  <2>1. SUFFICES ASSUME NEW i \in Nat, Mail(SERVER, i, "PREQ")'
                 PROVE  LET asked == answer'[From(SERVER, i)'] IN
                        /\ Text(SERVER, i)'.name = asked.name
                        /\ asked.own => Has(proc_tree', asked.name) \/ Asked(answer[From(SERVER, i)].name, i - 1)'
    BY DEF ReqInv
  <2>2. /\ i - 1 \in Nat /\ Mail(SERVER, i, "PREQ")
        /\ Text(SERVER, i)' = Text(SERVER, i) /\ From(SERVER, i)' = From(SERVER, i)
    BY <1>1, <1>4, <2>1, Constants
  <2>3. From(SERVER, i) \in Pids
    BY <2>2, Letters, Constants DEF Mail, From
  <2>4. PICK a : a = answer[From(SERVER, i)]
    OBVIOUS
  <2>5. answer'[From(SERVER, i)'].name = a.name /\ answer'[From(SERVER, i)'].own = a.own
    BY <1>6, <2>2, <2>3, <2>4
  <2>6. Text(SERVER, i).name = a.name /\ (a.own => Has(proc_tree, a.name) \/ Asked(a.name, i - 1))
    BY <2>2, <2>4 DEF ReqInv
  <2>7. Asked(a.name, i - 1) => Asked(a.name, i - 1)'
    BY <1>8, <2>2
  <2>8. Asked(a.name, i - 1)' => Asked(answer[From(SERVER, i)].name, i - 1)'
    BY <2>5 DEF Asked
  <2> QED BY <2>2, <2>5, <2>6, <2>7, <2>8
<1>13. AnsInv'
  <2>1. ASSUME NEW q \in Pids, NEW i \in Nat, q # SERVER, Mail(q, i, "PREQ")'
        PROVE  Right(proc_tree, q, Text(q, i).pid)'
    <3>1. Mail(q, Was(p, q, i), "PREQ") /\ Text(q, i)' = Text(q, Was(p, q, i))
      BY <1>1, <2>1
    <3>2. Right(proc_tree, q, Text(q, Was(p, q, i)).pid)
      BY <1>2, <2>1, <3>1 DEF AnsInv
    <3> QED BY <1>6, <3>1, <3>2 DEF Right, Node
  <2>2. ASSUME NEW q \in Pids, pc'[q] # "finding" PROVE Right(proc_tree, q, answer[q].pid)'
    <3>1. CASE q = p
      <4>1. Right(proc_tree, p, Text(p, 1).pid)
        BY DEF AnsInv
      <4> QED BY <1>5, <3>1, <4>1 DEF Right, Node
    <3>2. CASE q # p
      <4>1. Right(proc_tree, q, answer[q].pid)
        BY <1>5, <2>2, <3>2 DEF AnsInv
      <4> QED BY <1>5, <3>2, <4>1 DEF Right, Node
    <3> QED BY <3>1, <3>2
  <2> QED BY <2>1, <2>2 DEF AnsInv
<1> QED BY <1>9, <1>11, <1>12, <1>13

\* The server answers rightly, after all registrations sent before the request.
LEMMA FindAnswered ==
    ASSUME TypeInv, TreeInv(proc_tree), OwnInv, AskInv, ReqInv, AnsInv, NEW p \in Pids, p # SERVER,
           Mail(SERVER, 1, "PREQ"), From(SERVER, 1) = p, NEW x, x.kind = "PREQ",
           x.pid = proc_find_by_name(proc_tree, Text(SERVER, 1).name), AnswerMail(p, x),
           UNCHANGED <<pc, answer, proc_tree, own>>
    PROVE  OwnInv' /\ AskInv' /\ ReqInv' /\ AnsInv'
<1>0. Len(inbox[p]) \in Nat /\ Len(inbox[SERVER]) \in Nat
  BY Letters, Constants
<1>1. PICK n \in Nat : n = Len(inbox[p]) + 1
  BY <1>0
<1>2. /\ \A r \in Pids, i \in Nat \ {0}, k \in {"PREG", "PREQ"} :
             Mail(r, i, k)' <=> Mail(r, Was(SERVER, r, i), k) \/ (r = p /\ i = n /\ x.kind = k)
      /\ \A r \in Pids, i \in Nat, k \in {"PREG", "PREQ"} : Mail(r, i, k)' =>
             i # 0 /\ (Mail(r, Was(SERVER, r, i), k) =>
                 Text(r, i)' = Text(r, Was(SERVER, r, i)) /\ From(r, i)' = From(r, Was(SERVER, r, i)))
      /\ Text(p, n)' = x
  BY <1>1, AnswerSeen
<1>3. ~Mail(SERVER, 1, "PREG") /\ ~Mail(p, n, "PREQ") /\ n # 0
  BY <1>0, <1>1 DEF Mail
<1>4. \A i \in Nat \ {0} : /\ Mail(SERVER, i + 1, "PREG") => Mail(SERVER, i, "PREG")' /\ Text(SERVER, i)' = Text(SERVER, i + 1)
                           /\ Mail(SERVER, i, "PREQ")' => /\ Mail(SERVER, i + 1, "PREQ")
                                                          /\ Text(SERVER, i)' = Text(SERVER, i + 1)
                                                          /\ From(SERVER, i)' = From(SERVER, i + 1)
  BY <1>2, Constants DEF Was
<1>5. ASSUME NEW name, NEW l \in Nat, Asked(name, l) PROVE Asked(name, l - 1)'
  <2>1. PICK j \in 1 .. l : Mail(SERVER, j, "PREG") /\ Text(SERVER, j).name = name
    BY <1>5 DEF Asked
  <2>2. j # 1
    BY <1>3, <2>1
  <2>3. PICK k \in Nat \ {0} : j = k + 1 /\ k \in 1 .. l - 1
    <3>1. j - 1 \in Nat \ {0} /\ j = (j - 1) + 1 /\ j - 1 \in 1 .. l - 1
      BY <2>2
    <3> QED BY <3>1
  <2>4. Mail(SERVER, k, "PREG")' /\ Text(SERVER, k)' = Text(SERVER, j)
    BY <1>4, <2>1, <2>3
  <2> QED BY <2>1, <2>3, <2>4 DEF Asked
<1>6. OwnInv'
  <2>1. SUFFICES ASSUME NEW q \in Pids, NEW y \in own[q]
                 PROVE  Has(proc_tree', y) \/ Asked(y, Len(inbox[SERVER]))'
    BY DEF OwnInv
  <2>2. PICK l \in Nat : l = Len(inbox[SERVER])
    BY <1>0
  <2>3. Has(proc_tree', y) \/ Asked(y, l - 1)'
    BY <1>5, <2>2 DEF OwnInv
  <2>4. Asked(y, l - 1)' => Asked(y, Len(inbox[SERVER]))'
    BY DEF Asked, Mail
  <2> QED BY <2>3, <2>4
<1> DEFINE WQ(r, i) == IF r = p /\ i = n THEN SERVER ELSE r
           WI(r, i) == IF r = p /\ i = n THEN 1 ELSE Was(SERVER, r, i)
<1>7. ASSUME NEW q \in Pids, NEW r \in Pids, NEW i \in Nat, q # SERVER, Lookup(q, r, i)'
      PROVE  /\ i # 0 /\ WQ(r, i) \in Pids /\ WI(r, i) \in Nat
             /\ Lookup(q, WQ(r, i), WI(r, i))
  <2>1. CASE r = p /\ i = n
    <3>1. q = p /\ WQ(r, i) = SERVER /\ WI(r, i) = 1
      BY <1>7, <2>1 DEF Lookup
    <3>2. Lookup(p, SERVER, 1)
      BY DEF Lookup
    <3> QED BY <1>3, <2>1, <3>1, <3>2, Constants
  <2>2. CASE ~(r = p /\ i = n)
    <3>1. WQ(r, i) = r /\ WI(r, i) = Was(SERVER, r, i) /\ Was(SERVER, r, i) \in Nat
      BY <2>2 DEF Was
    <3>2. i # 0 /\ Mail(r, Was(SERVER, r, i), "PREQ") /\ From(r, i)' = From(r, Was(SERVER, r, i))
      BY <1>2, <1>7, <2>2 DEF Lookup
    <3>3. Lookup(q, r, Was(SERVER, r, i))
      BY <1>7, <3>2 DEF Lookup
    <3> QED BY <3>1, <3>2, <3>3
  <2> QED BY <2>1, <2>2
<1>8. \A r, s \in Pids, i, j \in Nat \ {0} : WQ(r, i) = WQ(s, j) /\ WI(r, i) = WI(s, j) => r = s /\ i = j
  BY Constants DEF Was
<1> HIDE DEF WQ, WI
<1>9. AskInv'
  <2>1. ASSUME NEW q \in Pids, NEW r \in Pids, NEW i \in Nat, q # SERVER, Lookup(q, r, i)'
        PROVE  pc'[q] = "finding"
    BY <1>7, <2>1 DEF AskInv
  <2>2. ASSUME NEW q \in Pids, NEW r \in Pids, NEW s \in Pids, NEW i \in Nat, NEW j \in Nat,
               q # SERVER, Lookup(q, r, i)', Lookup(q, s, j)'
        PROVE  r = s /\ i = j
    <3>1. WQ(r, i) = WQ(s, j) /\ WI(r, i) = WI(s, j) /\ i # 0 /\ j # 0
      BY <1>7, <2>2 DEF AskInv
    <3> QED BY <1>8, <3>1
  <2> QED BY <2>1, <2>2 DEF AskInv
<1>10. ReqInv'
  <2>1. SUFFICES ASSUME NEW i \in Nat, Mail(SERVER, i, "PREQ")'
                 PROVE  LET asked == answer'[From(SERVER, i)'] IN
                        /\ Text(SERVER, i)'.name = asked.name
                        /\ asked.own => Has(proc_tree', asked.name) \/ Asked(answer[From(SERVER, i)].name, i - 1)'
    BY DEF ReqInv
  <2>2. /\ i \in Nat \ {0} /\ Mail(SERVER, i + 1, "PREQ")
        /\ Text(SERVER, i)' = Text(SERVER, i + 1) /\ From(SERVER, i)' = From(SERVER, i + 1)
    BY <1>2, <1>4, <2>1, Constants
  <2>3. PICK a : a = answer[From(SERVER, i + 1)]
    OBVIOUS
  <2>4. i + 1 \in Nat /\ (i + 1) - 1 = i
    OBVIOUS
  <2>5. Text(SERVER, i + 1).name = a.name /\ (a.own => Has(proc_tree, a.name) \/ Asked(a.name, i))
    BY <2>2, <2>3, <2>4 DEF ReqInv
  <2>6. Asked(a.name, i) => Asked(a.name, i - 1)'
    BY <1>5
  <2>7. Asked(a.name, i - 1)' => Asked(answer[From(SERVER, i)].name, i - 1)'
    BY <2>2, <2>3 DEF Asked
  <2> QED BY <2>2, <2>3, <2>5, <2>6, <2>7
<1>11. AnsInv'
  <2>1. ASSUME NEW q \in Pids, NEW i \in Nat, q # SERVER, Mail(q, i, "PREQ")'
        PROVE  Right(proc_tree, q, Text(q, i).pid)'
    <3>1. CASE q = p /\ i = n
      <4>1. Text(SERVER, 1).name \in NameType /\ proc_tree \in Seq(NodeType)
        <5>1. inbox[SERVER][1].kdat \in Buffer
          BY Letters, Constants DEF Mail
        <5> QED BY <5>1 DEF Text, TypeInv, TreeInv, BodyType
      <4>2. Text(SERVER, 1).name = answer[p].name
        BY DEF ReqInv
      <4>3. answer[p].own => Has(proc_tree, answer[p].name) \/ Asked(answer[p].name, 1 - 1)
        BY DEF ReqInv
      <4>4. ~Asked(answer[p].name, 1 - 1)
        BY DEF Asked
      <4>5. Has(proc_tree, Text(SERVER, 1).name) => Node(proc_tree, Text(SERVER, 1).name, x.pid)
        BY <4>1, FindByName DEF Node
      <4>6. Right(proc_tree, p, x.pid)
        BY <4>2, <4>3, <4>4, <4>5 DEF Right
      <4> QED BY <1>2, <3>1, <4>6 DEF Right, Node
    <3>2. CASE ~(q = p /\ i = n)
      <4>1. Was(SERVER, q, i) = i
        BY <2>1 DEF Was
      <4>2. Mail(q, i, "PREQ") /\ Text(q, i)' = Text(q, i)
        BY <1>2, <2>1, <3>2, <4>1
      <4>3. Right(proc_tree, q, Text(q, i).pid)
        BY <2>1, <4>2 DEF AnsInv
      <4> QED BY <4>2, <4>3 DEF Right, Node
    <3> QED BY <3>1, <3>2
  <2>2. ASSUME NEW q \in Pids, pc'[q] # "finding" PROVE Right(proc_tree, q, answer[q].pid)'
    <3>1. Right(proc_tree, q, answer[q].pid)
      BY <2>2 DEF AnsInv
    <3> QED BY <3>1 DEF Right, Node
  <2> QED BY <2>1, <2>2 DEF AnsInv
<1> QED BY <1>6, <1>9, <1>10, <1>11

-----------------------------------------------------------------------------
(* The steps.                                                              *)

\* No message is passed.
LEMMA Still ==
    ASSUME UNCHANGED <<inbox, body>>
    PROVE  /\ \A p \in Pids, i \in Nat : \A k : Mail(p, i, k)' <=> Mail(p, i, k)
           /\ \A p \in Pids, i \in Nat : Text(p, i)' = Text(p, i) /\ From(p, i)' = From(p, i)
<1>1. \A p \in Pids, i \in Nat : Text(p, i)' = Text(p, i) /\ From(p, i)' = From(p, i)
  BY DEF Text, From
<1>2. \A p \in Pids, i \in Nat : \A k : Mail(p, i, k)' <=> Mail(p, i, k)
  BY <1>1 DEF Mail
<1> QED BY <1>1, <1>2

\* Nobody's messages move.
LEMMA Nobody == \A p \in Pids, i \in Nat : Was(-1, p, i) = i
  BY Constants DEF Was

\* A step that passes no message and at most creates a process.
LEMMA QuietStep ==
    ASSUME TypeInv, Sound, UNCHANGED <<inbox, body, held, proc_tree, registered, own, answer>>,
           next_pid' \in Nat, next_pid' >= next_pid, \A r \in 0 .. next_pid - 1 : creator'[r] = creator[r],
           \A p \in Pids : pc'[p] = "finding" <=> pc[p] = "finding",
           \A p \in Pids : pc'[p] = "registering" =>
               \/ pc[p] = "registering" /\ spawned'[p].r = spawned[p].r
               \/ spawned'[p].r = next_pid /\ next_pid < next_pid' /\ creator'[next_pid] = p
    PROVE  Sound'
<1>1. MailInv'
  BY DEF Sound, MailInv
<1>2. Calm(-1)
  BY Still, Nobody DEF Calm
<1>3. Carry(-1)
  <2>1. -1 # SERVER
    BY DEF SERVER
  <2> QED BY <2>1, Still, Nobody, Constants DEF Carry
<1>4. RegInv'
  BY <1>2, RegStays DEF Sound
<1>5. PlaceInv(proc_tree)'
  BY PlaceStays DEF Sound
<1> QED BY <1>1, <1>3, <1>4, <1>5, FindStays DEF Sound

\* The tree stays.
LEMMA TreeStays ==
    ASSUME IInv, TypeInv', ~stale' => Sound', UNCHANGED <<proc_tree, unmarked>>
    PROVE  IInv'
  BY DEF IInv, TreeInv, NameInv

\* The next process has not run.
LEMMA Newcomer ==
    ASSUME TypeInv, next_pid < MAXPROCS
    PROVE  /\ next_pid \in Pids /\ pc[next_pid] = "none"
           /\ \A r \in 0 .. next_pid - 1 : r \in Pids /\ r # next_pid
           /\ \A q \in Pids : pc[q] # "none" => q < next_pid
<1>1. next_pid \in Pids /\ \A r \in 0 .. next_pid - 1 : r \in Pids /\ r # next_pid
  BY NextPid, BoundAssumption DEF Pids
<1>2. \A q \in Pids : q >= next_pid => pc[q] = "none"
  BY DEF TypeInv
<1>3. \A q \in Pids : q \in Nat
  BY Constants
<1> QED BY <1>1, <1>2, <1>3, NextPid

\* micro_spawn in spawnv.
LEMMA SpawnKeeps == ASSUME IInv, NEW p \in Pids, NEW path \in Files, spawnv(p, path) PROVE IInv'
<1>1. next_pid \in Nat /\ next_pid >= 1 /\ next_pid < MAXPROCS /\ next_pid \in Pids /\ next_pid' = next_pid + 1
  BY NextPid, BoundAssumption DEF IInv, spawnv, Pids
<1>2. pc[p] = "user" /\ p # SERVER /\ pc[next_pid] = "none" /\ p # next_pid
  BY <1>1, Newcomer DEF IInv, spawnv, Program
<1>3. \A q \in Pids : pc'[q] = IF q = next_pid THEN "user" ELSE IF q = p THEN "registering" ELSE pc[q]
  BY <1>1 DEF IInv, TypeInv, spawnv
<1>4. TypeInv'
  <2>1. next_pid' \in 1 .. MAXPROCS
    BY <1>1, BoundAssumption
  <2>2. pc' \in [Pids -> {"none", "user", "registering", "finding", "released"}]
    BY DEF IInv, TypeInv, spawnv
  <2>3. \A q \in Pids : q >= next_pid' => pc'[q] = "none"
    <3>1. \A q \in Pids : q \in Nat
      BY Constants
    <3>2. p < next_pid
      BY <1>1, <1>2, Newcomer DEF IInv
    <3>3. \A q \in Pids : q >= next_pid + 1 => q >= next_pid /\ q # next_pid /\ q # p
      BY <1>1, <3>1, <3>2
    <3> QED BY <1>1, <1>3, <3>3 DEF IInv, TypeInv
  <2>4. pc'[SERVER] \in {"none", "user", "released"}
    BY <1>2, <1>3, Constants DEF IInv, TypeInv
  <2>5. spawned' \in [Pids -> [r : Pids, path : Files]]
    BY <1>1 DEF IInv, TypeInv, spawnv
  <2>6. creator' \in [Pids -> Pids]
    BY DEF IInv, TypeInv, spawnv
  <2>7. pc'[SERVER] = "released" => released.kdat \in Buffer
    BY <1>2, <1>3, Constants DEF IInv, TypeInv
  <2> QED BY <2>1, <2>2, <2>3, <2>4, <2>5, <2>6, <2>7 DEF IInv, TypeInv, spawnv, kernelVars
<1>5. ASSUME ~stale PROVE Sound'
  <2>1. TypeInv /\ Sound
    BY <1>5 DEF IInv
  <2>2. UNCHANGED <<inbox, body, held, proc_tree, registered, own, answer>>
    BY DEF spawnv, kernelVars
  <2>3. \A r \in 0 .. next_pid - 1 : creator'[r] = creator[r]
    <3>1. creator' = [creator EXCEPT ![next_pid] = p] /\ creator \in [Pids -> Pids]
      BY <2>1 DEF spawnv, TypeInv
    <3> QED BY <1>1, <2>1, <3>1, Newcomer
  <2>4. \A q \in Pids : pc'[q] = "finding" <=> pc[q] = "finding"
    BY <1>2, <1>3
  <2>5. spawned'[p].r = next_pid /\ creator'[next_pid] = p /\ \A q \in Pids : q # p => spawned'[q] = spawned[q]
    BY <1>1, <2>1 DEF spawnv, TypeInv
  <2>6. \A q \in Pids : pc'[q] = "registering" =>
            \/ pc[q] = "registering" /\ spawned'[q].r = spawned[q].r
            \/ spawned'[q].r = next_pid /\ next_pid < next_pid' /\ creator'[next_pid] = q
    <3>1. next_pid < next_pid'
      BY <1>1
    <3>2. \A q \in Pids : pc'[q] = "registering" => q = p \/ (q # p /\ pc[q] = "registering")
      BY <1>3
    <3> QED BY <2>5, <3>1, <3>2
  <2>7. next_pid' \in Nat /\ next_pid' >= next_pid
    BY <1>1
  <2> QED BY <2>1, <2>2, <2>3, <2>4, <2>6, <2>7, QuietStep
<1> QED BY <1>4, <1>5, TreeStays DEF spawnv

\* fork.
LEMMA ForkKeeps == ASSUME IInv, NEW p \in Pids, fork(p) PROVE IInv'
<1>1. next_pid \in Nat /\ next_pid >= 2 /\ next_pid < MAXPROCS /\ next_pid \in Pids /\ next_pid' = next_pid + 1
  BY NextPid, BoundAssumption DEF IInv, fork, Pids
<1>2. pc[p] = "user" /\ p # SERVER /\ pc[next_pid] = "none" /\ p # next_pid /\ next_pid # SERVER
  BY <1>1, Newcomer DEF IInv, fork, Program, SERVER
<1>3. \A q \in Pids : pc'[q] = IF q = next_pid THEN "user" ELSE pc[q]
  BY <1>1 DEF IInv, TypeInv, fork
<1>4. TypeInv'
  <2>1. next_pid' \in 1 .. MAXPROCS
    BY <1>1, BoundAssumption
  <2>2. pc' \in [Pids -> {"none", "user", "registering", "finding", "released"}]
    BY DEF IInv, TypeInv, fork
  <2>3. \A q \in Pids : q >= next_pid' => pc'[q] = "none"
    <3>1. \A q \in Pids : q \in Nat
      BY Constants
    <3>2. \A q \in Pids : q >= next_pid + 1 => q >= next_pid /\ q # next_pid
      BY <1>1, <3>1
    <3> QED BY <1>1, <1>3, <3>2 DEF IInv, TypeInv
  <2>4. pc'[SERVER] = pc[SERVER]
    BY <1>2, <1>3, Constants
  <2>5. creator' \in [Pids -> Pids]
    BY DEF IInv, TypeInv, fork
  <2> QED BY <2>1, <2>2, <2>3, <2>4, <2>5 DEF IInv, TypeInv, fork, kernelVars
<1>5. ASSUME ~stale PROVE Sound'
  <2>1. TypeInv /\ Sound
    BY <1>5 DEF IInv
  <2>2. UNCHANGED <<inbox, body, held, proc_tree, registered, own, answer>>
    BY DEF fork, kernelVars
  <2>3. \A r \in 0 .. next_pid - 1 : creator'[r] = creator[r]
    <3>1. creator' = [creator EXCEPT ![next_pid] = p] /\ creator \in [Pids -> Pids]
      BY <2>1 DEF fork, TypeInv
    <3> QED BY <1>1, <2>1, <3>1, Newcomer
  <2>4. \A q \in Pids : pc'[q] = "finding" <=> pc[q] = "finding"
    BY <1>2, <1>3
  <2>5. \A q \in Pids : pc'[q] = "registering" => pc[q] = "registering" /\ spawned'[q].r = spawned[q].r
    BY <1>3 DEF fork
  <2>6. next_pid' \in Nat /\ next_pid' >= next_pid
    BY <1>1
  <2> QED BY <2>1, <2>2, <2>3, <2>4, <2>5, <2>6, QuietStep
<1> QED BY <1>4, <1>5, TreeStays DEF fork

\* A message that asks for no lookup leaves the lookups alone.
LEMMA PostCarries ==
    ASSUME TypeInv, NEW p \in Pids, NEW q \in Pids, NEW x, x.kind # "PREQ", PostMail(p, q, x),
           x.kind = "PREG" => q = SERVER, UNCHANGED <<proc_tree, answer>>,
           \A r \in Pids : pc'[r] = "finding" <=> pc[r] = "finding",
           \A r \in Pids : \A name \in own'[r] : name \in own[r] \/ (x.kind = "PREG" /\ x.name = name)
    PROVE  Carry(-1)
<1>0. Len(inbox[q]) + 1 \in Nat
  BY Letters
<1>1. PICK n \in Nat : n = Len(inbox[q]) + 1
  BY <1>0
<1>2. /\ \A r \in Pids, i \in Nat, k \in {"PREG", "PREQ"} :
             Mail(r, i, k)' <=> Mail(r, i, k) \/ (r = q /\ i = n /\ x.kind = k)
      /\ \A r \in Pids, i \in Nat, k \in {"PREG", "PREQ"} :
             Mail(r, i, k) => Text(r, i)' = Text(r, i) /\ From(r, i)' = From(r, i)
      /\ Text(q, n)' = x
  BY <1>1, PostSeen
<1>3. \A r \in Pids, i \in Nat : Mail(r, i, "PREQ")' =>
          Mail(r, i, "PREQ") /\ Text(r, i)' = Text(r, i) /\ From(r, i)' = From(r, i)
  BY <1>2
<1>4. \A i \in Nat : Mail(SERVER, i, "PREG") => Mail(SERVER, i, "PREG")' /\ Text(SERVER, i)' = Text(SERVER, i)
  BY <1>2, Constants
<1>5. x.kind = "PREG" => Mail(SERVER, n, "PREG")' /\ Text(SERVER, n)'.name = x.name
  BY <1>2, Constants
<1>6. -1 # SERVER
  BY DEF SERVER
<1> QED BY <1>3, <1>4, <1>5, <1>6, Nobody, Constants DEF Carry

\* A message that registers nobody leaves registration alone.
LEMMA PostCalm ==
    ASSUME TypeInv, NEW p \in Pids, NEW q \in Pids, NEW x, x.kind # "PREG", PostMail(p, q, x),
           UNCHANGED <<registered, next_pid, creator, spawned>>,
           \A r \in Pids : pc'[r] = "registering" => pc[r] = "registering"
    PROVE  Calm(-1)
<1>0. Len(inbox[q]) + 1 \in Nat
  BY Letters
<1>1. PICK n \in Nat : n = Len(inbox[q]) + 1
  BY <1>0
<1>2. \A r \in Pids, i \in Nat : Mail(r, i, "PREG")' =>
          Mail(r, i, "PREG") /\ Text(r, i)' = Text(r, i) /\ From(r, i)' = From(r, i)
  BY <1>1, PostSeen
<1> QED BY <1>2, NextPid, Nobody DEF Calm

\* __send_preg.
LEMMA SendKeeps == ASSUME IInv, NEW p \in Pids, __send_preg(p) PROVE IInv'
<1> DEFINE f == spawned[p].path
           x == Body("PREG", f, spawned[p].r)
<1>1. /\ TypeInv /\ pc[p] = "registering" /\ Post(p, SERVER, x)
      /\ pc' = [pc EXCEPT ![p] = "user"] /\ own' = [own EXCEPT ![p] = @ \cup {f}]
      /\ UNCHANGED <<next_pid, spawned, proc_tree, released, registered, creator, answer, stale, unmarked>>
  BY DEF IInv, __send_preg
<1>2. p # SERVER /\ spawned[p].r \in Pids /\ spawned[p].path \in Files
  BY <1>1 DEF TypeInv
<1>3. f \in NameType /\ f \in Files
  BY <1>2, Texts
<1>4. x \in BodyType /\ x.kind = "PREG" /\ x.name = f /\ x.pid = spawned[p].r
  <2>1. spawned[p].r \in Int
    <3>1. spawned[p].r \in Nat
      BY <1>2, Constants
    <3> QED BY <3>1
  <2> HIDE DEF f
  <2> QED BY <1>3, <2>1, Texts DEF Body
<1> HIDE DEF f, x
<1>5. /\ pc' \in [Pids -> {"none", "user", "registering", "finding", "released"}]
      /\ \A q \in Pids : pc'[q] = IF q = p THEN "user" ELSE pc[q]
  BY <1>1 DEF TypeInv
<1>6. /\ own' \in [Pids -> SUBSET NameType]
      /\ \A q \in Pids : \A name \in own'[q] : name \in own[q] \/ name = f
  BY <1>1, <1>3 DEF TypeInv
<1>7. \A q \in Pids : q >= next_pid => pc'[q] = "none"
  BY <1>1, <1>5 DEF TypeInv
<1>8. TypeInv'
  <2>1. /\ inbox' \in [Pids -> Seq(Letter)] /\ body' \in [Buffer -> BodyType] /\ held' \subseteq Buffer
        /\ \A b \in Buffer : body'[b].kind = "PREG" => body'[b].name \in Files
    BY <1>1, <1>3, <1>4, PostTypes, Constants
  <2>2. pc'[SERVER] = pc[SERVER]
    BY <1>2, <1>5, Constants
  <2> QED BY <1>1, <1>5, <1>6, <1>7, <2>1, <2>2 DEF TypeInv
<1>9. ASSUME ~stale PROVE Sound'
  <2>1. Sound
    BY <1>9 DEF IInv
  <2>2. MailInv' /\ PostMail(p, SERVER, x)
    BY <1>1, <1>2, <1>4, <2>1, PostKeeps, Constants DEF Sound
  <2>3. RegInv'
    BY <1>1, <1>4, <2>1, <2>2, RegSent DEF Sound
  <2>4. PlaceInv(proc_tree)'
    BY <1>1, <2>1, PlaceStays DEF Sound
  <2>5. Carry(-1)
    <3>1. \A r \in Pids : pc'[r] = "finding" <=> pc[r] = "finding"
      BY <1>1, <1>5
    <3> QED BY <1>1, <1>4, <1>6, <2>2, <3>1, PostCarries, Constants
  <2> QED BY <1>1, <2>1, <2>2, <2>3, <2>4, <2>5, FindStays DEF Sound
<1> QED BY <1>1, <1>8, <1>9, TreeStays

\* find_process up to its message_send.
LEMMA AskKeeps == ASSUME IInv, NEW p \in Pids, NEW path \in Files, find_process(p, path) PROVE IInv'
<1> DEFINE f == path
           x == Body("PREQ", f, GARBAGE)
           a == [name |-> f, pid |-> MISSING, own |-> f \in own[p]]
<1>1. /\ TypeInv /\ pc[p] = "user" /\ p # SERVER /\ Post(p, SERVER, x)
      /\ pc' = [pc EXCEPT ![p] = "finding"] /\ answer' = [answer EXCEPT ![p] = a]
      /\ UNCHANGED <<next_pid, spawned, proc_tree, released, registered, creator, own, stale, unmarked>>
  BY DEF IInv, find_process, Program
<1>2. f \in NameType
  BY Texts
<1> HIDE DEF f
<1>3. x \in BodyType /\ x.kind = "PREQ" /\ x.name = f
  BY <1>2, Texts DEF Body
<1>4. a \in [name : NameType, pid : Int, own : BOOLEAN]
  BY <1>2 DEF MISSING
<1> HIDE DEF x
<1>5. /\ pc' \in [Pids -> {"none", "user", "registering", "finding", "released"}]
      /\ \A q \in Pids : pc'[q] = IF q = p THEN "finding" ELSE pc[q]
  BY <1>1 DEF TypeInv
<1>6. \A q \in Pids : q >= next_pid => pc'[q] = "none"
  BY <1>1, <1>5 DEF TypeInv
<1>7. TypeInv'
  <2>1. /\ inbox' \in [Pids -> Seq(Letter)] /\ body' \in [Buffer -> BodyType] /\ held' \subseteq Buffer
        /\ \A b \in Buffer : body'[b].kind = "PREG" => body'[b].name \in Files
    BY <1>1, <1>3, PostTypes, Constants
  <2>2. pc'[SERVER] = pc[SERVER]
    BY <1>1, <1>5, Constants
  <2>3. answer' \in [Pids -> [name : NameType, pid : Int, own : BOOLEAN]]
    <3> HIDE DEF a
    <3> QED BY <1>1, <1>4 DEF TypeInv
  <2> QED BY <1>1, <1>5, <1>6, <2>1, <2>2, <2>3 DEF TypeInv
<1>8. ASSUME ~stale PROVE Sound'
  <2>1. Sound
    BY <1>8 DEF IInv
  <2>2. MailInv' /\ PostMail(p, SERVER, x)
    BY <1>1, <1>3, <2>1, PostKeeps, Constants DEF Sound
  <2>3. Calm(-1)
    BY <1>1, <1>3, <1>5, <2>2, PostCalm, Constants
  <2>4. RegInv'
    BY <1>1, <2>1, <2>3, RegStays DEF Sound
  <2>5. PlaceInv(proc_tree)'
    BY <1>1, <2>1, PlaceStays DEF Sound
  <2>6. OwnInv' /\ AskInv' /\ ReqInv' /\ AnsInv'
    BY <1>1, <1>3, <2>1, <2>2, FindAsked DEF Sound
  <2> QED BY <2>2, <2>4, <2>5, <2>6 DEF Sound
<1> QED BY <1>1, <1>7, <1>8, TreeStays

\* Any other message.
LEMMA OtherKeeps == ASSUME IInv, NEW p \in Pids, NEW q \in Pids, SendOther(p, q) PROVE IInv'
<1> DEFINE x == Body("other", NONAME, GARBAGE)
<1>1. /\ TypeInv /\ pc[p] = "user" /\ p # SERVER /\ Post(p, q, x)
      /\ UNCHANGED <<next_pid, pc, spawned, proc_tree, released, registered, creator, own, answer, stale, unmarked>>
  BY DEF IInv, SendOther, Program, history
<1>2. x \in BodyType /\ x.kind = "other"
  BY Texts DEF Body
<1> HIDE DEF x
<1>3. TypeInv'
  <2>1. /\ inbox' \in [Pids -> Seq(Letter)] /\ body' \in [Buffer -> BodyType] /\ held' \subseteq Buffer
        /\ \A b \in Buffer : body'[b].kind = "PREG" => body'[b].name \in Files
    BY <1>1, <1>2, PostTypes
  <2> QED BY <1>1, <2>1 DEF TypeInv
<1>4. ASSUME ~stale PROVE Sound'
  <2>1. Sound
    BY <1>4 DEF IInv
  <2>2. MailInv' /\ PostMail(p, q, x)
    BY <1>1, <1>2, <2>1, PostKeeps DEF Sound
  <2>3. Calm(-1)
    BY <1>1, <1>2, <2>2, PostCalm
  <2>4. RegInv'
    BY <1>1, <2>1, <2>3, RegStays DEF Sound
  <2>5. PlaceInv(proc_tree)'
    BY <1>1, <2>1, PlaceStays DEF Sound
  <2>6. Carry(-1)
    BY <1>1, <1>2, <2>2, PostCarries
  <2> QED BY <1>1, <2>1, <2>2, <2>4, <2>5, <2>6, FindStays DEF Sound
<1> QED BY <1>1, <1>3, <1>4, TreeStays

\* A message taken registers nobody.
LEMMA TakeCalm ==
    ASSUME TypeInv, NEW p \in Pids, TakeMail(p), UNCHANGED <<registered, next_pid, creator, spawned>>,
           \A r \in Pids : pc'[r] = "registering" => pc[r] = "registering"
    PROVE  Calm(p)
<1>1. \A r \in Pids, i \in Nat : Mail(r, i, "PREG")' =>
          /\ Mail(r, Was(p, r, i), "PREG")
          /\ Text(r, i)' = Text(r, Was(p, r, i)) /\ From(r, i)' = From(r, Was(p, r, i))
  BY TakeSeen
<1> QED BY <1>1, NextPid DEF Calm

\* A message taken that is no request leaves lookups alone.
LEMMA TakeCarries ==
    ASSUME TypeInv, NEW p \in Pids, TakeMail(p), UNCHANGED <<own, answer>>,
           p = SERVER /\ Mail(SERVER, 1, "PREG") => Has(proc_tree', Text(SERVER, 1).name),
           \A name, pid : Node(proc_tree, name, pid) => Node(proc_tree', name, pid),
           \A r \in Pids : pc'[r] = "finding" <=> pc[r] = "finding"
    PROVE  Carry(p)
<1>1. \A r \in Pids, i \in Nat : Mail(r, i, "PREQ")' =>
          /\ Mail(r, Was(p, r, i), "PREQ")
          /\ Text(r, i)' = Text(r, Was(p, r, i)) /\ From(r, i)' = From(r, Was(p, r, i))
  BY TakeSeen
<1>2. \A i \in Nat \ {0} : Mail(SERVER, Was(p, SERVER, i), "PREG") =>
          Mail(SERVER, i, "PREG")' /\ Text(SERVER, i)' = Text(SERVER, Was(p, SERVER, i))
  BY TakeSeen, Constants
<1> QED BY <1>1, <1>2 DEF Carry

\* The first message to a process.
LEMMA First ==
    ASSUME TypeInv, NEW p \in Pids, inbox[p] # <<>>
    PROVE  /\ Head(inbox[p]) = inbox[p][1] /\ 1 \in 1 .. Len(inbox[p])
           /\ Head(inbox[p]).src \in Pids /\ Head(inbox[p]).kdat \in Buffer
           /\ body[Head(inbox[p]).kdat] = Text(p, 1) /\ Head(inbox[p]).src = From(p, 1)
           /\ \A k : Mail(p, 1, k) <=> body[Head(inbox[p]).kdat].kind = k
<1>1. inbox[p] \in Seq(Letter) /\ Len(inbox[p]) \in Nat
  BY Letters
<1>2. Head(inbox[p]) = inbox[p][1] /\ 1 \in 1 .. Len(inbox[p])
  BY <1>1, HeadTailProperties, EmptySeq
<1> QED BY <1>2, Letters DEF Text, From, Mail

\* A turn of the loop in find_process.
LEMMA ReceiveKeeps == ASSUME IInv, NEW p \in Pids, FindReceive(p) PROVE IInv'
<1> DEFINE m == Head(inbox[p])
<1>1. /\ TypeInv /\ pc[p] = "finding" /\ p # SERVER /\ inbox[p] # <<>> /\ inbox' = [inbox EXCEPT ![p] = Tail(@)]
      /\ UNCHANGED <<next_pid, spawned, body, nsent, proc_tree, released, registered, creator, own, stale, unmarked>>
  BY DEF IInv, TypeInv, FindReceive
<1>2. inbox' \in [Pids -> Seq(Letter)]
  BY <1>1, TakeTypes
<1>3. m = inbox[p][1] /\ m.kdat \in Buffer /\ body[m.kdat] = Text(p, 1) /\ \A k : Mail(p, 1, k) <=> body[m.kdat].kind = k
  BY <1>1, First
<1> HIDE DEF m
<1>4. CASE Mail(p, 1, "PREQ")
  <2>1. /\ pc' = [pc EXCEPT ![p] = "user"] /\ answer' = [answer EXCEPT ![p].pid = Text(p, 1).pid]
        /\ held' = held \ {m.kdat}
    BY <1>3, <1>4 DEF FindReceive, m
  <2>2. Text(p, 1).pid \in Int
    <3>1. body[m.kdat] \in BodyType
      <4>1. body \in [Buffer -> BodyType]
        BY <1>1 DEF TypeInv
      <4> QED BY <1>3, <4>1
    <3> QED BY <1>3, <3>1 DEF BodyType
  <2>3. answer' \in [Pids -> [name : NameType, pid : Int, own : BOOLEAN]]
    <3>1. answer \in [Pids -> [name : NameType, pid : Int, own : BOOLEAN]]
      BY <1>1 DEF TypeInv
    <3> QED BY <2>1, <2>2, <3>1
  <2>4. /\ pc' \in [Pids -> {"none", "user", "registering", "finding", "released"}]
        /\ \A q \in Pids : pc'[q] = IF q = p THEN "user" ELSE pc[q]
    BY <1>1, <2>1 DEF TypeInv
  <2>5. \A q \in Pids : q >= next_pid => pc'[q] = "none"
    BY <1>1, <2>4 DEF TypeInv
  <2>6. pc'[SERVER] = pc[SERVER]
    BY <1>1, <2>4, Constants
  <2>7. TypeInv'
    BY <1>1, <1>2, <2>1, <2>3, <2>4, <2>5, <2>6 DEF TypeInv
  <2>8. ASSUME ~stale PROVE Sound'
    <3>1. Sound
      BY <2>8 DEF IInv
    <3>2. MailInv' /\ TakeMail(p)
      BY <1>1, <2>1, <3>1, TakeKeeps DEF Sound, m
    <3>3. Calm(p)
      BY <1>1, <2>4, <3>2, TakeCalm
    <3>4. RegInv'
      BY <1>1, <3>1, <3>3, RegStays DEF Sound
    <3>5. PlaceInv(proc_tree)'
      BY <1>1, <3>1, PlaceStays DEF Sound
    <3>6. OwnInv' /\ AskInv' /\ ReqInv' /\ AnsInv'
      BY <1>1, <1>4, <2>1, <3>1, <3>2, FindGot DEF Sound
    <3> QED BY <3>2, <3>4, <3>5, <3>6 DEF Sound
  <2> QED BY <1>1, <2>7, <2>8, TreeStays
<1>5. CASE ~Mail(p, 1, "PREQ")
  <2>1. UNCHANGED <<pc, answer, held>>
    BY <1>3, <1>5 DEF FindReceive, m
  <2>2. TypeInv'
    BY <1>1, <1>2, <2>1 DEF TypeInv
  <2>3. ASSUME ~stale PROVE Sound'
    <3>1. Sound
      BY <2>3 DEF IInv
    <3>2. MailInv' /\ TakeMail(p)
      BY <1>1, <2>1, <3>1, TakeKeeps DEF Sound
    <3>3. Calm(p)
      BY <1>1, <2>1, <3>2, TakeCalm
    <3>4. RegInv'
      BY <1>1, <3>1, <3>3, RegStays DEF Sound
    <3>5. PlaceInv(proc_tree)'
      BY <1>1, <3>1, PlaceStays DEF Sound
    <3>6. Carry(p)
      BY <1>1, <2>1, <3>2, TakeCarries
    <3> QED BY <1>1, <3>1, <3>2, <3>4, <3>5, <3>6, FindStays DEF Sound
  <2> QED BY <1>1, <2>2, <2>3, TreeStays
<1> QED BY <1>4, <1>5

\* HandleOther.
LEMMA DropKeeps == ASSUME IInv, HandleOther PROVE IInv'
<1>1. /\ TypeInv /\ inbox[SERVER] # <<>> /\ inbox' = [inbox EXCEPT ![SERVER] = Tail(@)]
      /\ body[Head(inbox[SERVER]).kdat].kind = "other"
      /\ UNCHANGED <<next_pid, pc, spawned, body, held, proc_tree, released, registered, creator, own, answer, stale, unmarked>>
  BY DEF IInv, HandleOther, Received, history
<1>2. TypeInv'
  <2>1. inbox' \in [Pids -> Seq(Letter)]
    BY <1>1, TakeTypes, Constants
  <2> QED BY <1>1, <2>1 DEF TypeInv
<1>3. ASSUME ~stale PROVE Sound'
  <2>1. Sound
    BY <1>3 DEF IInv
  <2>2. MailInv' /\ TakeMail(SERVER)
    BY <1>1, <2>1, TakeKeeps, Constants DEF Sound
  <2>3. Calm(SERVER)
    BY <1>1, <2>2, TakeCalm, Constants
  <2>4. RegInv'
    BY <1>1, <2>1, <2>3, RegStays DEF Sound
  <2>5. PlaceInv(proc_tree)'
    BY <1>1, <2>1, PlaceStays DEF Sound
  <2>6. ~Mail(SERVER, 1, "PREG")
    BY <1>1, First, Constants
  <2>7. Carry(SERVER)
    BY <1>1, <2>2, <2>6, TakeCarries, Constants
  <2> QED BY <1>1, <2>1, <2>2, <2>4, <2>5, <2>7, FindStays DEF Sound
<1> QED BY <1>1, <1>2, <1>3, TreeStays

\* HandleReq.
LEMMA AnswerKeepsAll == ASSUME IInv, HandleReq PROVE IInv'
<1> DEFINE x == Body("PREQ", NONAME, proc_find_by_name(proc_tree, Text(SERVER, 1).name))
           p == From(SERVER, 1)
<1>1. /\ TypeInv /\ TreeInv(proc_tree) /\ inbox[SERVER] # <<>> /\ body[Head(inbox[SERVER]).kdat].kind = "PREQ"
      /\ parse_procreq(Head(inbox[SERVER]), [inbox EXCEPT ![SERVER] = Tail(@)])
      /\ UNCHANGED <<next_pid, pc, spawned, held, proc_tree, released, registered, creator, own, answer, stale, unmarked>>
  BY DEF IInv, HandleReq, Received, history
<1>2. /\ Head(inbox[SERVER]) = inbox[SERVER][1] /\ Head(inbox[SERVER]).src \in Pids /\ Head(inbox[SERVER]).kdat \in Buffer
      /\ Mail(SERVER, 1, "PREQ") /\ p \in Pids
  BY <1>1, First, Constants
<1>3. [inbox EXCEPT ![SERVER] = Tail(@)] \in [Pids -> Seq(Letter)]
  <2>1. Tail(inbox[SERVER]) \in Seq(Letter)
    BY <1>1, Letters, HeadTailProperties, Constants
  <2> QED BY <1>1, <2>1 DEF TypeInv
<1>4. TypeInv'
  <2>1. /\ inbox' \in [Pids -> Seq(Letter)] /\ body' \in [Buffer -> BodyType]
        /\ \A b \in Buffer : body'[b].kind = "PREG" => body'[b].name \in Files
    BY <1>1, <1>2, <1>3, AnswerTypes
  <2> QED BY <1>1, <2>1 DEF TypeInv
<1>5. ASSUME ~stale PROVE Sound'
  <2>1. Sound
    BY <1>5 DEF IInv
  <2>2. MailInv' /\ AnswerMail(p, x)
    BY <1>1, <2>1, AnswerKeeps DEF Sound, From, Text
  <2>3. p # SERVER
    BY <1>1, <2>1, First, Constants DEF Sound, MailInv, From
  <2>4. x.kind = "PREQ" /\ x.pid = proc_find_by_name(proc_tree, Text(SERVER, 1).name)
    BY DEF Body
  <2>5. OwnInv' /\ AskInv' /\ ReqInv' /\ AnsInv'
    <3> HIDE DEF x
    <3> QED BY <1>1, <1>2, <2>1, <2>2, <2>3, <2>4, FindAnswered DEF Sound
  <2> HIDE DEF x, p
  <2>6. Calm(SERVER)
    <3>0. Len(inbox[p]) + 1 \in Nat
      BY <1>1, <1>2, Letters
    <3>1. PICK n \in Nat : n = Len(inbox[p]) + 1
      BY <3>0
    <3>2. \A r \in Pids, i \in Nat : Mail(r, i, "PREG")' =>
              /\ Mail(r, Was(SERVER, r, i), "PREG")
              /\ Text(r, i)' = Text(r, Was(SERVER, r, i)) /\ From(r, i)' = From(r, Was(SERVER, r, i))
      BY <1>1, <1>2, <2>2, <2>3, <2>4, <3>1, AnswerSeen
    <3> QED BY <1>1, <3>2, NextPid DEF Calm
  <2>7. RegInv'
    BY <1>1, <2>1, <2>6, RegStays DEF Sound
  <2>8. PlaceInv(proc_tree)'
    BY <1>1, <2>1, PlaceStays DEF Sound
  <2> QED BY <2>2, <2>5, <2>7, <2>8 DEF Sound
<1> QED BY <1>1, <1>4, <1>5, TreeStays

\* HandleReleased.
LEMMA ReleasedKeeps == ASSUME IInv, HandleReleased PROVE IInv'
<1>1. /\ TypeInv /\ TreeInv(proc_tree) /\ pc[SERVER] = "released" /\ pc' = [pc EXCEPT ![SERVER] = "user"]
      /\ released' = NoMessage /\ released.src \in Pids /\ released.kdat \in Buffer
      /\ UNCHANGED <<next_pid, spawned, held, proc_tree, registered, creator, own, answer, unmarked>>
  BY DEF IInv, TypeInv, HandleReleased
<1>2. /\ pc' \in [Pids -> {"none", "user", "registering", "finding", "released"}]
      /\ \A q \in Pids : pc'[q] = IF q = SERVER THEN "user" ELSE pc[q]
  BY <1>1 DEF TypeInv
<1>3. \A q \in Pids : q >= next_pid => pc'[q] = "none"
  BY <1>1, <1>2 DEF TypeInv
<1>4. released' \in [src : Pids, kdat : 0 .. NBUF] /\ pc'[SERVER] = "user"
  BY <1>1, <1>2, BoundAssumption, Constants DEF NoMessage
<1>5. CASE body[released.kdat].kind = "PREQ"
  <2>1. parse_procreq(released, inbox) /\ stale' = TRUE
    BY <1>5 DEF HandleReleased
  <2>2. inbox \in [Pids -> Seq(Letter)]
    BY <1>1 DEF TypeInv
  <2>3. /\ inbox' \in [Pids -> Seq(Letter)] /\ body' \in [Buffer -> BodyType]
        /\ \A b \in Buffer : body'[b].kind = "PREG" => body'[b].name \in Files
    BY <1>1, <2>1, <2>2, AnswerTypes
  <2>4. TypeInv'
    BY <1>1, <1>2, <1>3, <1>4, <2>1, <2>3 DEF TypeInv
  <2> QED BY <1>1, <2>1, <2>4, TreeStays
<1>6. CASE body[released.kdat].kind # "PREQ"
  <2>1. UNCHANGED <<body, inbox, stale>>
    BY <1>6 DEF HandleReleased
  <2>2. TypeInv'
    BY <1>1, <1>2, <1>3, <1>4, <2>1 DEF TypeInv
  <2>3. ASSUME ~stale PROVE Sound'
    <3>1. \A q \in Pids : /\ pc'[q] = "finding" <=> pc[q] = "finding"
                          /\ pc'[q] = "registering" => pc[q] = "registering"
      BY <1>1, <1>2
    <3> QED BY <1>1, <2>1, <2>3, <3>1, NextPid, QuietStep DEF IInv
  <2> QED BY <1>1, <2>1, <2>2, <2>3, TreeStays
<1> QED BY <1>5, <1>6

\* HandleReg.
LEMMA RegisterKeeps == ASSUME IInv, HandleReg PROVE IInv'
<1> DEFINE m == Head(inbox[SERVER])
<1>1. PICK reg, par, found :
          reg = Text(SERVER, 1) /\ par = From(SERVER, 1) /\ found = traverse_by_name(proc_tree, reg.name)
  OBVIOUS
<1>2. /\ TypeInv /\ TreeInv(proc_tree) /\ inbox[SERVER] # <<>> /\ body[m.kdat].kind = "PREG"
      /\ inbox' = [inbox EXCEPT ![SERVER] = Tail(@)] /\ held' = held \ {m.kdat} /\ released' = m
      /\ pc' = [pc EXCEPT ![SERVER] = "released"] /\ pc[SERVER] = "user"
      /\ UNCHANGED <<next_pid, spawned, body, creator, own, answer, stale>>
  BY DEF IInv, HandleReg, Received
<1>3. /\ m.src \in Pids /\ m.kdat \in Buffer /\ m = inbox[SERVER][1] /\ body[m.kdat] = reg /\ m.src = par
      /\ Mail(SERVER, 1, "PREG")
  BY <1>1, <1>2, First, Constants
<1>4. /\ \E garbage \in Mark : proc_tree' = parse_procreg(proc_tree, par, reg, garbage)
      /\ registered' = Append(registered, reg.pid)
      /\ unmarked' = (unmarked \/ (found # 0 /\ (proc_tree[found].refcount + ZERO) % BYTE = 0))
  BY <1>1, <1>3 DEF HandleReg
<1>5. reg.pid \in Int /\ reg.name \in NameType /\ reg.name \in Files /\ reg.kind = "PREG"
  BY <1>2, <1>3 DEF TypeInv, BodyType
<1>6. par \in Int
  <2>1. par \in Nat
    BY <1>3, Constants
  <2> QED BY <2>1
<1>7. PICK t, u : t = proc_tree /\ u = proc_tree'
  OBVIOUS
<1>8. TreeInv(t)
  BY <1>2, <1>7
<1>9. PICK f \in Nat : f = found /\ Registers(t, u, f, par, reg.pid, reg.name)
  <2>1. PICK garbage \in Mark : u = parse_procreg(t, par, reg, garbage)
    BY <1>4, <1>7
  <2>2. found = traverse_by_name(t, reg.name)
    BY <1>1, <1>7
  <2> QED BY <1>5, <1>6, <1>8, <2>1, <2>2, Parsed
<1>10. PICK i, k \in Nat :
           /\ Named(t, f, reg.name) /\ Under(t, i, par)
           /\ Planted(t, u, i, k, reg.pid, Marked(t, f, reg.name)) /\ Tallied(t, u, k, f)
  BY <1>9 DEF Registers
<1>11. TreeInv(u)
  BY <1>8, <1>10, TreeGrows
<1>12. ASSUME ~unmarked' PROVE NameInv(u)
  <2>1. NameInv(t) /\ (f # 0 => NextOf(t[f].refcount) # 0)
    BY <1>4, <1>7, <1>9, <1>12 DEF IInv, NextOf
  <2> QED BY <1>5, <1>8, <1>10, <2>1, NamesStay
<1>13. /\ pc' \in [Pids -> {"none", "user", "registering", "finding", "released"}]
       /\ \A q \in Pids : pc'[q] = IF q = SERVER THEN "released" ELSE pc[q]
  BY <1>2 DEF TypeInv
<1>14. TypeInv'
  <2>1. inbox' \in [Pids -> Seq(Letter)]
    BY <1>2, TakeTypes, Constants
  <2>2. \A q \in Pids : q >= next_pid => pc'[q] = "none"
    BY <1>2, <1>13 DEF TypeInv
  <2>3. released' \in [src : Pids, kdat : 0 .. NBUF] /\ released'.kdat \in Buffer
    <3>1. m \in Letter
      BY <1>2, <1>3, Letters, First, Constants
    <3> QED BY <1>2, <1>3, <3>1, BoundAssumption DEF Letter, Buffer
  <2>4. registered' \in Seq(Int)
    BY <1>2, <1>4, <1>5, AppendProperties DEF TypeInv
  <2>5. unmarked' \in BOOLEAN
    BY <1>4
  <2> QED BY <1>2, <1>13, <2>1, <2>2, <2>3, <2>4, <2>5, Constants DEF TypeInv
<1>15. ASSUME ~stale PROVE Sound'
  <2>1. Sound
    BY <1>15 DEF IInv
  <2>2. MailInv' /\ TakeMail(SERVER)
    BY <1>2, <2>1, TakeKeeps, Constants DEF Sound
  <2>3. RegInv'
    BY <1>1, <1>2, <1>3, <1>4, <2>1, <2>2, RegDone DEF Sound
  <2>4. PlaceInv(proc_tree)'
    BY <1>1, <1>2, <1>3, <1>4, <1>7, <1>8, <1>10, <2>1, PlaceDone DEF Sound
  <2>5. /\ \A j \in 1 .. Len(t) : \E l \in 1 .. Len(u) : Alike(u[l], t[j])
        /\ k \in 1 .. Len(u)
    BY <1>8, <1>10, NodesStay
  <2>6. \A name, pid : Node(t, name, pid) => Node(u, name, pid)
    BY <2>5 DEF Node, Alike
  <2>7. Has(u, reg.name)
    <3>1. CASE f = 0
      BY <1>10, <2>5, <3>1 DEF Has, Marked, Planted
    <3>2. CASE f # 0
      BY <1>10, <2>5, <3>2 DEF Has, Named, Alike
    <3> QED BY <3>1, <3>2
  <2>8. Carry(SERVER)
    <3>1. \A r \in Pids : pc'[r] = "finding" <=> pc[r] = "finding"
      BY <1>2, <1>13
    <3> QED BY <1>1, <1>2, <1>7, <2>2, <2>6, <2>7, <3>1, TakeCarries, Constants
  <2> QED BY <1>2, <2>1, <2>2, <2>3, <2>4, <2>8, FindStays DEF Sound
<1>16. TreeInv(proc_tree)' /\ (~unmarked' => NameInv(proc_tree)')
  BY <1>7, <1>11, <1>12 DEF TreeInv, NameInv
<1> QED BY <1>2, <1>14, <1>15, <1>16 DEF IInv

-----------------------------------------------------------------------------
(* The invariant holds, and what it says.                                  *)

\* It holds when init has started.
LEMMA InitKeeps == Init => IInv
<1> SUFFICES ASSUME Init PROVE IInv
  OBVIOUS
<1>2. /\ MAXPROCS \in Nat /\ MAXPROCS >= 2 /\ NBUF \in Nat /\ 0 \in Mark
  BY BoundAssumption, ByteAssumption DEF Mark
<1>3. \A p \in Pids : inbox[p] = <<>> /\ Len(inbox[p]) = 0 /\ p \in Nat
  BY Constants DEF Init
<1>4. \A p \in Pids : \A i, x : ~Mail(p, i, x)
  BY <1>3 DEF Mail
<1>5. INITNAME \in NameType /\ NONAME \in NameType
  BY Texts
<1> DEFINE e == [pid |-> INIT, name |-> INITNAME, refcount |-> 0, depth |-> 0]
<1>6. e \in NodeType /\ e.pid = INIT /\ e.depth = 0 /\ e.name = INITNAME
  <2> DEFINE y == INITNAME
  <2>1. y \in NameType /\ e = [pid |-> INIT, name |-> y, refcount |-> 0, depth |-> 0]
    BY <1>5
  <2> HIDE DEF y
  <2>2. e \in NodeType /\ e.pid = INIT /\ e.depth = 0 /\ e.name = y
    BY <1>2, <2>1 DEF NodeType, INIT
  <2> QED BY <2>2 DEF y
<1>7. proc_tree = <<e>>
  BY DEF Init
<1> HIDE DEF e
<1>8. proc_tree \in Seq(NodeType) /\ Len(proc_tree) = 1 /\ proc_tree[1] = e
  BY <1>6, <1>7
<1>9. TypeInv
  <2>9. next_pid = 1 /\ pc = [p \in Pids |-> IF p = INIT THEN "user" ELSE "none"]
    BY DEF Init
  <2>1. next_pid \in 1 .. MAXPROCS /\ pc \in [Pids -> {"none", "user", "registering", "finding", "released"}]
    BY <1>2, <2>9
  <2>2. \A p \in Pids : p >= next_pid => pc[p] = "none"
    BY <1>3, <2>9 DEF INIT
  <2>3. pc[SERVER] = "none"
    BY Constants DEF Init
  <2>4. spawned \in [Pids -> [r : Pids, path : Files]] /\ inbox \in [Pids -> Seq(Letter)]
    <3>1. spawned = [p \in Pids |-> [r |-> 0, path |-> PROCSVR]] /\ inbox = [p \in Pids |-> <<>>] /\ 0 \in Pids
      BY Constants DEF Init, INIT
    <3>2. <<>> \in Seq(Letter)
      BY EmptySeq
    <3>3. [r |-> 0, path |-> PROCSVR] \in [r : Pids, path : Files]
      BY <3>1, FilesAssumption
    <3> QED BY <3>1, <3>2, <3>3
  <2>5. body \in [Buffer -> BodyType] /\ \A b \in Buffer : body[b].kind # "PREG"
    <3>1. Blank.kind = "blank"
      BY DEF Blank, Body
    <3> QED BY <3>1, Texts DEF Init
  <2>6. held \subseteq Buffer /\ released \in [src : Pids, kdat : 0 .. NBUF] /\ registered \in Seq(Int)
    <3>1. held = {} /\ released = [src |-> INIT, kdat |-> 0] /\ registered = <<INIT>>
      BY DEF Init, NoMessage
    <3>3. INIT \in Pids /\ INIT \in Int
      BY Constants DEF INIT
    <3>2. 0 \in 0 .. NBUF
      BY <1>2
    <3> QED BY <3>1, <3>2, <3>3
  <2>7. creator \in [Pids -> Pids] /\ own \in [Pids -> SUBSET NameType] /\ stale \in BOOLEAN /\ unmarked \in BOOLEAN
    BY Constants DEF Init
  <2>8. answer \in [Pids -> [name : NameType, pid : Int, own : BOOLEAN]]
    <3>1. answer = [p \in Pids |-> [name |-> NONAME, pid |-> MISSING, own |-> FALSE]]
      BY DEF Init
    <3>3. MISSING \in Int
      BY DEF MISSING
    <3>2. [name |-> NONAME, pid |-> MISSING, own |-> FALSE] \in [name : NameType, pid : Int, own : BOOLEAN]
      BY <1>5, <3>3
    <3> QED BY <3>1, <3>2
  <2> QED BY <2>1, <2>2, <2>3, <2>4, <2>5, <2>6, <2>7, <2>8 DEF TypeInv
<1>10. TreeInv(proc_tree)
  BY <1>6, <1>8 DEF TreeInv
<1>11. NameInv(proc_tree)
  <2>1. proc_tree[1].name = INITNAME
    BY <1>6, <1>8
  <2>2. ASSUME NEW g \in Files, NEW c \in Char, INITNAME = Append(g, c) PROVE INITNAME \in Ambiguous
    BY <2>2 DEF Ambiguous
  <2> QED BY <1>8, <2>1, <2>2 DEF NameInv
<1>12. MailInv
  <2>1. \A p \in Pids : \A i : i \notin 1 .. Len(inbox[p])
    BY <1>3
  <2> QED BY <2>1, Constants DEF MailInv
<1>13. Len(registered) = 1 /\ registered[1] = INIT
  BY DEF Init
<1>14. RegInv
  <2>1. \A p \in Pids : pc[p] # "registering"
    BY DEF Init
  <2>2. next_pid = 1
    BY DEF Init
  <2>3. /\ \A k \in 1 .. Len(registered) : registered[k] \in 0 .. next_pid - 1
        /\ \A k, j \in 1 .. Len(registered) : registered[k] = registered[j] => k = j
    BY <1>13, <2>2 DEF INIT
  <2> QED BY <1>4, <2>1, <2>3, Constants DEF RegInv
<1>15. PlaceInv(proc_tree)
  BY <1>6, <1>8, <1>13 DEF PlaceInv
<1>16. OwnInv
  BY DEF Init, OwnInv
<1>17. AskInv /\ ReqInv
  BY <1>4, Constants DEF AskInv, ReqInv, Lookup
<1>18. AnsInv
  <2>1. \A p \in Pids : ~answer[p].own
    BY DEF Init
  <2> QED BY <1>4, <2>1 DEF AnsInv, Right
<1> QED BY <1>9, <1>10, <1>11, <1>12, <1>14, <1>15, <1>16, <1>17, <1>18 DEF IInv, Sound

\* Every step keeps it.
LEMMA StepKeeps == IInv /\ [Next]_vars => IInv'
<1> SUFFICES ASSUME IInv, [Next]_vars PROVE IInv'
  OBVIOUS
<1>2. CASE UNCHANGED vars
  <2>1. /\ UNCHANGED <<next_pid, pc, spawned, inbox, body, held, proc_tree, released>>
        /\ UNCHANGED <<registered, creator, own, answer, stale, unmarked>>
    BY <1>2 DEF vars, kernelVars, history
  <2>2. TypeInv'
    BY <2>1 DEF IInv, TypeInv
  <2>3. ASSUME ~stale PROVE Sound'
    BY <2>1, <2>3, NextPid, QuietStep DEF IInv
  <2> QED BY <2>1, <2>2, <2>3, TreeStays
<1>3. CASE Idle
  BY <1>2, <1>3 DEF Idle
<1>4. CASE Server
  BY <1>4, RegisterKeeps, ReleasedKeeps, AnswerKeepsAll, DropKeeps DEF Server
<1>5. ASSUME NEW p \in Pids, NEW path \in Files, spawnv(p, path) PROVE IInv'
  BY <1>5, SpawnKeeps
<1>6. ASSUME NEW p \in Pids, __send_preg(p) PROVE IInv'
  BY <1>6, SendKeeps
<1>7. ASSUME NEW p \in Pids, fork(p) PROVE IInv'
  BY <1>7, ForkKeeps
<1>8. ASSUME NEW p \in Pids, NEW path \in Files, find_process(p, path) PROVE IInv'
  BY <1>8, AskKeeps
<1>9. ASSUME NEW p \in Pids, FindReceive(p) PROVE IInv'
  BY <1>9, ReceiveKeeps
<1>10. ASSUME NEW p \in Pids, NEW q \in Pids, SendOther(p, q) PROVE IInv'
  BY <1>10, OtherKeeps
<1> QED BY <1>2, <1>3, <1>4, <1>5, <1>6, <1>7, <1>8, <1>9, <1>10 DEF Next

\* The inductive invariant always holds.
LEMMA Inductive == Spec => []IInv
  BY InitKeeps, StepKeeps, PTL DEF Spec

\* In the tree of the invariant every process is where RegisteredUnderCreator says.
LEMMA RightPlace == IInv => RegisteredUnderCreator
<1> SUFFICES ASSUME IInv PROVE RegisteredUnderCreator
  OBVIOUS
<1>2. TypeInv /\ TreeInv(proc_tree) /\ proc_tree \in Seq(NodeType)
  BY DEF IInv, TreeInv
<1>3. TypeOK
  <2>1. \A i \in Nodes(proc_tree) : proc_tree[i].refcount \in Mark /\ (proc_tree[i].depth = 0 <=> i = 1)
    BY <1>2, Field DEF TreeInv, Nodes
  <2>2. ~stale => \A p \in Pids : \A i \in 1 .. Len(inbox[p]) : inbox[p][i].kdat \in held
    BY DEF IInv, Sound, MailInv
  <2> QED BY <1>2, <2>1, <2>2 DEF TypeOK, TypeInv
<1> DEFINE place(q) == CHOOSE k \in 1 .. Len(registered) : registered[k] = q
           nodes(p) == {i \in Nodes(proc_tree) : proc_tree[i].pid = p}
           known(p) == creator[p] \in Range(registered) /\ place(creator[p]) < place(p)
<1>4. SUFFICES ASSUME ~stale, NEW p \in Range(registered)
               PROVE  /\ Cardinality(nodes(p)) = 1
                      /\ \A i \in nodes(p) : i # 1 =>
                             proc_tree[ParentOf(i)].pid = IF known(p) THEN creator[p] ELSE INIT
  BY <1>3 DEF RegisteredUnderCreator
<1>5. RegInv /\ PlaceInv(proc_tree)
  BY <1>4 DEF IInv, Sound
<1>6. \A y : y \in Range(registered) <=> \E k \in 1 .. Len(registered) : registered[k] = y
  <2>1. DOMAIN registered = 1 .. Len(registered)
    <3>1. registered \in Seq(Int)
      BY <1>2 DEF TypeInv
    <3> QED BY <3>1, LenProperties
  <2> QED BY <2>1 DEF Range
<1>7. \A k \in 1 .. Len(registered) : place(registered[k]) = k
  <2>1. \A k, j \in 1 .. Len(registered) : registered[k] = registered[j] => k = j
    BY <1>5 DEF RegInv
  <2> QED BY <2>1
<1>8. known(p) <=> Known(p)
  <2>1. ASSUME known(p) PROVE Known(p)
    <3>1. PICK j, k \in 1 .. Len(registered) : registered[j] = creator[p] /\ registered[k] = p
      BY <1>6, <2>1
    <3>2. place(creator[p]) = j /\ place(p) = k
      BY <1>7, <3>1
    <3> QED BY <2>1, <3>1, <3>2 DEF Known
  <2>2. ASSUME Known(p) PROVE known(p)
    <3>1. PICK j, k \in 1 .. Len(registered) : j < k /\ registered[j] = creator[p] /\ registered[k] = p
      BY <2>2 DEF Known
    <3>2. place(creator[p]) = j /\ place(p) = k
      BY <1>7, <3>1
    <3> QED BY <1>6, <3>1, <3>2
  <2> QED BY <2>1, <2>2
<1> HIDE DEF place, known
<1>9. PICK i \in 1 .. Len(proc_tree) : nodes(p) = {i}
  <2>1. PICK i \in 1 .. Len(proc_tree) : proc_tree[i].pid = p
    BY <1>5, <1>6 DEF PlaceInv
  <2>2. \A j \in 1 .. Len(proc_tree) : proc_tree[j].pid = p => j = i
    BY <1>5, <2>1 DEF PlaceInv
  <2>3. nodes(p) = {i}
    BY <2>1, <2>2 DEF Nodes
  <2> QED BY <2>3
<1>10. Cardinality(nodes(p)) = 1
  BY <1>9, FS_Singleton
<1>11. ASSUME i # 1 PROVE proc_tree[ParentOf(i)].pid = IF known(p) THEN creator[p] ELSE INIT
  <2>1. proc_tree[i].pid = p
    BY <1>9
  <2>2. i \in 2 .. Len(proc_tree)
    BY <1>2, <1>11, Field
  <2>3. PICK q \in 1 .. Len(proc_tree) :
            Above(proc_tree, q, i) /\ proc_tree[q].pid = IF Known(p) THEN creator[p] ELSE INIT
    BY <1>5, <2>1, <2>2 DEF PlaceInv
  <2>4. Above(proc_tree, ParentOf(i), i)
    BY <2>3 DEF Above, ParentOf
  <2>5. ParentOf(i) = q
    BY <1>2, <2>3, <2>4, AboveOne
  <2> QED BY <1>8, <2>3, <2>5
<1> QED BY <1>9, <1>10, <1>11

\* Until the server answers a message it had released, proc_add has put every
\* process that spawnv registered into the tree once, below its creator or, if the
\* creator was forked or registered later, below init.
THEOREM RegistersOnce == Spec => []RegisteredUnderCreator
  BY Inductive, RightPlace, PTL

\* Until parse_procreg puts a mark of 0 behind a name, the names in the tree differ,
\* but for those that a mark and another program's path both spell, and those with a
\* mark behind such a path.
THEOREM NamesDiffer == Spec => []NamesDistinct
<1>1. IInv => NamesDistinct
  BY DEF IInv, NameInv, NamesDistinct, Nodes
<1> QED BY <1>1, Inductive, PTL

\* Until the server answers a message it had released, find_process returns a
\* process of the name its caller registered before.
THEOREM FindsTheOwn == Spec => []FindsOwnUntilStale
<1>1. IInv => FindsOwnUntilStale
  <2>1. SUFFICES ASSUME IInv, ~stale, NEW p \in Pids, pc[p] = "user", answer[p].own
                 PROVE  \E i \in Nodes(proc_tree) : /\ proc_tree[i].name = answer[p].name
                                                    /\ proc_tree[i].pid = answer[p].pid
    BY DEF FindsOwnUntilStale, FindsOwn
  <2>2. Right(proc_tree, p, answer[p].pid)
    BY <2>1 DEF IInv, Sound, AnsInv
  <2> QED BY <2>1, <2>2 DEF Right, Node, Nodes
<1> QED BY <1>1, Inductive, PTL
=============================================================================
