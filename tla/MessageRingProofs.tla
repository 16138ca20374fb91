-------------------------- MODULE MessageRingProofs --------------------------
(***************************************************************************)
(* One message ring, for every capacity, every width of the read index and *)
(* every set of messages.  The facts about message_push and message_pop    *)
(* come first; IpcRefinementProofs uses them for the rings of all          *)
(* processes.                                                              *)
(***************************************************************************)
EXTENDS MessageRing, TLAPS

\* What relates a ring to the history of its pushes pu and pops po, as long as
\* no push has found it full (ov).  Up to MSG_MAXCOUNT pops the read index is
\* the number of pops, the write index the number of pushes, wrapped, and the
\* unread messages that were pushed before the write index wrapped lie in the
\* slots of their numbers.
RingInv(b, pu, po, ov) ==
    ~ov =>
        /\ Len(po) <= Len(pu)
        /\ b.count = Len(pu) - Len(po)
        /\ Len(po) <= MSG_MAXCOUNT =>
               /\ b.head = Len(po)
               /\ Len(pu) < MSG_MAXCOUNT => b.tail = Len(pu)
               /\ Len(pu) >= MSG_MAXCOUNT /\ Len(pu) < 2 * MSG_MAXCOUNT =>
                      b.tail = Len(pu) - MSG_MAXCOUNT
               /\ Len(pu) = 2 * MSG_MAXCOUNT => b.tail = 0
               /\ \A s \in Slots : s >= Len(po) /\ s < Len(pu) => b.buffer[s] = pu[s + 1]
        /\ \A i \in 1 .. Len(po) : i <= MSG_MAXCOUNT => po[i] = pu[i]

\* message_push keeps a ring a ring: the write index stays in the array.
LEMMA PushType ==
    ASSUME NEW S, NEW b \in RingType(S), NEW m \in S
    PROVE  message_push(b, m) \in RingType(S)
<1> DEFINE c == message_push(b, m)
<1>1. /\ b.tail \in Slots /\ b.count \in 0 .. MSG_MAXCOUNT /\ b.head \in 0 .. INT16_MAX
      /\ b.buffer \in [Slots -> S \cup {NULL}]
  BY DEF RingType
<1> DEFINE tl == IF b.tail + 1 >= MSG_MAXCOUNT THEN 0 ELSE b.tail + 1
           ct == IF b.count < MSG_MAXCOUNT THEN b.count + 1 ELSE b.count
           bf == [b.buffer EXCEPT ![b.tail] = m]
<1>2. c = [head |-> b.head, tail |-> tl, count |-> ct, buffer |-> bf]
  <2>1. c = [b EXCEPT !.buffer = bf, !.tail = tl, !.count = ct]
    BY DEF message_push
  <2> HIDE DEF c, tl, ct, bf
  <2> QED BY <2>1 DEF RingType
<1>3. tl \in Slots
  BY <1>1, MaxCountAssumption DEF Slots
<1>4. ct \in 0 .. MSG_MAXCOUNT
  BY <1>1, MaxCountAssumption
<1>5. bf \in [Slots -> S \cup {NULL}]
  BY <1>1
<1> HIDE DEF c, tl, ct, bf
<1>6. c \in RingType(S)
  BY <1>1, <1>2, <1>3, <1>4, <1>5 DEF RingType
<1> QED BY <1>6 DEF c

\* After a push there is something to pop.
LEMMA PushCount ==
    ASSUME NEW S, NEW b \in RingType(S), NEW m
    PROVE  message_push(b, m).count > 0
<1>1. message_push(b, m).count = IF b.count < MSG_MAXCOUNT THEN b.count + 1 ELSE b.count
  BY DEF message_push, RingType
<1>2. b.count \in 0 .. MSG_MAXCOUNT
  BY DEF RingType
<1> QED BY <1>1, <1>2, MaxCountAssumption

\* message_pop keeps a ring a ring: the read index stays in an int16_t.
LEMMA PopType ==
    ASSUME NEW S, NEW b \in RingType(S)
    PROVE  AfterPop(b) \in RingType(S)
<1>1. /\ b.tail \in Slots /\ b.count \in 0 .. MSG_MAXCOUNT /\ b.head \in 0 .. INT16_MAX
      /\ b.buffer \in [Slots -> S \cup {NULL}]
  BY DEF RingType
<1>2. CASE b.count = 0
  BY <1>2 DEF AfterPop
<1>3. CASE b.count # 0
  <2>1. AfterPop(b) = [head |-> NextHead(b.head), tail |-> b.tail,
                       count |-> b.count - 1, buffer |-> b.buffer]
    BY <1>3 DEF AfterPop, RingType
  <2>2. NextHead(b.head) \in 0 .. INT16_MAX
    BY <1>1, MaxCountAssumption, Int16Assumption DEF NextHead
  <2>3. b.count - 1 \in 0 .. MSG_MAXCOUNT
    BY <1>1, <1>3, MaxCountAssumption
  <2> QED BY <2>1, <2>2, <2>3, <1>1 DEF RingType
<1> QED BY <1>2, <1>3

\* message_pop returns a message, NULL or the word past the array.
LEMMA PoppedType ==
    ASSUME NEW S, NEW b \in RingType(S)
    PROVE  Popped(b) \subseteq S \cup {NULL, STRAY}
<1>1. ReadSlot(b) \subseteq S \cup {NULL, STRAY}
  <2>1. CASE b.head \in Slots
    BY <2>1 DEF ReadSlot, RingType
  <2>2. CASE b.head \notin Slots
    BY <2>2, MaxCountAssumption DEF ReadSlot, RingType, Slots
  <2> QED BY <2>1, <2>2
<1> QED BY <1>1 DEF Popped

\* message_push preserves RingInv; a push that finds the ring full sets ov.
LEMMA PushRing ==
    ASSUME NEW S, NEW b \in RingType(S), NEW m \in S,
           NEW pu \in Seq(S), NEW po \in Seq(S \cup {NULL, STRAY}),
           NEW ov \in BOOLEAN,
           RingInv(b, pu, po, ov)
    PROVE  RingInv(message_push(b, m), Append(pu, m), po, ov \/ b.count = MSG_MAXCOUNT)
<1> DEFINE c == message_push(b, m)
           qu == Append(pu, m)
<1> SUFFICES ASSUME ~ov, b.count # MSG_MAXCOUNT
             PROVE  RingInv(c, qu, po, FALSE)
  BY DEF RingInv
<1>1. /\ Len(pu) \in Nat /\ Len(po) \in Nat /\ Len(qu) = Len(pu) + 1
      /\ \A i \in 1 .. Len(pu) : qu[i] = pu[i]
      /\ qu[Len(pu) + 1] = m
  OBVIOUS
<1>2. /\ c.head = b.head
      /\ c.tail = IF b.tail + 1 >= MSG_MAXCOUNT THEN 0 ELSE b.tail + 1
      /\ c.count = IF b.count < MSG_MAXCOUNT THEN b.count + 1 ELSE b.count
      /\ c.buffer = [b.buffer EXCEPT ![b.tail] = m]
  BY DEF message_push, RingType
<1>3. /\ b.tail \in Slots /\ b.count \in 0 .. MSG_MAXCOUNT /\ b.head \in 0 .. INT16_MAX
      /\ b.buffer \in [Slots -> S \cup {NULL}]
  BY DEF RingType
<1>4. /\ Len(po) <= Len(pu) /\ b.count = Len(pu) - Len(po)
      /\ \A i \in 1 .. Len(po) : i <= MSG_MAXCOUNT => po[i] = pu[i]
  BY DEF RingInv
<1>5. /\ Len(po) <= Len(qu) /\ c.count = Len(qu) - Len(po)
      /\ \A i \in 1 .. Len(po) : i <= MSG_MAXCOUNT => po[i] = qu[i]
  BY <1>1, <1>2, <1>3, <1>4, MaxCountAssumption
<1>6. ASSUME Len(po) <= MSG_MAXCOUNT
      PROVE  /\ c.head = Len(po)
             /\ Len(qu) < MSG_MAXCOUNT => c.tail = Len(qu)
             /\ Len(qu) >= MSG_MAXCOUNT /\ Len(qu) < 2 * MSG_MAXCOUNT =>
                    c.tail = Len(qu) - MSG_MAXCOUNT
             /\ Len(qu) = 2 * MSG_MAXCOUNT => c.tail = 0
             /\ \A s \in Slots : s >= Len(po) /\ s < Len(qu) => c.buffer[s] = qu[s + 1]
  <2>1. /\ b.head = Len(po)
        /\ Len(pu) < MSG_MAXCOUNT => b.tail = Len(pu)
        /\ Len(pu) >= MSG_MAXCOUNT => b.tail = Len(pu) - MSG_MAXCOUNT
        /\ Len(pu) < 2 * MSG_MAXCOUNT
    BY <1>1, <1>3, <1>4, <1>6, MaxCountAssumption DEF RingInv
  <2>2. \A s \in Slots : s >= Len(po) /\ s < Len(pu) => b.buffer[s] = pu[s + 1]
    BY <1>6 DEF RingInv
  <2>3. /\ c.head = Len(po)
        /\ Len(qu) < MSG_MAXCOUNT => c.tail = Len(qu)
        /\ Len(qu) >= MSG_MAXCOUNT /\ Len(qu) < 2 * MSG_MAXCOUNT =>
               c.tail = Len(qu) - MSG_MAXCOUNT
        /\ Len(qu) = 2 * MSG_MAXCOUNT => c.tail = 0
    BY <2>1, <1>1, <1>2, <1>3, MaxCountAssumption
  <2>4. ASSUME NEW s \in Slots, s >= Len(po), s < Len(qu)
        PROVE  c.buffer[s] = qu[s + 1]
    <3>1. CASE s = Len(pu)
      BY <3>1, <2>1, <1>1, <1>2, <1>3, MaxCountAssumption DEF Slots
    <3>2. CASE s < Len(pu)
      <4>1. b.tail # s
        <5>1. b.count < MSG_MAXCOUNT
          BY <1>3, MaxCountAssumption
        <5>2. CASE Len(pu) < MSG_MAXCOUNT
          BY <5>2, <3>2, <2>1, <1>1
        <5>3. CASE Len(pu) >= MSG_MAXCOUNT
          <6>1. Len(pu) - MSG_MAXCOUNT < Len(po)
            BY <5>1, <1>1, <1>4, MaxCountAssumption
          <6> QED BY <6>1, <5>3, <2>4, <2>1, <1>1, MaxCountAssumption DEF Slots
        <5> QED BY <5>2, <5>3, <1>1, MaxCountAssumption
      <4>2. c.buffer[s] = pu[s + 1]
        BY <4>1, <3>2, <2>4, <2>2, <1>2, <1>3
      <4> QED BY <4>2, <3>2, <1>1 DEF Slots
    <3> QED BY <3>1, <3>2, <2>4, <1>1 DEF Slots
  <2> QED BY <2>3, <2>4
<1> QED BY <1>5, <1>6 DEF RingInv

\* message_pop preserves RingInv, whichever of its possible results it returns.
LEMMA PopRing ==
    ASSUME NEW S, NEW b \in RingType(S), b.count # 0,
           NEW m \in Popped(b),
           NEW pu \in Seq(S), NEW po \in Seq(S \cup {NULL, STRAY}),
           NEW ov \in BOOLEAN,
           RingInv(b, pu, po, ov)
    PROVE  RingInv(AfterPop(b), pu, Append(po, m), ov)
<1> DEFINE c == AfterPop(b)
           qo == Append(po, m)
<1> SUFFICES ASSUME ~ov
             PROVE  RingInv(c, pu, qo, FALSE)
  BY DEF RingInv
<1>1. m \in S \cup {NULL, STRAY}
  BY PoppedType
<1>2. /\ Len(pu) \in Nat /\ Len(po) \in Nat /\ Len(qo) = Len(po) + 1
      /\ \A i \in 1 .. Len(po) : qo[i] = po[i]
      /\ qo[Len(po) + 1] = m
  BY <1>1
<1>3. /\ c.head = NextHead(b.head) /\ c.tail = b.tail
      /\ c.count = b.count - 1 /\ c.buffer = b.buffer
  BY DEF AfterPop, RingType
<1>4. /\ b.tail \in Slots /\ b.count \in 0 .. MSG_MAXCOUNT /\ b.head \in 0 .. INT16_MAX
      /\ b.buffer \in [Slots -> S \cup {NULL}]
  BY DEF RingType
<1>5. /\ Len(po) <= Len(pu) /\ b.count = Len(pu) - Len(po)
      /\ \A i \in 1 .. Len(po) : i <= MSG_MAXCOUNT => po[i] = pu[i]
  BY DEF RingInv
<1>6. Len(qo) <= Len(pu) /\ c.count = Len(pu) - Len(qo)
  BY <1>2, <1>3, <1>4, <1>5
<1>7. CASE Len(po) >= MSG_MAXCOUNT
  <2>1. ~ (Len(qo) <= MSG_MAXCOUNT)
    BY <1>7, <1>2, MaxCountAssumption
  <2>2. \A i \in 1 .. Len(qo) : i <= MSG_MAXCOUNT => qo[i] = pu[i]
    BY <1>7, <1>2, <1>5, MaxCountAssumption
  <2> QED BY <2>1, <2>2, <1>6 DEF RingInv
<1>8. CASE Len(po) < MSG_MAXCOUNT
  <2>1. /\ b.head = Len(po)
        /\ Len(pu) < MSG_MAXCOUNT => b.tail = Len(pu)
        /\ Len(pu) >= MSG_MAXCOUNT /\ Len(pu) < 2 * MSG_MAXCOUNT =>
               b.tail = Len(pu) - MSG_MAXCOUNT
        /\ Len(pu) = 2 * MSG_MAXCOUNT => b.tail = 0
        /\ \A s \in Slots : s >= Len(po) /\ s < Len(pu) => b.buffer[s] = pu[s + 1]
    BY <1>8, <1>2, MaxCountAssumption DEF RingInv
  <2>2. b.head \in Slots
    BY <2>1, <1>8, <1>2, MaxCountAssumption DEF Slots
  <2>3. m = b.buffer[b.head]
    <3>1. ReadSlot(b) = {b.buffer[b.head]}
      BY <2>2, MaxCountAssumption DEF ReadSlot, Slots
    <3> QED BY <3>1 DEF Popped
  <2>4. m = pu[Len(po) + 1]
    BY <2>1, <2>2, <2>3, <1>2, <1>4, <1>5
  <2>5. \A i \in 1 .. Len(qo) : i <= MSG_MAXCOUNT => qo[i] = pu[i]
    BY <2>4, <1>2, <1>5
  <2>6. c.head = Len(qo)
    BY <2>1, <1>8, <1>2, <1>3, MaxCountAssumption, Int16Assumption DEF NextHead
  <2>7. \A s \in Slots : s >= Len(qo) /\ s < Len(pu) => c.buffer[s] = pu[s + 1]
    BY <2>1, <1>2, <1>3 DEF Slots
  <2>8. /\ Len(pu) < MSG_MAXCOUNT => c.tail = Len(pu)
        /\ Len(pu) >= MSG_MAXCOUNT /\ Len(pu) < 2 * MSG_MAXCOUNT =>
               c.tail = Len(pu) - MSG_MAXCOUNT
        /\ Len(pu) = 2 * MSG_MAXCOUNT => c.tail = 0
    BY <2>1, <1>3
  <2> HIDE DEF c, qo
  <2> QED BY <2>5, <2>6, <2>7, <2>8, <1>6 DEF RingInv
<1> HIDE DEF c, qo
<1>9. Len(po) >= MSG_MAXCOUNT \/ Len(po) < MSG_MAXCOUNT
  BY <1>2, MaxCountAssumption
<1> QED BY <1>7, <1>8, <1>9

\* The first MSG_MAXCOUNT pops of a ring that was never overrun return messages.
LEMMA PopMessage ==
    ASSUME NEW S, NEW b \in RingType(S), b.count # 0,
           NEW m \in Popped(b),
           NEW pu \in Seq(S), NEW po \in Seq(S \cup {NULL, STRAY}),
           RingInv(b, pu, po, FALSE), Len(po) < MSG_MAXCOUNT
    PROVE  m \in S
<1>1. Len(po) \in Nat /\ Len(pu) \in Nat /\ b.count \in 0 .. MSG_MAXCOUNT
  BY DEF RingType
<1>2. b.head = Len(po) /\ Len(po) < Len(pu)
      /\ \A s \in Slots : s >= Len(po) /\ s < Len(pu) => b.buffer[s] = pu[s + 1]
  BY <1>1, MaxCountAssumption DEF RingInv
<1>3. b.head \in Slots
  BY <1>1, <1>2, MaxCountAssumption DEF Slots
<1>4. ReadSlot(b) = {b.buffer[b.head]}
  BY <1>3, MaxCountAssumption DEF ReadSlot, Slots
<1>5. m = pu[Len(po) + 1]
  BY <1>1, <1>2, <1>3, <1>4 DEF Popped
<1>6. Len(po) + 1 \in 1 .. Len(pu)
  BY <1>1, <1>2
<1> QED BY <1>5, <1>6

-----------------------------------------------------------------------------
(* The ring on its own.                                                    *)

\* The inductive invariant: the properties say nothing of the slots, which is
\* where the order of the messages is kept.
IInv == TypeOK /\ RingInv(buf, pushed, popped, overrun)

LEMMA InitIInv == Init => IInv
<1> SUFFICES ASSUME Init PROVE IInv
  OBVIOUS
<1>1. buf = [head |-> 0, tail |-> 0, count |-> 0, buffer |-> [s \in Slots |-> NULL]]
  BY DEF Init, EmptyBuffer
<1>2. pushed = <<>> /\ popped = <<>> /\ overrun = FALSE
  BY DEF Init
<1>3. TypeOK
  <2>1. 0 \in Slots /\ 0 \in 0 .. INT16_MAX /\ 0 \in 0 .. MSG_MAXCOUNT
    BY MaxCountAssumption, Int16Assumption DEF Slots
  <2>2. buf \in RingType(Message)
    BY <2>1, <1>1 DEF RingType
  <2>3. pushed \in Seq(Message) /\ popped \in Seq(Message \cup {NULL, STRAY})
    BY <1>2
  <2>4. overrun \in BOOLEAN
    BY <1>2
  <2> QED BY <2>2, <2>3, <2>4, Zenon DEF TypeOK
<1>4. RingInv(buf, pushed, popped, overrun)
  BY <1>1, <1>2, MaxCountAssumption DEF RingInv, Slots
<1> QED BY <1>3, <1>4 DEF IInv

LEMMA NextIInv == IInv /\ [Next]_vars => IInv'
<1> SUFFICES ASSUME IInv, [Next]_vars PROVE IInv'
  OBVIOUS
<1> USE DEF IInv
<1>1. CASE BoundedPush
  <2>1. PICK m \in Message : Push(m)
    BY <1>1 DEF BoundedPush
  <2>2. buf' \in RingType(Message)
    BY <2>1, PushType DEF Push, TypeOK
  <2>3. TypeOK'
    BY <2>1, <2>2 DEF Push, TypeOK
  <2>4. RingInv(buf, pushed, popped, overrun)'
    BY <2>1, PushRing DEF Push, TypeOK
  <2> QED BY <2>3, <2>4
<1>2. CASE Pop
  <2>1. PICK m \in Popped(buf) : popped' = Append(popped, m)
    BY <1>2 DEF Pop
  <2>2. buf' \in RingType(Message)
    BY <1>2, PopType DEF Pop, TypeOK
  <2>3. m \in Message \cup {NULL, STRAY}
    BY PoppedType DEF TypeOK
  <2>4. TypeOK'
    BY <1>2, <2>1, <2>2, <2>3 DEF Pop, TypeOK
  <2>5. RingInv(buf, pushed, popped, overrun)'
    BY <1>2, <2>1, PopRing DEF Pop, TypeOK
  <2> QED BY <2>4, <2>5
<1>3. CASE UNCHANGED vars
  BY <1>3 DEF vars, TypeOK, RingInv
<1> QED BY <1>1, <1>2, <1>3 DEF Next

\* The write index and the count of a ring never leave the array, and the read
\* index never leaves an int16_t.
THEOREM RingTypeCorrect == Spec => []TypeOK
<1>1. IInv => TypeOK
  BY DEF IInv
<1> QED BY InitIInv, NextIInv, <1>1, PTL DEF Spec

\* Until a push finds the ring full, the first MSG_MAXCOUNT pops return the
\* pushed messages in order.
THEOREM RingFifo == Spec => []FifoUntilWrap
<1>1. IInv => FifoUntilWrap
  <2> SUFFICES ASSUME IInv, ~overrun, NEW i \in 1 .. Len(popped), i <= MSG_MAXCOUNT
               PROVE  i <= Len(pushed) /\ popped[i] = pushed[i]
    BY DEF FifoUntilWrap
  <2>1. Len(popped) \in Nat /\ Len(pushed) \in Nat
    BY DEF IInv, TypeOK
  <2> QED BY <2>1 DEF IInv, RingInv
<1> QED BY InitIInv, NextIInv, <1>1, PTL DEF Spec

\* Until a push finds the ring full, count is the number of messages pushed
\* and not popped, also after the read index has left the array.
THEOREM RingCount == Spec => []CountIsBacklog
<1>1. IInv => CountIsBacklog
  BY DEF IInv, RingInv, CountIsBacklog
<1> QED BY InitIInv, NextIInv, <1>1, PTL DEF Spec

-----------------------------------------------------------------------------
(* The ring as a queue.                                                    *)

\* The slots of less than two rounds of the array.
LEMMA TwoRounds ==
    ASSUME NEW x \in 0 .. 2 * MSG_MAXCOUNT - 1
    PROVE  x % MSG_MAXCOUNT = IF x < MSG_MAXCOUNT THEN x ELSE x - MSG_MAXCOUNT
<1>1. x \in Int /\ MSG_MAXCOUNT \in Nat \ {0}
  BY MaxCountAssumption
<1> DEFINE q == x \div MSG_MAXCOUNT
           r == x % MSG_MAXCOUNT
<1>2. q \in Int /\ r \in 0 .. MSG_MAXCOUNT - 1 /\ x = MSG_MAXCOUNT * q + r
  BY <1>1
<1> HIDE DEF q, r
<1>3. q < 2
  <2> SUFFICES ASSUME q >= 2 PROVE FALSE
    BY <1>2
  <2>1. MSG_MAXCOUNT * (q - 2) >= 0
    BY <1>1, <1>2
  <2> QED BY <1>1, <1>2, <2>1
<1>4. q >= 0
  <2> SUFFICES ASSUME q <= -1 PROVE FALSE
    BY <1>2
  <2>1. MSG_MAXCOUNT * (-1 - q) >= 0
    BY <1>1, <1>2
  <2> QED BY <1>1, <1>2, <2>1
<1>5. q = 0 \/ q = 1
  BY <1>2, <1>3, <1>4
<1> QED BY <1>1, <1>2, <1>5 DEF r

\* A function on 1 .. n is a sequence of length n.
LEMMA FiniteSeq ==
    ASSUME NEW S, NEW n \in Nat, NEW f \in [1 .. n -> S]
    PROVE  f \in Seq(S) /\ Len(f) = n
  OBVIOUS

\* Where a ring has its next message and room for another, and what it holds.
LEMMA RingState ==
    ASSUME NEW b \in RingType(Message), NEW pu \in Seq(Message),
           NEW po \in Seq(Message \cup {NULL, STRAY}),
           RingInv(b, pu, po, FALSE), Len(po) <= MSG_MAXCOUNT,
           NEW q, q = [i \in 1 .. b.count |-> b.buffer[(b.head + i - 1) % MSG_MAXCOUNT]]
    PROVE  /\ b.head = Len(po) /\ b.head \in Nat /\ b.count \in 0 .. MSG_MAXCOUNT
           /\ b.count < MSG_MAXCOUNT => b.tail = (b.head + b.count) % MSG_MAXCOUNT
           /\ q \in Seq(Message \cup {NULL}) /\ Len(q) = b.count
           /\ \A i \in 1 .. b.count :
                 /\ (b.head + i - 1) % MSG_MAXCOUNT \in Slots
                 /\ q[i] = b.buffer[(b.head + i - 1) % MSG_MAXCOUNT]
<1>1. /\ b.count \in 0 .. MSG_MAXCOUNT /\ Len(po) \in Nat /\ Len(pu) \in Nat
      /\ b.buffer \in [Slots -> Message \cup {NULL}]
  BY DEF RingType
<1>2. /\ b.head = Len(po) /\ b.count = Len(pu) - Len(po)
      /\ Len(pu) < MSG_MAXCOUNT => b.tail = Len(pu)
      /\ Len(pu) >= MSG_MAXCOUNT /\ Len(pu) < 2 * MSG_MAXCOUNT =>
             b.tail = Len(pu) - MSG_MAXCOUNT
  BY DEF RingInv
<1>3. MSG_MAXCOUNT \in Nat \ {0}
  BY MaxCountAssumption
<1>4. b.count < MSG_MAXCOUNT => b.tail = (b.head + b.count) % MSG_MAXCOUNT
  <2> SUFFICES ASSUME b.count < MSG_MAXCOUNT
               PROVE  b.tail = (b.head + b.count) % MSG_MAXCOUNT
    OBVIOUS
  <2>1. b.head + b.count \in 0 .. 2 * MSG_MAXCOUNT - 1 /\ b.head + b.count = Len(pu)
    BY <1>1, <1>2, <1>3
  <2> DEFINE x == b.head + b.count
  <2> HIDE DEF x
  <2>2. x % MSG_MAXCOUNT = IF x < MSG_MAXCOUNT THEN x ELSE x - MSG_MAXCOUNT
    BY <2>1, TwoRounds DEF x
  <2>3. x = Len(pu) /\ x < 2 * MSG_MAXCOUNT
    BY <1>3, <2>1 DEF x
  <2>4. x % MSG_MAXCOUNT = b.tail
    BY <1>1, <1>2, <1>3, <2>2, <2>3
  <2> QED BY <2>4 DEF x
<1>5. ASSUME NEW i \in 1 .. b.count
      PROVE  (b.head + i - 1) % MSG_MAXCOUNT \in Slots
  <2>1. b.head + i - 1 \in 0 .. 2 * MSG_MAXCOUNT - 1
    BY <1>1, <1>2, <1>3
  <2> QED BY <1>3, <2>1, TwoRounds DEF Slots
<1>6. \A i \in 1 .. b.count : b.buffer[(b.head + i - 1) % MSG_MAXCOUNT] \in Message \cup {NULL}
  BY <1>1, <1>5
<1>7. q \in Seq(Message \cup {NULL}) /\ Len(q) = b.count
  <2>1. q \in [1 .. b.count -> Message \cup {NULL}]
    BY <1>6
  <2>2. b.count \in Nat
    BY <1>1
  <2> QED BY <2>1, <2>2, FiniteSeq
<1> QED BY <1>1, <1>2, <1>4, <1>5, <1>7

\* A push that finds room enters the queue.
LEMMA PushEnqueues ==
    ASSUME IInv, IInv', NEW m \in Message, Push(m), ~overrun', Len(popped') <= MSG_MAXCOUNT
    PROVE  Queue!Enqueue(m)
<1>1. /\ ~overrun /\ buf.count # MSG_MAXCOUNT /\ popped' = popped
      /\ Len(popped) <= MSG_MAXCOUNT /\ buf' = message_push(buf, m)
  BY DEF Push, IInv, TypeOK
<1>2. /\ buf.head = Len(popped) /\ buf.head \in Nat /\ buf.count \in 0 .. MSG_MAXCOUNT
      /\ buf.tail = (buf.head + buf.count) % MSG_MAXCOUNT
      /\ Pending \in Seq(Message \cup {NULL}) /\ Len(Pending) = buf.count
      /\ \A i \in 1 .. buf.count :
            /\ (buf.head + i - 1) % MSG_MAXCOUNT \in Slots
            /\ Pending[i] = buf.buffer[(buf.head + i - 1) % MSG_MAXCOUNT]
  <2>1. RingInv(buf, pushed, popped, FALSE)
    BY <1>1 DEF IInv, RingInv
  <2>2. /\ buf.head = Len(popped) /\ buf.head \in Nat /\ buf.count \in 0 .. MSG_MAXCOUNT
        /\ buf.count < MSG_MAXCOUNT => buf.tail = (buf.head + buf.count) % MSG_MAXCOUNT
        /\ Pending \in Seq(Message \cup {NULL}) /\ Len(Pending) = buf.count
        /\ \A i \in 1 .. buf.count :
              /\ (buf.head + i - 1) % MSG_MAXCOUNT \in Slots
              /\ Pending[i] = buf.buffer[(buf.head + i - 1) % MSG_MAXCOUNT]
    BY <1>1, <2>1, RingState DEF IInv, TypeOK, Pending
  <2>3. buf.count < MSG_MAXCOUNT
    BY <1>1, <2>2, MaxCountAssumption
  <2> QED BY <2>2, <2>3
<1>3. /\ buf'.head = buf.head /\ buf'.count = buf.count + 1
      /\ buf'.buffer = [buf.buffer EXCEPT ![buf.tail] = m]
      /\ buf.buffer \in [Slots -> Message \cup {NULL}] /\ buf.tail \in Slots
  <2>1. buf.count \in 0 .. MSG_MAXCOUNT /\ buf.count < MSG_MAXCOUNT
    BY <1>1, <1>2, MaxCountAssumption
  <2> QED BY <1>1, <2>1 DEF message_push, IInv, TypeOK, RingType
<1>4. /\ Pending' \in Seq(Message \cup {NULL}) /\ Len(Pending') = buf.count + 1
      /\ \A i \in 1 .. buf.count + 1 :
            Pending'[i] = buf'.buffer[(buf.head + i - 1) % MSG_MAXCOUNT]
  <2>1. /\ Pending' \in Seq(Message \cup {NULL}) /\ Len(Pending') = buf'.count
        /\ \A i \in 1 .. buf'.count :
              Pending'[i] = buf'.buffer[(buf'.head + i - 1) % MSG_MAXCOUNT]
    <3>1. RingInv(buf', pushed', popped', FALSE)
      BY DEF IInv, RingInv
    <3> QED BY <3>1, RingState DEF IInv, TypeOK, Pending
  <2> QED BY <1>3, <2>1
<1>5. Pending'[buf.count + 1] = m
  BY <1>2, <1>3, <1>4, SMTT(30)
<1>6. ASSUME NEW i \in 1 .. buf.count PROVE Pending'[i] = Pending[i]
  <2> DEFINE a == buf.head + i - 1
             b == buf.head + buf.count
  <2>1. /\ a \in 0 .. 2 * MSG_MAXCOUNT - 1 /\ b \in 0 .. 2 * MSG_MAXCOUNT - 1
        /\ a < b /\ b - a < MSG_MAXCOUNT
    <3>1. /\ buf.head \in Nat /\ buf.head <= MSG_MAXCOUNT
          /\ buf.count \in Nat /\ buf.count < MSG_MAXCOUNT /\ MSG_MAXCOUNT \in Nat
      BY <1>1, <1>2, MaxCountAssumption
    <3> QED BY <3>1, SMTT(30)
  <2>2. b % MSG_MAXCOUNT = buf.tail
    BY <1>2
  <2>3. a % MSG_MAXCOUNT \in Slots /\ Pending[i] = buf.buffer[a % MSG_MAXCOUNT]
    BY <1>2
  <2>4. Pending'[i] = buf'.buffer[a % MSG_MAXCOUNT]
    <3>1. i \in 1 .. buf.count + 1
      BY <1>2
    <3> QED BY <1>4, <3>1
  <2> HIDE DEF a, b
  <2>5. a % MSG_MAXCOUNT # b % MSG_MAXCOUNT
    <3>1. a % MSG_MAXCOUNT = IF a < MSG_MAXCOUNT THEN a ELSE a - MSG_MAXCOUNT
      BY <2>1, TwoRounds
    <3>2. b % MSG_MAXCOUNT = IF b < MSG_MAXCOUNT THEN b ELSE b - MSG_MAXCOUNT
      BY <2>1, TwoRounds
    <3> QED BY <2>1, <3>1, <3>2, MaxCountAssumption
  <2> QED BY <1>3, <2>2, <2>3, <2>4, <2>5
<1>7. Pending' = Append(Pending, m)
  BY <1>2, <1>4, <1>5, <1>6
<1>8. Len(Pending) < MSG_MAXCOUNT
  BY <1>1, <1>2, MaxCountAssumption
<1> QED BY <1>1, <1>7, <1>8 DEF Queue!Enqueue

\* A pop inside the array leaves the queue.
LEMMA PopDequeues ==
    ASSUME IInv, IInv', Pop, ~overrun', Len(popped') <= MSG_MAXCOUNT
    PROVE  Queue!Dequeue
<1>1. ~overrun /\ buf.count # 0 /\ buf' = AfterPop(buf)
  BY DEF Pop, IInv, TypeOK
<1>2. PICK m \in Popped(buf) : popped' = Append(popped, m)
  BY DEF Pop
<1>3. Len(popped) \in Nat /\ Len(popped') = Len(popped) + 1
  BY <1>2 DEF IInv, TypeOK
<1>4. Len(popped) < MSG_MAXCOUNT
  BY <1>3, MaxCountAssumption
<1>5. /\ buf.head = Len(popped) /\ buf.head \in Nat /\ buf.count \in 0 .. MSG_MAXCOUNT
      /\ Pending \in Seq(Message \cup {NULL}) /\ Len(Pending) = buf.count
      /\ \A i \in 1 .. buf.count :
            Pending[i] = buf.buffer[(buf.head + i - 1) % MSG_MAXCOUNT]
  <2>1. RingInv(buf, pushed, popped, FALSE)
    BY <1>1 DEF IInv, RingInv
  <2>2. Len(popped) <= MSG_MAXCOUNT
    BY <1>3, <1>4, MaxCountAssumption
  <2> QED BY <2>1, <2>2, RingState DEF IInv, TypeOK, Pending
<1>6. buf'.head = buf.head + 1 /\ buf'.count = buf.count - 1 /\ buf'.buffer = buf.buffer
  BY <1>1, <1>4, <1>5, Int16Assumption, MaxCountAssumption DEF AfterPop, NextHead, IInv, TypeOK, RingType
<1>7. /\ Pending' \in Seq(Message \cup {NULL}) /\ Len(Pending') = buf'.count
      /\ \A i \in 1 .. buf'.count :
            Pending'[i] = buf'.buffer[(buf'.head + i - 1) % MSG_MAXCOUNT]
  <2>1. RingInv(buf', pushed', popped', FALSE)
    BY DEF IInv, RingInv
  <2> QED BY <2>1, RingState DEF IInv, TypeOK, Pending
<1>8. ASSUME NEW i \in 1 .. buf.count - 1 PROVE Pending'[i] = Pending[i + 1]
  <2>1. buf'.head + i - 1 = buf.head + (i + 1) - 1
    BY <1>5, <1>6
  <2>2. i + 1 \in 1 .. buf.count
    BY <1>5
  <2> QED BY <1>5, <1>6, <1>7, <2>1, <2>2
<1>9. Pending # <<>> /\ Pending' = Tail(Pending)
  BY <1>1, <1>5, <1>6, <1>7, <1>8
<1>10. m = Head(Pending)
  <2>1. buf.head \in Slots
    BY <1>4, <1>5, MaxCountAssumption DEF Slots
  <2>2. m = buf.buffer[buf.head]
    <3>1. ReadSlot(buf) = {buf.buffer[buf.head]}
      BY <1>4, <1>5, <2>1, MaxCountAssumption DEF ReadSlot
    <3> QED BY <1>1, <3>1 DEF Popped
  <2>3. buf.head % MSG_MAXCOUNT = buf.head
    BY <1>4, <1>5, TwoRounds, MaxCountAssumption
  <2>4. Pending[1] = buf.buffer[buf.head]
    BY <1>1, <1>5, <2>3
  <2> QED BY <1>1, <1>5, <2>2, <2>4
<1> QED BY <1>2, <1>9, <1>10 DEF Queue!Dequeue

\* message_push and message_pop are the operations of a bounded queue until a push
\* finds the ring full or a pop leaves the array, whatever the capacity.
THEOREM RingImplementsFifo == Spec => FifoStepsUntilWrap
<1> DEFINE A == ~overrun' /\ Len(popped') <= MSG_MAXCOUNT => [Queue!Next]_(Queue!vars)
<1>1. Init => Queue!Init
  BY DEF Init, EmptyBuffer, Queue!Init, Pending
<1>2. IInv /\ IInv' /\ [Next]_vars => [A]_vars
  <2> SUFFICES ASSUME IInv, IInv', Next, ~overrun', Len(popped') <= MSG_MAXCOUNT
               PROVE  [Queue!Next]_(Queue!vars)
    OBVIOUS
  <2>1. CASE BoundedPush
    BY <2>1, PushEnqueues DEF BoundedPush, Queue!Next
  <2>2. CASE Pop
    BY <2>2, PopDequeues DEF Queue!Next
  <2> QED BY <2>1, <2>2 DEF Next
<1> QED BY InitIInv, NextIInv, <1>1, <1>2, PTL DEF Spec, FifoStepsUntilWrap

=============================================================================
