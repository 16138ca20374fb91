------------------------- MODULE LinkedListsProofs -------------------------
(***************************************************************************)
(* Three parts that hang on linked lists.                                  *)
(*                                                                         *)
(* The loop of timer_interrupt never follows a null pointer and calls      *)
(* tasking_tick and the clock before it on time, although tasks leave it   *)
(* and come back to it, for any number of tasks and of clocks and any      *)
(* periods of which that of one_tick is not the shorter.  The clocks are   *)
(* a sequence there; that the linked list which holds them, as the tasks   *)
(* and the processes, spells out a sequence is proved of module List.      *)
(*                                                                         *)
(* The headers of the user heap are linked by code of their own: until     *)
(* free merges bins, they are one row of bins without gaps or overlaps.    *)
(***************************************************************************)
EXTENDS TimerHooks, List, UserHeap, FiniteSetTheorems, SequenceTheorems, WellFoundedInduction, TLAPS

Clock     == [ms : Nat \ {0}, ms_left : Int]
TimerType == [clock_hooks : Seq(Clock), count : Nat, timer_shortest : Nat,
              shortest_clock : Nat, hook_node : Nat, hook_clock : Nat]
LoopState == [timer : TimerType, elapsed : [1 .. MAXCLOCKS -> Nat], stop : {"no", "switch"}]

\* The clocks of u: the first two are there from the start.
Hooks(u) ==
    /\ Len(u.clock_hooks) \in TICK .. MAXCLOCKS
    /\ u.clock_hooks[1].ms = ONE_TICK /\ u.clock_hooks[TICK].ms = TIME_SLICE_MAX

\* Tasks left inside the loop, each of which will add a period when it goes on.
Left(places) == {t \in Task : places[t] = "hook"}

\* With d and e the time since one_tick and tasking_tick were called, k tasks left
\* in the loop and u at rest, no hook is called late.  As long as there are no more
\* clocks, or hook_clock is that of tasking_tick and hook_node is null, every task
\* that goes on adds its period to ms_left of tasking_tick.  After a switch only
\* the first does, and ms_left is not positive.
OnTime(u, d, e, k) ==
    LET m == u.clock_hooks[TICK].ms_left IN
    /\ u.clock_hooks[1].ms_left + d <= ONE_TICK /\ d < ONE_TICK
    /\ m + e <= TIME_SLICE_MAX /\ e < TIME_SLICE_MAX
    /\ u.hook_node \in {NULL, TICK} /\ u.hook_clock \in {NULL} \cup TICK .. Len(u.clock_hooks)
    /\ u.hook_node = TICK => u.hook_clock = TICK /\ m <= 0 /\ e = 0
    /\ u.hook_clock = NULL => k = 0
    /\ Len(u.clock_hooks) = TICK => u.count >= TIME_SLICE_MAX /\ u.timer_shortest >= TIME_SLICE_MAX
    /\ Len(u.clock_hooks) = TICK \/ (u.hook_clock = TICK /\ u.hook_node = NULL) =>
           m + e + k * TIME_SLICE_MAX <= TIME_SLICE_MAX

IInv ==
    /\ ntasks \in Task /\ current_task \in 1 .. ntasks
    /\ blocked \in [Task -> BOOLEAN] /\ ~blocked[1]
    /\ at \in [Task -> {"user", "hook", "syscall", "new"}]
    /\ \A t \in Task : at[t] = "user" <=> t = current_task
    /\ passed \in [Task -> Nat]
    /\ fault = FALSE
    /\ timer \in TimerType /\ Hooks(timer)
    /\ elapsed \in [1 .. MAXCLOCKS -> Nat]
    /\ OnTime(timer, elapsed[1], elapsed[TICK], Cardinality(Left(at)))

-----------------------------------------------------------------------------
(* Numbers.                                                                *)

\* A set of naturals that is not empty has a least element.
LEMMA LeastNat ==
    ASSUME NEW S \in SUBSET Nat, S # {}
    PROVE  \E x \in S : \A y \in S : x <= y
<1> DEFINE R == OpToRel(<, Nat)
<1>1. IsWellFoundedOn(R, Nat)
  BY NatLessThanWellFounded
<1> HIDE DEF R
<1>2. \E x \in S : \A y \in S : ~ (<<y, x>> \in R)
  BY <1>1, WFMin, Zenon
<1>3. PICK x \in S : \A y \in S : ~ (<<y, x>> \in R)
  BY <1>2
<1>4. \A y \in S : y < x => <<y, x>> \in R
  BY DEF R, OpToRel
<1>5. \A y \in S : ~(y < x)
  BY <1>3, <1>4
<1>6. \A y \in S : y \in Nat
  OBVIOUS
<1>7. \A y \in S : x <= y
  BY <1>5, <1>6
<1> QED BY <1>7

\* What holds at 0 and is passed on holds up to n.
LEMMA Upto ==
    ASSUME NEW n \in Nat, NEW S, 0 \in S,
           \A k \in 1 .. n : k - 1 \in S => k \in S
    PROVE  0 .. n \subseteq S
<1> DEFINE Bad == {k \in 0 .. n : k \notin S}
<1>1. Bad \in SUBSET Nat
  OBVIOUS
<1> SUFFICES ASSUME Bad # {} PROVE FALSE
  OBVIOUS
<1>2. PICK x \in Bad : \A y \in Bad : x <= y
  BY <1>1, LeastNat
<1>3. x \in 1 .. n /\ x - 1 \in 0 .. n /\ ~(x <= x - 1)
  BY <1>2
<1>4. x - 1 \in S
  BY <1>2, <1>3
<1> QED BY <1>2, <1>3, <1>4

-----------------------------------------------------------------------------
(* The loop.                                                               *)

\* One turn, unless the loop has ended, and the run of the loop.
OneTurn(v, ms, switches) ==
    IF v.stop # "no" \/ v.timer.hook_node = NULL THEN v ELSE Turn(v, ms, switches)

LoopRun(f, s, ms, switches, n) ==
    f = [k \in 0 .. n |-> IF k = 0 THEN s ELSE OneTurn(f[k - 1], ms, switches)]

\* The recursive function of Loop exists, so that it has its values.
LEMMA LoopRuns ==
    ASSUME NEW s, NEW ms, NEW switches
    PROVE  \E f : LoopRun(f, s, ms, switches, MAXCLOCKS) /\ Loop(s, ms, switches) = f[MAXCLOCKS]
<1> DEFINE Good == {l \in Nat : \E f : LoopRun(f, s, ms, switches, l)}
<1>1. 0 \in Good
  <2> DEFINE f == [k \in 0 .. 0 |-> s]
  <2>1. LoopRun(f, s, ms, switches, 0)
    BY DEF LoopRun
  <2> QED BY <2>1
<1>2. ASSUME NEW l \in 1 .. MAXCLOCKS, l - 1 \in Good PROVE l \in Good
  <2>1. PICK f : LoopRun(f, s, ms, switches, l - 1)
    BY <1>2
  <2> DEFINE g == [k \in 0 .. l |-> IF k \in 0 .. l - 1 THEN f[k] ELSE OneTurn(f[l - 1], ms, switches)]
  <2>2. l \in Nat \ {0} /\ l - 1 \in 0 .. l - 1
    BY BoundAssumption
  <2>3. \A k \in 0 .. l - 1 : g[k] = f[k]
    BY <2>2
  <2>4. \A k \in 0 .. l : g[k] = IF k = 0 THEN s ELSE OneTurn(g[k - 1], ms, switches)
    <3> TAKE k \in 0 .. l
    <3>1. CASE k = l
      BY <2>2, <2>3, <3>1
    <3>2. CASE k \in 0 .. l - 1
      <4>1. f[k] = IF k = 0 THEN s ELSE OneTurn(f[k - 1], ms, switches)
        BY <2>1, <3>2 DEF LoopRun
      <4>2. k # 0 => k - 1 \in 0 .. l - 1
        BY <2>2, <3>2
      <4> HIDE DEF g
      <4> QED BY <2>3, <3>2, <4>1, <4>2
    <3> QED BY <2>2, <3>1, <3>2
  <2>5. LoopRun(g, s, ms, switches, l)
    BY <2>4 DEF LoopRun
  <2> QED BY <2>2, <2>5
<1>3. MAXCLOCKS \in Good
  <2> HIDE DEF Good
  <2>1. 0 .. MAXCLOCKS \subseteq Good
    BY <1>1, <1>2, Upto, BoundAssumption
  <2> QED BY <2>1, BoundAssumption
<1> DEFINE f == CHOOSE g : LoopRun(g, s, ms, switches, MAXCLOCKS)
<1>4. LoopRun(f, s, ms, switches, MAXCLOCKS)
  BY <1>3
<1>5. Loop(s, ms, switches) = f[MAXCLOCKS]
  BY DEF Loop, OneTurn, LoopRun
<1> QED BY <1>4, <1>5

\* Places in the list.
LEMMA NodeFact == MAXCLOCKS \in Nat /\ MAXCLOCKS >= 2 /\ TICK = 2 /\ NULL = 0
BY BoundAssumption DEF TICK, NULL

\* The clocks after clock i was changed to c.
LEMMA ClockSet ==
    ASSUME NEW q \in Seq(Clock), NEW i \in 1 .. Len(q), NEW c \in Clock
    PROVE  /\ [q EXCEPT ![i] = c] \in Seq(Clock) /\ Len([q EXCEPT ![i] = c]) = Len(q)
           /\ \A j \in 1 .. Len(q) : [q EXCEPT ![i] = c][j] = IF j = i THEN c ELSE q[j]
  OBVIOUS

\* The step to the next node.
LEMMA AdvanceEffect ==
    ASSUME NEW u \in TimerType, NEW el \in [1 .. MAXCLOCKS -> Nat], NEW v,
           v = [timer |-> u, elapsed |-> el, stop |-> "no"], Len(u.clock_hooks) \in Nat,
           u.hook_node \in 0 .. Len(u.clock_hooks)
    PROVE  LET r == Advance(v) IN
           /\ r \in LoopState /\ r.stop = "no" /\ r.elapsed = el
           /\ r.timer.hook_node = IF u.hook_node \in 1 .. Len(u.clock_hooks) - 1 THEN u.hook_node + 1 ELSE NULL
           /\ r.timer.hook_clock = u.hook_clock /\ r.timer.clock_hooks = u.clock_hooks
           /\ r.timer.count = u.count /\ r.timer.timer_shortest = u.timer_shortest
<1> DEFINE n == IF u.hook_node \in 1 .. Len(u.clock_hooks) - 1 THEN u.hook_node + 1 ELSE NULL
           w == [u EXCEPT !.hook_node = n]
<1>1. n \in Nat
  BY DEF NULL
<1>2. /\ w \in TimerType /\ w.hook_node = n /\ w.hook_clock = u.hook_clock
      /\ w.clock_hooks = u.clock_hooks /\ w.count = u.count
      /\ w.timer_shortest = u.timer_shortest
  <2> HIDE DEF n
  <2> QED BY <1>1 DEF TimerType
<1>3. Advance(v) = [timer |-> w, elapsed |-> el, stop |-> "no"]
  <2>1. CASE u.hook_node = NULL
    <3>1. n = u.hook_node
      BY <2>1 DEF NULL
    <3>2. w = u
      <4> HIDE DEF n
      <4> QED BY <3>1 DEF TimerType
    <3> HIDE DEF w
    <3> QED BY <2>1, <3>2 DEF Advance
  <2>2. CASE u.hook_node # NULL
    <3>1. NextNode(u, u.hook_node) = n
      BY <2>2 DEF NextNode, NULL
    <3>2. Advance(v) = [v EXCEPT !.timer = [u EXCEPT !.hook_node = NextNode(u, u.hook_node)]]
      BY <2>2 DEF Advance
    <3> HIDE DEF n
    <3>3. Advance(v) = [v EXCEPT !.timer = w]
      BY <3>1, <3>2
    <3> HIDE DEF w
    <3> QED BY <3>3
  <2> QED BY <2>1, <2>2
<1> HIDE DEF w, n
<1>4. Advance(v) \in LoopState
  BY <1>2, <1>3 DEF LoopState
<1> QED BY <1>2, <1>3, <1>4 DEF n

\* A clock whose ms_left is set to y.
LEMMA LeftSet ==
    ASSUME NEW c \in Clock, NEW y \in Int
    PROVE  /\ [c EXCEPT !.ms_left = y] = [ms |-> c.ms, ms_left |-> y]
           /\ [ms |-> c.ms, ms_left |-> y] \in Clock
  BY DEF Clock

LEMMA ClockType == \A c \in Clock : c.ms_left \in Int /\ c.ms \in Nat /\ c.ms > 0
  BY DEF Clock

\* What Turn does before the hook.
CountDown(u, i, ms) == [u EXCEPT !.hook_clock = i, !.clock_hooks[i].ms_left = @ - ms]

\* The fields of the timer before the hook, and after the period was added.
LEMMA CountDownEffect ==
    ASSUME NEW u \in TimerType, NEW i \in 1 .. Len(u.clock_hooks), NEW ms \in Nat
    PROVE  LET r == CountDown(u, i, ms) IN
           /\ r \in TimerType /\ r.hook_node = u.hook_node /\ r.hook_clock = i
           /\ r.clock_hooks = [u.clock_hooks EXCEPT ![i] = [ms |-> u.clock_hooks[i].ms,
                                                          ms_left |-> u.clock_hooks[i].ms_left - ms]]
           /\ r.count = u.count /\ r.timer_shortest = u.timer_shortest
<1> DEFINE q == u.clock_hooks
           c == [ms |-> q[i].ms, ms_left |-> q[i].ms_left - ms]
           p == [q EXCEPT ![i] = c]
           r == CountDown(u, i, ms)
<1>1. q \in Seq(Clock) /\ q[i] \in Clock /\ i \in Nat
  BY DEF TimerType
<1>2. c \in Clock /\ [q[i] EXCEPT !.ms_left = @ - ms] = c
  <2>1. q[i].ms_left - ms \in Int
    BY <1>1 DEF Clock
  <2> HIDE DEF q
  <2> QED BY <1>1, <2>1, LeftSet
<1>3. p \in Seq(Clock)
  <2> HIDE DEF c, q
  <2>1. i \in 1 .. Len(q)
    BY DEF q
  <2> QED BY <1>1, <1>2, <2>1
<1>4. r = [u EXCEPT !.hook_clock = i, !.clock_hooks = p]
  <2>1. r = [u EXCEPT !.hook_clock = i, !.clock_hooks = [q EXCEPT ![i] = [q[i] EXCEPT !.ms_left = @ - ms]]]
    BY DEF TimerType, CountDown
  <2> HIDE DEF c, r
  <2> QED BY <1>2, <2>1
<1> HIDE DEF c, p, r, q
<1>5. /\ r \in TimerType /\ r.hook_node = u.hook_node /\ r.hook_clock = i
      /\ r.clock_hooks = p /\ r.count = u.count /\ r.timer_shortest = u.timer_shortest
  BY <1>1, <1>3, <1>4 DEF TimerType
<1> QED BY <1>5 DEF c, p, r, q

LEMMA RepeatEffect ==
    ASSUME NEW u \in TimerType, u.hook_clock \in 1 .. Len(u.clock_hooks)
    PROVE  LET r == Repeat(u)
               h == u.hook_clock IN
           /\ r \in TimerType /\ r.hook_node = u.hook_node /\ r.hook_clock = h
           /\ r.clock_hooks = [u.clock_hooks EXCEPT
                  ![h] = [ms |-> u.clock_hooks[h].ms,
                          ms_left |-> u.clock_hooks[h].ms_left + u.clock_hooks[h].ms]]
           /\ r.count = u.count /\ r.timer_shortest = u.timer_shortest
<1> DEFINE q == u.clock_hooks
           h == u.hook_clock
           c == [ms |-> q[h].ms, ms_left |-> q[h].ms_left + q[h].ms]
           p == [q EXCEPT ![h] = c]
           r == Repeat(u)
<1>1. q \in Seq(Clock) /\ q[h] \in Clock /\ h \in Nat
  BY DEF TimerType
<1>2. c \in Clock /\ [q[h] EXCEPT !.ms_left = @ + q[h].ms] = c
  <2>1. q[h].ms_left + q[h].ms \in Int
    BY <1>1 DEF Clock
  <2> HIDE DEF q, h
  <2> QED BY <1>1, <2>1, LeftSet
<1>3. p \in Seq(Clock)
  <2> HIDE DEF c, q, h
  <2>1. h \in 1 .. Len(q)
    BY DEF q, h
  <2> QED BY <1>1, <1>2, <2>1
<1>4. r = [u EXCEPT !.clock_hooks = p]
  <2>1. r = [u EXCEPT !.clock_hooks = [q EXCEPT ![h] = [q[h] EXCEPT !.ms_left = @ + q[h].ms]]]
    BY DEF TimerType, Repeat
  <2> HIDE DEF c, r
  <2> QED BY <1>2, <2>1
<1> HIDE DEF c, p, r, q
<1>5. /\ r \in TimerType /\ r.hook_node = u.hook_node /\ r.hook_clock = u.hook_clock
      /\ r.clock_hooks = p /\ r.count = u.count /\ r.timer_shortest = u.timer_shortest
  BY <1>1, <1>3, <1>4 DEF TimerType
<1> QED BY <1>5 DEF c, p, r, q

\* A state of the loop after a hook was called, with timer u.
Called(v, u, i) == [v EXCEPT !.timer = u, !.elapsed[i] = 0]

\* What a turn at node i does: r comes after v.
Turned(v, r, ms, switches) ==
    LET q    == v.timer.clock_hooks
        i    == v.timer.hook_node
        x    == q[i].ms_left - ms
        left == x <= 0 /\ i = TICK /\ switches
    IN  /\ r \in LoopState /\ r.stop = IF left THEN "switch" ELSE "no"
        /\ r.timer.hook_node = IF left THEN i ELSE IF i < Len(q) THEN i + 1 ELSE NULL
        /\ r.timer.hook_clock = i
        /\ Len(r.timer.clock_hooks) = Len(q)
        /\ \A j \in 1 .. Len(q) : j # i => r.timer.clock_hooks[j] = q[j]
        /\ r.timer.clock_hooks[i] = [ms |-> q[i].ms, ms_left |-> IF x <= 0 /\ ~left THEN x + q[i].ms ELSE x]
        /\ r.elapsed = IF x <= 0 THEN [v.elapsed EXCEPT ![i] = 0] ELSE v.elapsed
        /\ r.timer.count = v.timer.count /\ r.timer.timer_shortest = v.timer.timer_shortest

LEMMA TurnEffect ==
    ASSUME NEW v \in LoopState, v.stop = "no", NEW ms \in Nat, NEW switches \in BOOLEAN,
           Len(v.timer.clock_hooks) \in TICK .. MAXCLOCKS,
           v.timer.hook_node \in 1 .. Len(v.timer.clock_hooks)
    PROVE  Turned(v, Turn(v, ms, switches), ms, switches)
<1> DEFINE t == v.timer
           el == v.elapsed
           q == t.clock_hooks
           i == t.hook_node
           x == q[i].ms_left - ms
<1>0. PICK left \in BOOLEAN : left <=> x <= 0 /\ i = TICK /\ switches
  OBVIOUS
<1>a. /\ t \in TimerType /\ el \in [1 .. MAXCLOCKS -> Nat]
      /\ v = [timer |-> t, elapsed |-> el, stop |-> "no"]
      /\ Len(q) \in Nat /\ Len(q) <= MAXCLOCKS /\ i \in 1 .. Len(q)
  BY NodeFact DEF LoopState
<1>b. q = t.clock_hooks /\ i = t.hook_node /\ x = q[i].ms_left - ms
  OBVIOUS
<1> SUFFICES LET r == Turn(v, ms, switches) IN
             /\ r \in LoopState /\ r.stop = IF left THEN "switch" ELSE "no"
             /\ r.timer.hook_node = IF left THEN i ELSE IF i < Len(q) THEN i + 1 ELSE NULL
             /\ r.timer.hook_clock = i
             /\ Len(r.timer.clock_hooks) = Len(q)
             /\ \A j \in 1 .. Len(q) : j # i => r.timer.clock_hooks[j] = q[j]
             /\ r.timer.clock_hooks[i] = [ms |-> q[i].ms, ms_left |-> IF x <= 0 /\ ~left THEN x + q[i].ms ELSE x]
             /\ r.elapsed = IF x <= 0 THEN [el EXCEPT ![i] = 0] ELSE el
             /\ r.timer.count = t.count /\ r.timer.timer_shortest = t.timer_shortest
  BY <1>0 DEF Turned
<1> HIDE DEF t, el, q, i, x
<1> USE <1>0, <1>a, <1>b
<1> DEFINE u == CountDown(t, i, ms)
           c == [ms |-> q[i].ms, ms_left |-> x]
           z == [el EXCEPT ![i] = 0]
           r == Turn(v, ms, switches)
<1>1. /\ q \in Seq(Clock) /\ q[i] \in Clock /\ i \in Nat /\ i # NULL /\ i \in 1 .. MAXCLOCKS
  BY <1>a, <1>b, NodeFact DEF TimerType
<1>2. /\ u \in TimerType /\ u.hook_node = i /\ u.hook_clock = i
      /\ u.clock_hooks = [q EXCEPT ![i] = c]
      /\ u.count = t.count /\ u.timer_shortest = t.timer_shortest
  <2> HIDE DEF u
  <2>1. /\ u \in TimerType /\ u.hook_node = t.hook_node /\ u.hook_clock = i
        /\ u.clock_hooks = [t.clock_hooks EXCEPT ![i] = [ms |-> t.clock_hooks[i].ms,
                                                       ms_left |-> t.clock_hooks[i].ms_left - ms]]
        /\ u.count = t.count /\ u.timer_shortest = t.timer_shortest
    BY <1>a, <1>b, CountDownEffect DEF u
  <2> QED BY <1>b, <2>1
<1>3. x \in Int /\ q[i].ms \in Nat /\ q[i].ms_left \in Int
  <2>1. q[i].ms_left \in Int /\ q[i].ms \in Nat
    BY <1>1, ClockType
  <2> QED BY <1>b, <2>1
<1>4. c \in Clock /\ c.ms = q[i].ms /\ c.ms_left = x
  BY <1>1, <1>3, LeftSet
<1>5. /\ Len(u.clock_hooks) = Len(q) /\ u.clock_hooks[i] = c
      /\ \A j \in 1 .. Len(q) : j # i => u.clock_hooks[j] = q[j]
  <2> HIDE DEF c, u
  <2>1. /\ Len([q EXCEPT ![i] = c]) = Len(q)
        /\ \A j \in 1 .. Len(q) : [q EXCEPT ![i] = c][j] = IF j = i THEN c ELSE q[j]
    BY <1>a, <1>1, <1>4, ClockSet
  <2> QED BY <1>2, <2>1
<1>6. z \in [1 .. MAXCLOCKS -> Nat]
  BY <1>a, <1>1
<1>7. r = IF ~(x <= 0) THEN Advance([v EXCEPT !.timer = u])
          ELSE IF i = TICK /\ switches
          THEN [v EXCEPT !.timer = u, !.elapsed[i] = 0, !.stop = "switch"]
          ELSE Advance(Called(v, Repeat(u), i))
  <2>1. r = IF ~(u.clock_hooks[i].ms_left <= 0) THEN Advance([v EXCEPT !.timer = u])
            ELSE IF i = TICK /\ switches
            THEN [v EXCEPT !.timer = u, !.elapsed[i] = 0, !.stop = "switch"]
            ELSE Advance(Called(v, Repeat(u), i))
    <3>1. v.timer = t /\ t.hook_node = i
      BY <1>a, <1>b
    <3> QED BY <3>1 DEF Turn, CountDown, Called
  <2> HIDE DEF u, r, c
  <2> QED BY <1>4, <1>5, <2>1
<1> HIDE DEF u, r, c, z
<1>8. CASE ~(x <= 0)
  <2> DEFINE w == [timer |-> u, elapsed |-> el, stop |-> "no"]
  <2>1. [v EXCEPT !.timer = u] = w
    OBVIOUS
  <2>2. r = Advance(w)
    BY <1>7, <1>8, <2>1
  <2> HIDE DEF w
  <2>3. /\ r \in LoopState /\ r.stop = "no" /\ r.elapsed = el
        /\ r.timer.hook_node = IF i \in 1 .. Len(q) - 1 THEN i + 1 ELSE NULL
        /\ r.timer.hook_clock = i /\ r.timer.clock_hooks = u.clock_hooks
        /\ r.timer.count = u.count /\ r.timer.timer_shortest = u.timer_shortest
    <3>1. w = [timer |-> u, elapsed |-> el, stop |-> "no"]
      BY DEF w
    <3>2. Len(u.clock_hooks) \in Nat /\ u.hook_node \in 0 .. Len(u.clock_hooks)
      BY <1>1, <1>2, <1>5
    <3>3. /\ r \in LoopState /\ r.stop = "no" /\ r.elapsed = el
          /\ r.timer.hook_node = IF u.hook_node \in 1 .. Len(u.clock_hooks) - 1 THEN u.hook_node + 1 ELSE NULL
          /\ r.timer.hook_clock = u.hook_clock /\ r.timer.clock_hooks = u.clock_hooks
          /\ r.timer.count = u.count /\ r.timer.timer_shortest = u.timer_shortest
      <4> HIDE DEF r, u
      <4> QED BY <1>2, <2>2, <3>1, <3>2, AdvanceEffect, SMTT(30)
    <3> QED BY <1>2, <1>5, <3>3
  <2>4. r.timer.hook_node = IF i < Len(q) THEN i + 1 ELSE NULL
    BY <1>1, <2>3
  <2> QED BY <1>2, <1>3, <1>5, <1>8, <2>3, <2>4, SMTT(30) DEF r, c
<1>9. CASE left
  <2>1. r = [timer |-> u, elapsed |-> z, stop |-> "switch"]
    BY <1>7, <1>9 DEF z
  <2>2. r \in LoopState
    BY <1>2, <1>6, <2>1 DEF LoopState
  <2>3. /\ r.stop = "switch" /\ r.timer = u /\ r.elapsed = z
    BY <2>1
  <2> QED BY <1>2, <1>5, <1>9, <2>2, <2>3 DEF r, c, z
<1>10. CASE x <= 0 /\ ~left
  <2> DEFINE w == [timer |-> Repeat(u), elapsed |-> z, stop |-> "no"]
             d == [ms |-> q[i].ms, ms_left |-> x + q[i].ms]
  <2>1. Called(v, Repeat(u), i) = w
    <3> DEFINE R == Repeat(u)
               y == [v EXCEPT !.timer = R]
    <3> HIDE DEF R, d, w
    <3>1. y = [timer |-> R, elapsed |-> el, stop |-> "no"]
      OBVIOUS
    <3>2. Called(v, R, i) = [y EXCEPT !.elapsed = z]
      BY DEF Called, z
    <3> HIDE DEF y
    <3>3. [y EXCEPT !.elapsed = z] = [timer |-> R, elapsed |-> z, stop |-> "no"]
      BY <3>1
    <3> QED BY <3>2, <3>3 DEF R, w
  <2>2. r = Advance(w)
    BY <1>7, <1>10, <2>1
  <2>3. /\ Repeat(u) \in TimerType /\ Repeat(u).hook_node = i /\ Repeat(u).hook_clock = i
        /\ Repeat(u).clock_hooks = [u.clock_hooks EXCEPT ![i] = d]
        /\ Repeat(u).count = u.count /\ Repeat(u).timer_shortest = u.timer_shortest
    <3>1. u.hook_clock \in 1 .. Len(u.clock_hooks)
      BY <1>2, <1>5
    <3>2. u.clock_hooks[i].ms = q[i].ms /\ u.clock_hooks[i].ms_left = x
      BY <1>4, <1>5
    <3>3. /\ Repeat(u) \in TimerType /\ Repeat(u).hook_node = u.hook_node /\ Repeat(u).hook_clock = u.hook_clock
          /\ Repeat(u).clock_hooks = [u.clock_hooks EXCEPT
                ![u.hook_clock] = [ms |-> u.clock_hooks[u.hook_clock].ms,
                                   ms_left |-> u.clock_hooks[u.hook_clock].ms_left + u.clock_hooks[u.hook_clock].ms]]
          /\ Repeat(u).count = u.count /\ Repeat(u).timer_shortest = u.timer_shortest
      BY <1>2, <3>1, RepeatEffect
    <3> QED BY <1>2, <3>2, <3>3
  <2>4. d \in Clock
    <3>1. x + q[i].ms \in Int
      BY <1>3
    <3> QED BY <1>1, <3>1, LeftSet
  <2> DEFINE R == Repeat(u)
  <2> HIDE DEF d, R
  <2>5. /\ Len(R.clock_hooks) = Len(q) /\ R.clock_hooks[i] = d
        /\ \A j \in 1 .. Len(q) : j # i => R.clock_hooks[j] = q[j]
    <3>1. u.clock_hooks \in Seq(Clock)
      BY <1>2 DEF TimerType
    <3>2. /\ Len([u.clock_hooks EXCEPT ![i] = d]) = Len(q)
          /\ \A j \in 1 .. Len(q) :
                [u.clock_hooks EXCEPT ![i] = d][j] = IF j = i THEN d ELSE u.clock_hooks[j]
      BY <1>5, <2>4, <3>1, ClockSet
    <3> QED BY <1>5, <2>3, <3>2 DEF R
  <2> HIDE DEF w
  <2>6. /\ r \in LoopState /\ r.stop = "no" /\ r.elapsed = z
        /\ r.timer.hook_node = IF i \in 1 .. Len(q) - 1 THEN i + 1 ELSE NULL
        /\ r.timer.hook_clock = i /\ r.timer.clock_hooks = R.clock_hooks
        /\ r.timer.count = u.count /\ r.timer.timer_shortest = u.timer_shortest
    <3>1. w = [timer |-> R, elapsed |-> z, stop |-> "no"]
      BY DEF w, R
    <3>2. /\ R \in TimerType /\ R.hook_node = i /\ R.hook_clock = i
          /\ R.count = u.count /\ R.timer_shortest = u.timer_shortest
      BY <2>3 DEF R
    <3>3. Len(R.clock_hooks) \in Nat /\ R.hook_node \in 0 .. Len(R.clock_hooks)
      BY <1>1, <2>5, <3>2
    <3> QED BY <1>6, <2>2, <2>5, <3>1, <3>2, <3>3, AdvanceEffect, SMTT(30)
  <2>7. r.timer.hook_node = IF i < Len(q) THEN i + 1 ELSE NULL
    BY <1>1, <2>6
  <2> QED BY <1>2, <1>10, <2>5, <2>6, <2>7, SMTT(30) DEF r, d, z
<1> QED BY <1>8, <1>9, <1>10

\* What the turns from the third clock on leave alone between v and w.
Keeps(v, w) ==
    /\ w \in LoopState /\ w.stop = "no"
    /\ Len(w.timer.clock_hooks) = Len(v.timer.clock_hooks)
    /\ \A c \in 1 .. TICK : /\ w.timer.clock_hooks[c] = v.timer.clock_hooks[c]
                            /\ w.elapsed[c] = v.elapsed[c]
    /\ w.timer.count = v.timer.count /\ w.timer.timer_shortest = v.timer.timer_shortest

\* k turns after v, at the third clock or at the end, the loop is in w.
Behind(v, w, k) ==
    LET l == Len(v.timer.clock_hooks) IN
    /\ Keeps(v, w)
    /\ \/ v.timer.hook_node = NULL /\ w = v
       \/ v.timer.hook_node = 3 /\ w.timer.hook_node = NULL /\ w.timer.hook_clock = l
       \/ v.timer.hook_node = 3 /\ w.timer.hook_node = 3 + k /\ 3 + k <= l

\* A turn at a clock behind that of the scheduler.
LEMMA LateTurn ==
    ASSUME NEW v \in LoopState, v.stop = "no", Len(v.timer.clock_hooks) \in TICK .. MAXCLOCKS,
           NEW i, i = v.timer.hook_node, i \in 3 .. Len(v.timer.clock_hooks),
           NEW ms \in Nat, NEW switches \in BOOLEAN
    PROVE  LET r == Turn(v, ms, switches) IN
           /\ Keeps(v, r) /\ r.timer.hook_clock = i
           /\ r.timer.hook_node = IF i < Len(v.timer.clock_hooks) THEN i + 1 ELSE NULL
<1> DEFINE t == v.timer
           el == v.elapsed
           q == t.clock_hooks
           x == q[i].ms_left - ms
           r == Turn(v, ms, switches)
<1>1. el \in [1 .. MAXCLOCKS -> Nat]
  BY DEF LoopState
<1>2. Len(q) \in Nat /\ Len(q) <= MAXCLOCKS /\ i \in 1 .. Len(q) /\ i # TICK /\ i > 2 /\ 2 <= Len(q)
  BY NodeFact
<1>3. Turned(v, r, ms, switches)
  BY <1>2, TurnEffect
<1>4. /\ r \in LoopState /\ r.stop = "no"
      /\ r.timer.hook_node = IF i < Len(q) THEN i + 1 ELSE NULL
      /\ r.timer.hook_clock = i
      /\ Len(r.timer.clock_hooks) = Len(q)
      /\ \A j \in 1 .. Len(q) : j # i => r.timer.clock_hooks[j] = q[j]
      /\ r.elapsed = IF x <= 0 THEN [el EXCEPT ![i] = 0] ELSE el
      /\ r.timer.count = t.count /\ r.timer.timer_shortest = t.timer_shortest
  <2> HIDE DEF r
  <2> QED BY <1>2, <1>3 DEF Turned
<1> HIDE DEF t, el, q, x, r
<1>5. \A c \in 1 .. TICK : c \in 1 .. Len(q) /\ c # i /\ c \in 1 .. MAXCLOCKS
  BY <1>2, NodeFact
<1>6. \A c \in 1 .. TICK : r.elapsed[c] = el[c]
  BY <1>1, <1>4, <1>5
<1>7. Keeps(v, r)
  BY <1>4, <1>5, <1>6 DEF Keeps, q, t, el
<1> QED BY <1>4, <1>7 DEF r, q, t

\* From the third clock on, or from the end, the loop ends without a switch.
Rested(v, r) ==
    /\ Keeps(v, r) /\ r.timer.hook_node = NULL
    /\ r.timer.hook_clock = IF v.timer.hook_node = NULL THEN v.timer.hook_clock
                            ELSE Len(v.timer.clock_hooks)

Turning(f, a, ms, switches) ==
    \A k \in a + 1 .. MAXCLOCKS : f[k] = OneTurn(f[k - 1], ms, switches)

LEMMA RunTurning ==
    ASSUME NEW f, NEW s, NEW ms, NEW switches, LoopRun(f, s, ms, switches, MAXCLOCKS)
    PROVE  f[0] = s /\ Turning(f, 0, ms, switches)
<1>1. \A k \in 0 .. MAXCLOCKS : f[k] = IF k = 0 THEN s ELSE OneTurn(f[k - 1], ms, switches)
  BY Zenon DEF LoopRun
<1>2. 0 \in 0 .. MAXCLOCKS /\ \A k \in 0 + 1 .. MAXCLOCKS : k \in 0 .. MAXCLOCKS /\ k # 0
  BY NodeFact
<1> QED BY <1>1, <1>2 DEF Turning

LEMMA RestOfLoop ==
    ASSUME NEW a \in 0 .. 2, NEW f, NEW ms \in Nat, NEW switches \in BOOLEAN,
           f[a] \in LoopState, f[a].stop = "no",
           Len(f[a].timer.clock_hooks) \in TICK .. MAXCLOCKS,
           f[a].timer.hook_node \in {NULL, 3}, f[a].timer.hook_node <= Len(f[a].timer.clock_hooks),
           Turning(f, a, ms, switches)
    PROVE  Rested(f[a], f[MAXCLOCKS])
<1>0. PICK v : v = f[a]
  OBVIOUS
<1> USE <1>0
<1> DEFINE l == Len(v.timer.clock_hooks)
           n == MAXCLOCKS - a
           S == {k \in 0 .. n : Behind(v, f[a + k], k)}
<1>1. n \in Nat /\ l \in Nat /\ l <= MAXCLOCKS /\ a \in Nat
  BY NodeFact
<1>2. 0 \in S
  <2>1. Keeps(v, v)
    BY DEF Keeps
  <2>2. v.timer.hook_node = 3 => 3 + 0 <= l
    BY <1>1, NodeFact
  <2>3. Behind(v, v, 0)
    BY <2>1, <2>2, NodeFact DEF Behind
  <2>4. f[a + 0] = v /\ 0 \in 0 .. n
    BY <1>1
  <2> QED BY <2>3, <2>4
<1>3. ASSUME NEW k \in 1 .. n, k - 1 \in S PROVE k \in S
  <2> DEFINE w == f[a + k - 1]
             r == OneTurn(w, ms, switches)
  <2>1. f[a + k] = r
    <3>1. a + k \in a + 1 .. MAXCLOCKS
      BY <1>1, NodeFact
    <3> QED BY <3>1 DEF Turning
  <2>2. Behind(v, w, k - 1)
    <3>1. a + (k - 1) = a + k - 1
      BY <1>1
    <3> QED BY <1>3, <3>1
  <2>3. k \in 0 .. n
    BY <1>1
  <2> HIDE DEF w, r, S, l
  <2>4. w \in LoopState /\ w.stop = "no" /\ Keeps(v, w)
    BY <2>2 DEF Behind, Keeps
  <2>5. CASE w.timer.hook_node = NULL
    <3>1. r = w
      BY <2>4, <2>5 DEF r, OneTurn
    <3>2. ~(w.timer.hook_node = 3 + (k - 1))
      BY <1>1, <2>5, NodeFact
    <3> QED BY <2>1, <2>2, <2>3, <3>1, <3>2 DEF Behind, S
  <2>6. CASE w.timer.hook_node # NULL
    <3>1. /\ v.timer.hook_node = 3 /\ w.timer.hook_node = 3 + (k - 1) /\ 3 + (k - 1) <= l
      BY <2>2, <2>6, NodeFact DEF Behind, l
    <3>2. r = Turn(w, ms, switches)
      BY <2>4, <2>6 DEF r, OneTurn
    <3>3. Len(w.timer.clock_hooks) = l
      BY <2>4 DEF Keeps, l
    <3>4. w.timer.hook_node \in 3 .. l /\ l \in TICK .. MAXCLOCKS
      BY <1>1, <3>1 DEF l
    <3>5. /\ Keeps(w, r) /\ r.timer.hook_clock = w.timer.hook_node
          /\ r.timer.hook_node = IF w.timer.hook_node < l THEN w.timer.hook_node + 1 ELSE NULL
      BY <2>4, <3>2, <3>3, <3>4, LateTurn
    <3>6. Keeps(v, r)
      BY <2>4, <3>5 DEF Keeps
    <3>7. \/ r.timer.hook_node = NULL /\ r.timer.hook_clock = l
          \/ r.timer.hook_node = 3 + k /\ 3 + k <= l
      <4>1. k \in Nat /\ 3 + (k - 1) + 1 = 3 + k
        BY <1>1
      <4>2. CASE 3 + (k - 1) < l
        BY <1>1, <3>1, <3>5, <4>1, <4>2
      <4>3. CASE ~(3 + (k - 1) < l)
        BY <1>1, <3>1, <3>5, <4>1, <4>3
      <4> QED BY <4>2, <4>3
    <3>8. Behind(v, r, k)
      BY <3>1, <3>6, <3>7 DEF Behind, l
    <3> QED BY <2>1, <2>3, <3>8 DEF S
  <2> QED BY <2>5, <2>6
<1>4. n \in S
  <2> HIDE DEF S, n
  <2>1. 0 .. n \subseteq S
    BY <1>1, <1>2, <1>3, Upto
  <2> QED BY <1>1, <2>1
<1>5. Behind(v, f[MAXCLOCKS], n)
  <2>1. a + n = MAXCLOCKS
    BY <1>1, NodeFact
  <2> QED BY <1>4, <2>1
<1>6. ~(3 + n <= l)
  BY <1>1, NodeFact
<1> HIDE DEF n, S
<1> QED BY <1>5, <1>6, NodeFact DEF Behind, Rested

\* What a task that goes on inside the loop does: r comes after s.
Resumed(s, r) ==
    LET q == s.timer.clock_hooks
        h == s.timer.hook_clock
    IN  /\ r \in LoopState /\ r.stop = "no" /\ Len(r.timer.clock_hooks) = Len(q)
        /\ r.timer.hook_node = NULL
        /\ r.timer.hook_clock = IF s.timer.hook_node = TICK /\ TICK < Len(q) THEN Len(q) ELSE h
        /\ r.timer.clock_hooks[1] = q[1] /\ r.timer.clock_hooks[TICK].ms = q[TICK].ms
        /\ r.timer.clock_hooks[TICK].ms_left = q[TICK].ms_left + IF h = TICK THEN q[TICK].ms ELSE 0
        /\ r.elapsed[1] = s.elapsed[1] /\ r.elapsed[TICK] = s.elapsed[TICK]
        /\ r.timer.count = s.timer.count /\ r.timer.timer_shortest = s.timer.timer_shortest

LEMMA ResumeEffect ==
    ASSUME NEW s \in LoopState, s.stop = "no", NEW ms \in Nat,
           Len(s.timer.clock_hooks) \in TICK .. MAXCLOCKS,
           s.timer.hook_node \in {NULL, TICK}, s.timer.hook_clock \in TICK .. Len(s.timer.clock_hooks)
    PROVE  Resumed(s, ResumeLoop(s, ms))
<1> DEFINE t == s.timer
           el == s.elapsed
           q == t.clock_hooks
           h == t.hook_clock
           R == Repeat(t)
           w == [timer |-> R, elapsed |-> el, stop |-> "no"]
           v == Advance(w)
           r == ResumeLoop(s, ms)
<1>1. /\ t \in TimerType /\ el \in [1 .. MAXCLOCKS -> Nat]
      /\ s = [timer |-> t, elapsed |-> el, stop |-> "no"]
      /\ t.hook_node \in {NULL, TICK} /\ h \in TICK .. Len(q) /\ h \in 1 .. Len(q)
      /\ Len(q) \in Nat /\ Len(q) <= MAXCLOCKS /\ Len(q) >= 2 /\ 1 \in 1 .. Len(q) /\ TICK \in 1 .. Len(q)
  BY NodeFact DEF LoopState
<1>2. q \in Seq(Clock)
  BY <1>1 DEF TimerType
<1> DEFINE c == [ms |-> q[h].ms, ms_left |-> q[h].ms_left + q[h].ms]
<1>3. /\ R \in TimerType /\ R.hook_node = t.hook_node /\ R.hook_clock = h
      /\ R.clock_hooks = [q EXCEPT ![h] = c]
      /\ R.count = t.count /\ R.timer_shortest = t.timer_shortest
  BY <1>1, RepeatEffect
<1>4. c \in Clock
  <2>1. q[h] \in Clock
    BY <1>1, <1>2
  <2>2. q[h].ms_left + q[h].ms \in Int
    BY <2>1, ClockType
  <2> QED BY <2>1, <2>2, LeftSet
<1>5. /\ Len(R.clock_hooks) = Len(q)
      /\ \A j \in 1 .. Len(q) : R.clock_hooks[j] = IF j = h THEN c ELSE q[j]
  <2> HIDE DEF c, R, q, h
  <2> QED BY <1>1, <1>2, <1>3, <1>4, ClockSet
<1>6. r = Loop(v, ms, TRUE)
  <2>1. [s EXCEPT !.timer = Repeat(@)] = w
    <3>1. [s EXCEPT !.timer = Repeat(@)] = [s EXCEPT !.timer = R]
      OBVIOUS
    <3> HIDE DEF R, t, el
    <3> QED BY <1>1, <3>1
  <2> QED BY <2>1 DEF ResumeLoop
<1> HIDE DEF t, el, q, h, R, c, r
<1>7. /\ v \in LoopState /\ v.stop = "no" /\ v.elapsed = el
      /\ v.timer.hook_node = IF R.hook_node \in 1 .. Len(R.clock_hooks) - 1 THEN R.hook_node + 1 ELSE NULL
      /\ v.timer.hook_clock = h /\ v.timer.clock_hooks = R.clock_hooks
      /\ v.timer.count = t.count /\ v.timer.timer_shortest = t.timer_shortest
  <2>1. Len(R.clock_hooks) \in Nat /\ R.hook_node \in 0 .. Len(R.clock_hooks)
    BY <1>1, <1>3, <1>5, NodeFact
  <2> QED BY <1>1, <1>3, <2>1, AdvanceEffect
<1>8. v.timer.hook_node = IF t.hook_node = TICK /\ TICK < Len(q) THEN 3 ELSE NULL
  BY <1>1, <1>3, <1>5, <1>7, NodeFact, SMTT(30)
<1> HIDE DEF w, v
<1>9. PICK f : LoopRun(f, v, ms, TRUE, MAXCLOCKS) /\ r = f[MAXCLOCKS]
  BY <1>6, LoopRuns
<1>10. f[0] = v /\ Turning(f, 0, ms, TRUE)
  BY <1>9, RunTurning
<1>11. Rested(v, r)
  <2>1. /\ Len(v.timer.clock_hooks) \in TICK .. MAXCLOCKS
        /\ v.timer.hook_node \in {NULL, 3} /\ v.timer.hook_node <= Len(v.timer.clock_hooks)
    BY <1>1, <1>5, <1>7, <1>8, NodeFact, SMTT(30)
  <2>2. 0 \in 0 .. 2 /\ TRUE \in BOOLEAN
    OBVIOUS
  <2>3. /\ f[0] \in LoopState /\ f[0].stop = "no"
        /\ Len(f[0].timer.clock_hooks) \in TICK .. MAXCLOCKS
        /\ f[0].timer.hook_node \in {NULL, 3} /\ f[0].timer.hook_node <= Len(f[0].timer.clock_hooks)
    BY <1>7, <1>10, <2>1
  <2>4. Rested(f[0], f[MAXCLOCKS])
    BY <1>10, <2>2, <2>3, RestOfLoop
  <2> QED BY <1>9, <1>10, <2>4
<1>12. /\ R.clock_hooks[1] = q[1] /\ R.clock_hooks[TICK].ms = q[TICK].ms
       /\ R.clock_hooks[TICK].ms_left = q[TICK].ms_left + IF h = TICK THEN q[TICK].ms ELSE 0
  <2>1. h # 1
    BY <1>1, NodeFact
  <2>2. q[TICK].ms_left \in Int
    BY <1>1, <1>2, ClockType
  <2>3. CASE h = TICK
    BY <1>1, <1>5, <2>1, <2>3 DEF c
  <2>4. CASE h # TICK
    BY <1>1, <1>5, <2>1, <2>2, <2>4
  <2> QED BY <2>3, <2>4
<1>13. /\ r \in LoopState /\ r.stop = "no" /\ Len(r.timer.clock_hooks) = Len(q)
       /\ r.timer.clock_hooks[1] = R.clock_hooks[1]
       /\ r.timer.clock_hooks[TICK] = R.clock_hooks[TICK]
       /\ r.elapsed[1] = el[1] /\ r.elapsed[TICK] = el[TICK]
       /\ r.timer.count = t.count /\ r.timer.timer_shortest = t.timer_shortest
  <2>1. 1 \in 1 .. TICK /\ TICK \in 1 .. TICK
    BY NodeFact
  <2> QED BY <1>5, <1>7, <1>11, <2>1 DEF Rested, Keeps
<1>14. r.timer.hook_clock = IF t.hook_node = TICK /\ TICK < Len(q) THEN Len(q) ELSE h
  BY <1>5, <1>7, <1>8, <1>11, NodeFact DEF Rested
<1> QED BY <1>11, <1>12, <1>13, <1>14 DEF Rested, Resumed, t, el, q, h, r

\* What an interrupt's loop does, from s to r, unless it is left in tasking_tick.
Interrupted(s, r, ms, switches) ==
    LET q == s.timer.clock_hooks
        x == q[1].ms_left - ms
        y == q[TICK].ms_left - ms
        left == y <= 0 /\ switches
    IN  /\ r \in LoopState /\ r.stop = IF left THEN "switch" ELSE "no"
        /\ Len(r.timer.clock_hooks) = Len(q)
        /\ r.timer.hook_node = IF left THEN TICK ELSE NULL
        /\ r.timer.hook_clock = IF left THEN TICK ELSE Len(q)
        /\ r.timer.clock_hooks[1].ms = q[1].ms /\ r.timer.clock_hooks[TICK].ms = q[TICK].ms
        /\ r.timer.clock_hooks[1].ms_left = IF x <= 0 THEN x + q[1].ms ELSE x
        /\ r.timer.clock_hooks[TICK].ms_left = IF y <= 0 /\ ~left THEN y + q[TICK].ms ELSE y
        /\ r.elapsed[1] = IF x <= 0 THEN 0 ELSE s.elapsed[1]
        /\ r.elapsed[TICK] = IF y <= 0 THEN 0 ELSE s.elapsed[TICK]
        /\ r.timer.count = s.timer.count /\ r.timer.timer_shortest = s.timer.timer_shortest

LEMMA InterruptEffect ==
    ASSUME NEW s \in LoopState, s.stop = "no", NEW ms \in Nat, NEW switches \in BOOLEAN,
           Len(s.timer.clock_hooks) \in TICK .. MAXCLOCKS, s.timer.hook_node = 1
    PROVE  Interrupted(s, Loop(s, ms, switches), ms, switches)
<1> DEFINE q == s.timer.clock_hooks
           l == Len(q)
           x == q[1].ms_left - ms
           y == q[TICK].ms_left - ms
           r == Loop(s, ms, switches)
<1>0. PICK left \in BOOLEAN : left <=> y <= 0 /\ switches
  OBVIOUS
<1>1. PICK f : LoopRun(f, s, ms, switches, MAXCLOCKS) /\ r = f[MAXCLOCKS]
  BY LoopRuns
<1>2. f[0] = s /\ Turning(f, 0, ms, switches)
  BY <1>1, RunTurning
<1>3. l \in Nat /\ 2 <= l /\ l <= MAXCLOCKS /\ 1 \in 1 .. l /\ TICK \in 1 .. l /\ 1 # TICK
  BY NodeFact
<1>4. /\ f[1] = OneTurn(f[0], ms, switches) /\ f[2] = OneTurn(f[1], ms, switches)
      /\ Turning(f, 2, ms, switches)
  <2>1. /\ 1 \in 0 + 1 .. MAXCLOCKS /\ 2 \in 0 + 1 .. MAXCLOCKS /\ 1 - 1 = 0 /\ 2 - 1 = 1
        /\ \A k \in 2 + 1 .. MAXCLOCKS : k \in 0 + 1 .. MAXCLOCKS
    BY NodeFact
  <2> QED BY <1>2, <2>1 DEF Turning
<1> DEFINE a == f[1]
           b == f[2]
<1>5. Turned(s, a, ms, switches)
  <2>1. f[1] = Turn(s, ms, switches)
    BY <1>2, <1>4, NodeFact DEF OneTurn
  <2> QED BY <1>3, <2>1, TurnEffect
<1>6. /\ a \in LoopState /\ a.stop = "no" /\ a.timer.hook_node = TICK
      /\ Len(a.timer.clock_hooks) = l /\ a.timer.clock_hooks[TICK] = q[TICK]
      /\ a.timer.clock_hooks[1].ms = q[1].ms
      /\ a.timer.clock_hooks[1].ms_left = IF x <= 0 THEN x + q[1].ms ELSE x
      /\ a.elapsed = IF x <= 0 THEN [s.elapsed EXCEPT ![1] = 0] ELSE s.elapsed
      /\ a.timer.count = s.timer.count /\ a.timer.timer_shortest = s.timer.timer_shortest
  <2> HIDE DEF a, r
  <2>1. 1 < l /\ 1 + 1 = TICK
    BY <1>3, NodeFact
  <2> QED BY <1>3, <1>5, <2>1 DEF Turned
<1>7. a.elapsed[1] = (IF x <= 0 THEN 0 ELSE s.elapsed[1]) /\ a.elapsed[TICK] = s.elapsed[TICK]
  <2>1. s.elapsed \in [1 .. MAXCLOCKS -> Nat] /\ 1 \in 1 .. MAXCLOCKS /\ TICK \in 1 .. MAXCLOCKS
    BY NodeFact DEF LoopState
  <2> HIDE DEF a, x
  <2> QED BY <1>3, <1>6, <2>1
<1> HIDE DEF r, a, b, x, q
<1>8. Turned(a, b, ms, switches)
  <2>1. b = Turn(a, ms, switches)
    BY <1>4, <1>6, NodeFact DEF OneTurn, a, b
  <2>2. Len(a.timer.clock_hooks) \in TICK .. MAXCLOCKS /\ a.timer.hook_node \in 1 .. Len(a.timer.clock_hooks)
    BY <1>3, <1>6, NodeFact
  <2> QED BY <1>6, <2>1, <2>2, TurnEffect
<1>9. /\ b \in LoopState /\ b.stop = IF left THEN "switch" ELSE "no"
      /\ b.timer.hook_node = IF left THEN TICK ELSE IF TICK < l THEN TICK + 1 ELSE NULL
      /\ b.timer.hook_clock = TICK
      /\ Len(b.timer.clock_hooks) = l /\ b.timer.clock_hooks[1] = a.timer.clock_hooks[1]
      /\ b.timer.clock_hooks[TICK].ms = q[TICK].ms
      /\ b.timer.clock_hooks[TICK].ms_left = IF y <= 0 /\ ~left THEN y + q[TICK].ms ELSE y
      /\ b.elapsed = IF y <= 0 THEN [a.elapsed EXCEPT ![TICK] = 0] ELSE a.elapsed
      /\ b.timer.count = s.timer.count /\ b.timer.timer_shortest = s.timer.timer_shortest
  <2> HIDE DEF l
  <2>1. 1 \in 1 .. l /\ 1 # TICK
    BY <1>3
  <2> QED BY <1>0, <1>6, <1>8, <2>1 DEF Turned
<1>10. /\ b.elapsed[1] = a.elapsed[1]
       /\ b.elapsed[TICK] = IF y <= 0 THEN 0 ELSE s.elapsed[TICK]
  <2>1. a.elapsed \in [1 .. MAXCLOCKS -> Nat] /\ 1 \in 1 .. MAXCLOCKS /\ TICK \in 1 .. MAXCLOCKS
    BY <1>6, NodeFact DEF LoopState
  <2> HIDE DEF y
  <2> QED BY <1>3, <1>7, <1>9, <2>1
<1> SUFFICES /\ r \in LoopState /\ r.stop = b.stop /\ Len(r.timer.clock_hooks) = l
             /\ r.timer.hook_node = IF left THEN TICK ELSE NULL
             /\ r.timer.hook_clock = IF left THEN TICK ELSE l
             /\ r.timer.clock_hooks[1] = b.timer.clock_hooks[1]
             /\ r.timer.clock_hooks[TICK] = b.timer.clock_hooks[TICK]
             /\ r.elapsed[1] = b.elapsed[1] /\ r.elapsed[TICK] = b.elapsed[TICK]
             /\ r.timer.count = b.timer.count /\ r.timer.timer_shortest = b.timer.timer_shortest
  BY <1>0, <1>6, <1>7, <1>9, <1>10, Zenon DEF Interrupted, r, q, x
<1>11. CASE left
  <2> DEFINE S == {k \in 0 .. MAXCLOCKS - 2 : f[2 + k] = b}
  <2>1. 0 \in S
    BY NodeFact DEF b
  <2>2. ASSUME NEW k \in 1 .. MAXCLOCKS - 2, k - 1 \in S PROVE k \in S
    <3>1. /\ 2 + k \in 2 + 1 .. MAXCLOCKS /\ 2 + (k - 1) = 2 + k - 1 /\ k \in 0 .. MAXCLOCKS - 2
      BY NodeFact
    <3>2. f[2 + k - 1] = b
      BY <2>2, <3>1
    <3>3. f[2 + k] = OneTurn(b, ms, switches)
      BY <1>4, <3>1, <3>2 DEF Turning
    <3>4. OneTurn(b, ms, switches) = b
      BY <1>9, <1>11 DEF OneTurn
    <3> QED BY <3>1, <3>3, <3>4
  <2>3. MAXCLOCKS - 2 \in Nat
    BY NodeFact
  <2> HIDE DEF S
  <2>4. 0 .. MAXCLOCKS - 2 \subseteq S
    BY <2>1, <2>2, <2>3, Upto
  <2>5. MAXCLOCKS - 2 \in S
    BY <2>3, <2>4
  <2>6. f[2 + (MAXCLOCKS - 2)] = b
    BY <2>5 DEF S
  <2>7. r = b
    BY <1>1, <2>6, NodeFact
  <2> QED BY <1>9, <1>11, <2>7
<1>12. CASE ~left
  <2>1. b.stop = "no" /\ b.timer.hook_node = IF TICK < l THEN 3 ELSE NULL
    BY <1>9, <1>12, NodeFact
  <2>2. /\ 2 \in 0 .. 2 /\ f[2] = b
    BY DEF b
  <2>3. /\ Len(b.timer.clock_hooks) \in TICK .. MAXCLOCKS
        /\ b.timer.hook_node \in {NULL, 3} /\ b.timer.hook_node <= Len(b.timer.clock_hooks)
    BY <1>3, <1>9, <2>1, NodeFact
  <2>4. Rested(f[2], f[MAXCLOCKS])
    <3>1. /\ f[2] \in LoopState /\ f[2].stop = "no"
          /\ Len(f[2].timer.clock_hooks) \in TICK .. MAXCLOCKS
          /\ f[2].timer.hook_node \in {NULL, 3} /\ f[2].timer.hook_node <= Len(f[2].timer.clock_hooks)
      BY <1>9, <2>1, <2>2, <2>3
    <3> QED BY <1>4, <2>2, <3>1, RestOfLoop
  <2>5. Rested(b, r)
    BY <1>1, <2>2, <2>4
  <2>6. 1 \in 1 .. TICK /\ TICK \in 1 .. TICK
    BY NodeFact
  <2>7. r.timer.hook_clock = l
    <3> HIDE DEF l
    <3>1. CASE TICK < l
      <4>1. b.timer.hook_node # NULL
        BY <2>1, <3>1, NodeFact
      <4> QED BY <1>9, <2>5, <4>1 DEF Rested
    <3>2. CASE ~(TICK < l)
      <4>1. l = TICK
        BY <1>3, <3>2, NodeFact
      <4>2. b.timer.hook_node = NULL
        BY <2>1, <3>2
      <4> QED BY <1>9, <2>5, <4>1, <4>2 DEF Rested
    <3> QED BY <3>1, <3>2
  <2> QED BY <1>9, <1>12, <2>1, <2>5, <2>6, <2>7 DEF Rested, Keeps
<1> QED BY <1>11, <1>12

-----------------------------------------------------------------------------
(* Tasks.                                                                  *)

\* There is always a task to go on with: task 1 is never blocked.
LEMMA ChosenFact ==
    ASSUME ntasks \in Task, current_task \in 1 .. ntasks, NEW b \in [Task -> BOOLEAN], ~b[1]
    PROVE  Chosen(b) \in 1 .. ntasks
<1> DEFINE Ready == {j \in 1 .. ntasks : ~b[j]}
           S == {Hops(current_task, j) : j \in Ready}
<1>1. ntasks \in Nat /\ 1 \in 1 .. ntasks
  BY BoundAssumption DEF Task
<1>2. \A j \in 1 .. ntasks : Hops(current_task, j) \in Nat
  BY <1>1 DEF Hops
<1>3. S \in SUBSET Nat /\ S # {}
  <2>1. 1 \in Ready
    BY <1>1
  <2> HIDE DEF Ready
  <2>2. Ready \subseteq 1 .. ntasks
    BY DEF Ready
  <2> QED BY <1>2, <2>1, <2>2
<1>4. PICK x \in S : \A y \in S : x <= y
  BY <1>3, LeastNat
<1>5. PICK j \in Ready : x = Hops(current_task, j)
  BY <1>4
<1>6. \A k \in 1 .. ntasks : Hops(current_task, k) < Hops(current_task, j) => b[k]
  <2> SUFFICES ASSUME NEW k \in 1 .. ntasks, Hops(current_task, k) < Hops(current_task, j), ~b[k]
               PROVE  FALSE
    OBVIOUS
  <2>1. Hops(current_task, k) \in S
    OBVIOUS
  <2>2. x <= Hops(current_task, k)
    BY <1>4, <2>1
  <2> QED BY <1>2, <1>5, <2>2
<1>7. \E i \in 1 .. ntasks :
          /\ ~b[i]
          /\ \A k \in 1 .. ntasks : Hops(current_task, k) < Hops(current_task, i) => b[k]
  BY <1>5, <1>6
<1> QED BY <1>7 DEF Chosen

\* How many tasks are left in the loop when task t is put elsewhere.
LEMMA LeftCount ==
    ASSUME NEW S, NEW p \in [Task -> S], NEW t \in Task, NEW place
    PROVE  /\ Cardinality(Left(p)) \in Nat
           /\ Cardinality(Left([p EXCEPT ![t] = place])) =
                 Cardinality(Left(p)) + (IF place = "hook" THEN 1 ELSE 0)
                                      - (IF p[t] = "hook" THEN 1 ELSE 0)
<1> DEFINE L == Left(p)
           r == [p EXCEPT ![t] = place]
<1>1. IsFiniteSet(Task)
  BY FS_Interval, BoundAssumption DEF Task
<1>2. IsFiniteSet(L) /\ Cardinality(L) \in Nat
  BY <1>1, FS_Subset, FS_CardinalityType DEF Left
<1>3. t \in L <=> p[t] = "hook"
  BY DEF Left
<1>4. CASE place = "hook"
  <2>1. Left(r) = L \cup {t}
    BY <1>4 DEF Left
  <2> HIDE DEF L, r
  <2>2. Cardinality(L \cup {t}) = IF t \in L THEN Cardinality(L) ELSE Cardinality(L) + 1
    BY <1>2, FS_AddElement
  <2>3. Cardinality(Left(r)) = Cardinality(L) + 1 - (IF p[t] = "hook" THEN 1 ELSE 0)
    BY <1>2, <1>3, <2>1, <2>2
  <2> QED BY <1>2, <1>4, <2>3 DEF L, r
<1>5. CASE place # "hook"
  <2>1. Left(r) = L \ {t}
    BY <1>5 DEF Left
  <2> HIDE DEF L, r
  <2>2. Cardinality(L \ {t}) = IF t \in L THEN Cardinality(L) - 1 ELSE Cardinality(L)
    BY <1>2, FS_RemoveElement
  <2>3. Cardinality(Left(r)) = Cardinality(L) + 0 - (IF p[t] = "hook" THEN 1 ELSE 0)
    BY <1>2, <1>3, <2>1, <2>2
  <2> QED BY <1>2, <1>5, <2>3 DEF L, r
<1> QED BY <1>4, <1>5

-----------------------------------------------------------------------------
(* Time.                                                                   *)

LEMMA PeriodFact ==
    /\ ONE_TICK \in Nat /\ ONE_TICK > 0 /\ TIME_SLICE_MAX \in Nat /\ TIME_SLICE_MAX > 0
    /\ TIME_SLICE_MAX <= ONE_TICK
BY PeriodAssumption

\* The first two clocks.
LEMMA HookTypes ==
    ASSUME NEW u \in TimerType, Hooks(u)
    PROVE  /\ Len(u.clock_hooks) \in Nat /\ Len(u.clock_hooks) >= 2 /\ Len(u.clock_hooks) <= MAXCLOCKS
           /\ u.clock_hooks[1].ms_left \in Int /\ u.clock_hooks[TICK].ms_left \in Int
           /\ u.count \in Nat /\ u.timer_shortest \in Nat
<1>1. Len(u.clock_hooks) \in Nat /\ Len(u.clock_hooks) >= 2 /\ Len(u.clock_hooks) <= MAXCLOCKS
  BY NodeFact DEF Hooks
<1>2. u.clock_hooks[1] \in Clock /\ u.clock_hooks[TICK] \in Clock
  BY <1>1, NodeFact DEF TimerType
<1> QED BY <1>1, <1>2, ClockType DEF TimerType

\* k periods, and one more or one less.
LEMMA Periods ==
    ASSUME NEW k \in Nat
    PROVE  /\ k * TIME_SLICE_MAX \in Nat
           /\ (k + 1) * TIME_SLICE_MAX = k * TIME_SLICE_MAX + TIME_SLICE_MAX
           /\ (k - 1) * TIME_SLICE_MAX = k * TIME_SLICE_MAX - TIME_SLICE_MAX
           /\ k > 0 => (k - 1) * TIME_SLICE_MAX \in Nat
<1>1. \A a, b \in Nat : a * b \in Nat
  OBVIOUS
<1>2. TIME_SLICE_MAX \in Nat
  BY PeriodFact
<1>3. (k + 1) * TIME_SLICE_MAX = k * TIME_SLICE_MAX + TIME_SLICE_MAX
  BY <1>2
<1>4. (k - 1) * TIME_SLICE_MAX = k * TIME_SLICE_MAX - TIME_SLICE_MAX
  BY <1>2
<1>5. k > 0 => k - 1 \in Nat
  OBVIOUS
<1> QED BY <1>1, <1>2, <1>3, <1>4, <1>5

\* A task that goes on adds one period where it was expected to.
LEMMA ResumeOnTime ==
    ASSUME NEW s \in LoopState, NEW r, NEW k \in Nat, k > 0, Hooks(s.timer), Resumed(s, r),
           OnTime(s.timer, s.elapsed[1], s.elapsed[TICK], k)
    PROVE  /\ r.timer \in TimerType /\ r.elapsed \in [1 .. MAXCLOCKS -> Nat] /\ r.stop = "no"
           /\ Hooks(r.timer)
           /\ OnTime(r.timer, r.elapsed[1], r.elapsed[TICK], k - 1)
<1> DEFINE u == s.timer
           w == r.timer
           e == s.elapsed[TICK]
           m == u.clock_hooks[TICK].ms_left
           l == Len(u.clock_hooks)
           n == w.clock_hooks[TICK].ms_left
<1>1. w \in TimerType /\ r.elapsed \in [1 .. MAXCLOCKS -> Nat] /\ r.stop = "no" /\ u \in TimerType
  BY DEF Resumed, LoopState
<1>2. /\ l \in Nat /\ l >= 2 /\ l <= MAXCLOCKS /\ m \in Int /\ u.count \in Nat /\ u.timer_shortest \in Nat
  BY <1>1, HookTypes
<1>3. e \in Nat
  <2>1. s.elapsed \in [1 .. MAXCLOCKS -> Nat] /\ TICK \in 1 .. MAXCLOCKS
    BY NodeFact DEF LoopState
  <2> QED BY <2>1
<1>4. Hooks(w)
  BY DEF Hooks, Resumed
<1>5. /\ w.hook_node = NULL /\ Len(w.clock_hooks) = l
      /\ w.hook_clock = IF u.hook_node = TICK /\ TICK < l THEN l ELSE u.hook_clock
      /\ w.clock_hooks[1] = u.clock_hooks[1]
      /\ n = m + IF u.hook_clock = TICK THEN TIME_SLICE_MAX ELSE 0
      /\ r.elapsed[1] = s.elapsed[1] /\ r.elapsed[TICK] = e
      /\ w.count = u.count /\ w.timer_shortest = u.timer_shortest
  BY DEF Resumed, Hooks
<1>6. /\ u.clock_hooks[1].ms_left + s.elapsed[1] <= ONE_TICK /\ s.elapsed[1] < ONE_TICK
      /\ m + e <= TIME_SLICE_MAX /\ e < TIME_SLICE_MAX
      /\ u.hook_node \in {NULL, TICK} /\ u.hook_clock \in TICK .. l
      /\ u.hook_node = TICK => u.hook_clock = TICK /\ m <= 0 /\ e = 0
      /\ l = TICK => u.count >= TIME_SLICE_MAX /\ u.timer_shortest >= TIME_SLICE_MAX
      /\ l = TICK \/ (u.hook_clock = TICK /\ u.hook_node = NULL) =>
             m + e + k * TIME_SLICE_MAX <= TIME_SLICE_MAX
  BY DEF OnTime
<1> HIDE DEF u, w, e, m, l, n
<1>7. k * TIME_SLICE_MAX \in Nat /\ (k - 1) * TIME_SLICE_MAX = k * TIME_SLICE_MAX - TIME_SLICE_MAX
      /\ (k - 1) * TIME_SLICE_MAX \in Nat /\ TIME_SLICE_MAX \in Nat
  BY Periods, PeriodFact
<1> DEFINE P == TIME_SLICE_MAX
           K == k * TIME_SLICE_MAX
           J == (k - 1) * TIME_SLICE_MAX
<1>8. P \in Nat /\ K \in Nat /\ J \in Nat /\ J = K - P
  BY <1>7
<1> HIDE DEF P, K, J
<1>9. /\ n + e <= P
      /\ l = TICK \/ (w.hook_clock = TICK /\ w.hook_node = NULL) => n + e + J <= P
      /\ w.hook_clock \in TICK .. l
  <2>1. CASE u.hook_node = TICK /\ TICK < l
    <3>1. u.hook_clock = TICK /\ m <= 0 /\ e = 0 /\ n = m + P /\ w.hook_clock = l /\ l # TICK
      BY <1>2, <1>5, <1>6, <2>1, NodeFact DEF P
    <3> QED BY <1>2, <1>8, <3>1, NodeFact
  <2>2. CASE u.hook_clock = TICK /\ (l = TICK \/ u.hook_node = NULL)
    <3>1. w.hook_clock = TICK
      BY <1>5, <2>2, NodeFact
    <3>2. n = m + P /\ m + e + K <= P
      BY <1>5, <1>6, <2>2 DEF P, K
    <3> QED BY <1>2, <1>3, <1>8, <3>1, <3>2, NodeFact
  <2>3. CASE u.hook_clock # TICK
    <3>1. w.hook_clock = u.hook_clock /\ n = m /\ l # TICK
      BY <1>2, <1>5, <1>6, <2>3, NodeFact
    <3> QED BY <1>6, <2>3, <3>1 DEF P
  <2> QED BY <1>2, <1>6, <2>1, <2>2, <2>3, NodeFact
<1>10. OnTime(w, r.elapsed[1], r.elapsed[TICK], k - 1)
  <2>1. w.hook_clock # NULL /\ w.hook_clock \in {NULL} \cup TICK .. Len(w.clock_hooks)
    BY <1>2, <1>5, <1>9, NodeFact
  <2>2. w.clock_hooks[TICK].ms_left + e <= TIME_SLICE_MAX
    BY <1>9 DEF n, P
  <2>3. Len(w.clock_hooks) = TICK \/ (w.hook_clock = TICK /\ w.hook_node = NULL) =>
           w.clock_hooks[TICK].ms_left + e + (k - 1) * TIME_SLICE_MAX <= TIME_SLICE_MAX
    BY <1>5, <1>9 DEF n, P, J
  <2>4. NULL # TICK
    BY NodeFact
  <2> QED BY <1>5, <1>6, <2>1, <2>2, <2>3, <2>4 DEF OnTime
<1> QED BY <1>1, <1>4, <1>10 DEF w

\* An interrupt calls what is due, and counts the time for what is not.
LEMMA InterruptOnTime ==
    ASSUME NEW u \in TimerType, Hooks(u), NEW d \in Nat, NEW e \in Nat, NEW k \in Nat,
           OnTime(u, d, e, k), NEW switches \in BOOLEAN,
           NEW s \in LoopState, s.timer.clock_hooks = u.clock_hooks,
           s.timer.count = u.timer_shortest, s.timer.timer_shortest = u.timer_shortest,
           s.elapsed[1] <= d + u.count, s.elapsed[TICK] <= e + u.count,
           NEW r, Interrupted(s, r, u.count, switches)
    PROVE  /\ r \in LoopState /\ Hooks(r.timer)
           /\ OnTime(r.timer, r.elapsed[1], r.elapsed[TICK], k + IF r.stop = "switch" THEN 1 ELSE 0)
<1> DEFINE w == r.timer
           l == Len(u.clock_hooks)
           ms == u.count
           P == TIME_SLICE_MAX
           K == k * TIME_SLICE_MAX
           J == (k + 1) * TIME_SLICE_MAX
           m == u.clock_hooks[TICK].ms_left
           x == u.clock_hooks[1].ms_left - ms
           y == m - ms
           c == w.clock_hooks[1].ms_left
           n == w.clock_hooks[TICK].ms_left
           f == s.elapsed[1]
           g == s.elapsed[TICK]
<1>0. PICK left \in BOOLEAN : left <=> y <= 0 /\ switches
  OBVIOUS
<1>1. /\ l \in Nat /\ l >= 2 /\ l <= MAXCLOCKS /\ m \in Int /\ ms \in Nat
      /\ u.clock_hooks[1].ms_left \in Int /\ x \in Int /\ y \in Int
  <2>1. /\ l \in Nat /\ l >= 2 /\ l <= MAXCLOCKS /\ m \in Int /\ ms \in Nat
        /\ u.clock_hooks[1].ms_left \in Int
    BY HookTypes
  <2>2. \A i, j \in Int : i - j \in Int
    OBVIOUS
  <2>3. ms \in Int
    BY <2>1
  <2> HIDE DEF ms, m
  <2> QED BY <2>1, <2>2, <2>3
<1>2. f \in Nat /\ g \in Nat
  <2>1. s.elapsed \in [1 .. MAXCLOCKS -> Nat] /\ TICK \in 1 .. MAXCLOCKS /\ 1 \in 1 .. MAXCLOCKS
    BY NodeFact DEF LoopState
  <2> QED BY <2>1
<1>3. P \in Nat /\ P > 0 /\ K \in Nat /\ J = K + P /\ ONE_TICK \in Nat /\ ONE_TICK > 0
  BY Periods, PeriodFact
<1>4. /\ r \in LoopState /\ r.stop = IF left THEN "switch" ELSE "no"
      /\ Len(w.clock_hooks) = l
      /\ w.hook_node = IF left THEN TICK ELSE NULL
      /\ w.hook_clock = IF left THEN TICK ELSE l
      /\ w.clock_hooks[1].ms = ONE_TICK /\ w.clock_hooks[TICK].ms = P
      /\ c = IF x <= 0 THEN x + ONE_TICK ELSE x
      /\ n = IF y <= 0 /\ ~left THEN y + P ELSE y
      /\ r.elapsed[1] = IF x <= 0 THEN 0 ELSE f
      /\ r.elapsed[TICK] = IF y <= 0 THEN 0 ELSE g
      /\ w.count = u.timer_shortest /\ w.timer_shortest = u.timer_shortest
  BY <1>0 DEF Interrupted, Hooks
<1>5. /\ x + ms + d <= ONE_TICK /\ m + e <= P
      /\ l = TICK => ms >= P /\ u.timer_shortest >= P /\ m + e + K <= P
  <2>1. u.clock_hooks[1].ms_left + d <= ONE_TICK /\ x + ms = u.clock_hooks[1].ms_left
    BY <1>1, SMTT(30) DEF OnTime
  <2>2. /\ m + e <= P
        /\ l = TICK => ms >= P /\ u.timer_shortest >= P /\ m + e + K <= P
    BY DEF OnTime
  <2> QED BY <2>1, <2>2
<1>6. y = m - ms /\ f <= d + ms /\ g <= e + ms
  OBVIOUS
<1> HIDE DEF w, l, ms, P, K, J, m, x, y, c, n, f, g
<1>7. c + r.elapsed[1] <= ONE_TICK /\ r.elapsed[1] < ONE_TICK
  <2>1. CASE x <= 0
    BY <1>1, <1>3, <1>4, <2>1
  <2>2. CASE ~(x <= 0)
    <3>1. c = x /\ r.elapsed[1] = f
      BY <1>4, <2>2
    <3> QED BY <1>1, <1>2, <1>3, <1>5, <1>6, <2>2, <3>1
  <2> QED BY <2>1, <2>2
<1>8. n + r.elapsed[TICK] <= P /\ r.elapsed[TICK] < P
  <2>1. CASE y <= 0
    BY <1>1, <1>3, <1>4, <2>1
  <2>2. CASE ~(y <= 0)
    <3>1. n = y /\ r.elapsed[TICK] = g
      BY <1>4, <2>2
    <3> QED BY <1>1, <1>2, <1>3, <1>5, <1>6, <2>2, <3>1
  <2> QED BY <2>1, <2>2
<1>9. left => n <= 0 /\ r.elapsed[TICK] = 0
  BY <1>0, <1>4
<1>10. l = TICK => n + r.elapsed[TICK] + (IF left THEN J ELSE K) <= P
  <2> SUFFICES ASSUME l = TICK PROVE n + r.elapsed[TICK] + (IF left THEN J ELSE K) <= P
    OBVIOUS
  <2>1. y + K <= 0 /\ y <= 0
    BY <1>1, <1>3, <1>5, <1>6
  <2>2. r.elapsed[TICK] = 0
    BY <1>4, <2>1
  <2>3. CASE left
    BY <1>1, <1>3, <1>4, <2>1, <2>2, <2>3
  <2>4. CASE ~left
    BY <1>1, <1>3, <1>4, <2>1, <2>2, <2>4
  <2> QED BY <2>3, <2>4
<1>11. Hooks(w)
  BY <1>1, <1>4, NodeFact DEF Hooks, P
<1>12. /\ w.hook_node \in {NULL, TICK} /\ w.hook_clock \in {NULL} \cup TICK .. Len(w.clock_hooks)
       /\ w.hook_clock # NULL
       /\ w.hook_node = TICK => left
       /\ left => w.hook_clock = TICK
       /\ w.hook_clock = TICK /\ w.hook_node = NULL => l = TICK
  BY <1>1, <1>4, NodeFact
<1>13. OnTime(w, r.elapsed[1], r.elapsed[TICK], k + IF r.stop = "switch" THEN 1 ELSE 0)
  <2>1. CASE left
    <3>1. r.stop = "switch"
      BY <1>4, <2>1
    <3>2. OnTime(w, r.elapsed[1], r.elapsed[TICK], k + 1)
      BY <1>4, <1>5, <1>7, <1>8, <1>9, <1>10, <1>12, <2>1, Zenon DEF OnTime, P, J, n, c
    <3> QED BY <3>1, <3>2
  <2>2. CASE ~left
    <3>1. r.stop # "switch" /\ k + 0 = k
      BY <1>4, <2>2
    <3>2. OnTime(w, r.elapsed[1], r.elapsed[TICK], k)
      BY <1>4, <1>5, <1>7, <1>8, <1>10, <1>12, <2>2, Zenon DEF OnTime, P, K, n, c
    <3> QED BY <3>1, <3>2
  <2> QED BY <2>1, <2>2
<1> QED BY <1>4, <1>11, <1>13 DEF w

-----------------------------------------------------------------------------
(* Steps.                                                                  *)

\* A switch, from a state of the loop in which one task more may be left.
LEMMA SwitchKeeps ==
    ASSUME IInv, NEW s \in LoopState, NEW place \in {"hook", "syscall"},
           NEW b \in [Task -> BOOLEAN], ~b[1], Hooks(s.timer),
           OnTime(s.timer, s.elapsed[1], s.elapsed[TICK],
                  Cardinality(Left(at)) + IF place = "hook" THEN 1 ELSE 0),
           passed' \in [Task -> Nat], ntasks' = ntasks, blocked' = b,
           SwitchFrom(s, place, b)
    PROVE  IInv'
<1> DEFINE j == Chosen(b)
           A == [at EXCEPT ![current_task] = place]
           was == IF j = current_task THEN place ELSE at[j]
           z == [s EXCEPT !.stop = "no"]
           r == IF was = "hook" THEN ResumeLoop(z, passed'[j]) ELSE s
           k == Cardinality(Left(at)) + IF place = "hook" THEN 1 ELSE 0
<1>1. /\ ntasks \in Task /\ current_task \in 1 .. ntasks /\ ntasks \in Nat
      /\ at \in [Task -> {"user", "hook", "syscall", "new"}]
      /\ \A t \in Task : at[t] = "user" <=> t = current_task
      /\ 1 .. ntasks \subseteq Task
  BY BoundAssumption DEF IInv, Task
<1>2. j \in 1 .. ntasks /\ j \in Task /\ current_task \in Task
  BY <1>1, ChosenFact
<1>3. /\ current_task' = j /\ at' = [at EXCEPT ![current_task] = place, ![j] = "user"]
      /\ timer' = r.timer /\ elapsed' = r.elapsed /\ fault' = (r.stop = "fault")
  BY DEF SwitchFrom
<1> HIDE DEF j
<1>4. /\ A \in [Task -> {"user", "hook", "syscall", "new"}] /\ at' = [A EXCEPT ![j] = "user"]
      /\ A[j] = was /\ A[j] # "user"
  BY <1>1, <1>2, <1>3
<1>5. /\ at' \in [Task -> {"user", "hook", "syscall", "new"}]
      /\ \A t \in Task : at'[t] = "user" <=> t = j
  BY <1>1, <1>2, <1>4
<1>6. Cardinality(Left(A)) = k /\ k \in Nat
  <2>1. at[current_task] # "hook"
    BY <1>1, <1>2
  <2>2. /\ Cardinality(Left(at)) \in Nat
        /\ Cardinality(Left(A)) = Cardinality(Left(at)) + (IF place = "hook" THEN 1 ELSE 0)
                                      - (IF at[current_task] = "hook" THEN 1 ELSE 0)
    BY <1>1, <1>2, LeftCount
  <2> QED BY <2>1, <2>2
<1>7. Cardinality(Left(at')) = k - IF was = "hook" THEN 1 ELSE 0
  <2> HIDE DEF A, k, was
  <2>1. Cardinality(Left([A EXCEPT ![j] = "user"])) =
            Cardinality(Left(A)) + (IF "user" = "hook" THEN 1 ELSE 0) - (IF A[j] = "hook" THEN 1 ELSE 0)
    BY <1>2, <1>4, LeftCount
  <2>2. CASE was = "hook"
    BY <1>4, <1>6, <2>1, <2>2
  <2>3. CASE was # "hook"
    BY <1>4, <1>6, <2>1, <2>3
  <2> QED BY <2>2, <2>3
<1> HIDE DEF A, k
<1>8. OnTime(s.timer, s.elapsed[1], s.elapsed[TICK], k)
  BY DEF k
<1>9. /\ r.timer \in TimerType /\ r.elapsed \in [1 .. MAXCLOCKS -> Nat] /\ r.stop # "fault"
      /\ Hooks(r.timer)
      /\ OnTime(r.timer, r.elapsed[1], r.elapsed[TICK], k - IF was = "hook" THEN 1 ELSE 0)
  <2>1. CASE was # "hook"
    <3>1. r = s /\ k - 0 = k
      BY <1>6, <2>1
    <3>2. s.timer \in TimerType /\ s.elapsed \in [1 .. MAXCLOCKS -> Nat] /\ s.stop # "fault"
      BY DEF LoopState
    <3> HIDE DEF r, was
    <3> QED BY <1>8, <2>1, <3>1, <3>2
  <2>2. CASE was = "hook"
    <3>1. j \in Left(A)
      BY <1>2, <1>4, <2>2 DEF Left
    <3>2. k > 0
      <4>1. IsFiniteSet(Left(A))
        <5>1. IsFiniteSet(Task)
          BY FS_Interval, BoundAssumption DEF Task
        <5> QED BY <5>1, FS_Subset DEF Left
      <4>2. Cardinality(Left(A)) # 0
        BY <3>1, <4>1, FS_EmptySet
      <4> QED BY <1>6, <4>2
    <3>3. /\ z \in LoopState /\ z.stop = "no" /\ z.timer = s.timer /\ z.elapsed = s.elapsed
      BY DEF LoopState
    <3>4. r = ResumeLoop(z, passed'[j]) /\ passed'[j] \in Nat
      BY <1>2, <2>2
    <3> HIDE DEF z, r, was
    <3>5. /\ Len(z.timer.clock_hooks) \in TICK .. MAXCLOCKS /\ z.timer.hook_node \in {NULL, TICK}
          /\ z.timer.hook_clock \in TICK .. Len(z.timer.clock_hooks)
      BY <1>8, <3>2, <3>3 DEF Hooks, OnTime
    <3>6. Resumed(z, r)
      BY <3>3, <3>4, <3>5, ResumeEffect
    <3>7. Hooks(z.timer) /\ OnTime(z.timer, z.elapsed[1], z.elapsed[TICK], k)
      BY <1>8, <3>3
    <3>8. /\ r.timer \in TimerType /\ r.elapsed \in [1 .. MAXCLOCKS -> Nat] /\ r.stop = "no"
          /\ Hooks(r.timer) /\ OnTime(r.timer, r.elapsed[1], r.elapsed[TICK], k - 1)
      BY <1>6, <3>2, <3>3, <3>6, <3>7, ResumeOnTime
    <3> QED BY <2>2, <3>8
  <2> QED BY <2>1, <2>2
<1> HIDE DEF r, was
<1>10. /\ ntasks' \in Task /\ current_task' \in 1 .. ntasks'
       /\ blocked' \in [Task -> BOOLEAN] /\ ~blocked'[1] /\ fault' = FALSE
       /\ \A t \in Task : at'[t] = "user" <=> t = current_task'
  BY <1>1, <1>2, <1>3, <1>5, <1>9
<1>11. /\ timer' \in TimerType /\ Hooks(timer') /\ elapsed' \in [1 .. MAXCLOCKS -> Nat]
       /\ OnTime(timer', elapsed'[1], elapsed'[TICK], Cardinality(Left(at')))
  BY <1>3, <1>7, <1>9
<1> QED BY <1>5, <1>10, <1>11 DEF IInv

\* timer_add_clock keeps the clocks there are, and adds one.
LEMMA AddEffect ==
    ASSUME NEW u \in TimerType, NEW ms \in Nat \ {0}
    PROVE  LET r == timer_add_clock(u, ms)
               l == Len(u.clock_hooks) IN
           /\ r \in TimerType /\ l \in Nat /\ Len(r.clock_hooks) = l + 1
           /\ \A j \in 1 .. l : r.clock_hooks[j] = u.clock_hooks[j]
           /\ r.clock_hooks[l + 1] = [ms |-> ms, ms_left |-> ms]
           /\ r.count \in {u.count, ms} /\ (u.shortest_clock = NULL => r.count = ms)
           /\ r.timer_shortest = IF u.timer_shortest > ms \/ u.shortest_clock = NULL
                                 THEN ms ELSE u.timer_shortest
           /\ u.shortest_clock = NULL => r.shortest_clock = l + 1
           /\ r.hook_node = u.hook_node /\ r.hook_clock = u.hook_clock
<1> DEFINE q == u.clock_hooks
           c == [ms |-> ms, ms_left |-> ms]
           p == Append(q, c)
           sooner == u.timer_shortest * ms_1ms - u.count > ms * ms_1ms
           shorter == u.timer_shortest > ms \/ u.shortest_clock = NULL
           n == IF sooner \/ u.shortest_clock = NULL THEN ms ELSE u.count
           g == IF shorter THEN ms ELSE u.timer_shortest
           i == IF shorter THEN Len(q) + 1 ELSE u.shortest_clock
           r == timer_add_clock(u, ms)
<1>1. q \in Seq(Clock) /\ Len(q) \in Nat /\ c \in Clock
  BY DEF TimerType, Clock
<1>2. r = [u EXCEPT !.clock_hooks = p, !.count = n, !.timer_shortest = g, !.shortest_clock = i]
  BY DEF timer_add_clock
<1>3. n \in Nat /\ g \in Nat /\ i \in Nat
  BY <1>1 DEF TimerType
<1>4. /\ n \in {u.count, ms} /\ (u.shortest_clock = NULL => n = ms /\ i = Len(q) + 1)
      /\ g = IF u.timer_shortest > ms \/ u.shortest_clock = NULL THEN ms ELSE u.timer_shortest
  OBVIOUS
<1>5. /\ p \in Seq(Clock) /\ Len(p) = Len(q) + 1 /\ p[Len(q) + 1] = c
      /\ \A j \in 1 .. Len(q) : p[j] = q[j]
  <2> HIDE DEF q, c
  <2> QED BY <1>1
<1> HIDE DEF n, g, i, p, r
<1>6. /\ r \in TimerType /\ r.clock_hooks = p /\ r.count = n /\ r.timer_shortest = g
      /\ r.shortest_clock = i /\ r.hook_node = u.hook_node /\ r.hook_clock = u.hook_clock
  BY <1>2, <1>3, <1>5 DEF TimerType
<1> QED BY <1>1, <1>4, <1>5, <1>6 DEF r

\* The two clocks that are there from the start.
LEMMA TimerInit == Init => IInv
<1> SUFFICES ASSUME Init PROVE IInv
  OBVIOUS
<1> DEFINE u == timer_add_clock(NoClocks, ONE_TICK)
<1>0. /\ ONE_TICK \in Nat \ {0} /\ TIME_SLICE_MAX \in Nat \ {0} /\ TIME_SLICE_MAX <= ONE_TICK
  BY PeriodAssumption
<1>1. NoClocks \in TimerType /\ Len(NoClocks.clock_hooks) = 0 /\ NoClocks.shortest_clock = NULL
      /\ NoClocks.hook_node = NULL /\ NoClocks.hook_clock = NULL
  BY NodeFact DEF NoClocks, TimerType
<1>2. /\ u \in TimerType /\ Len(u.clock_hooks) = 1 /\ u.clock_hooks[1] = [ms |-> ONE_TICK, ms_left |-> ONE_TICK]
      /\ u.count = ONE_TICK /\ u.timer_shortest = ONE_TICK /\ u.shortest_clock = 1
      /\ u.hook_node = NULL /\ u.hook_clock = NULL
  <2>1. 0 + 1 = 1
    OBVIOUS
  <2>2. /\ u \in TimerType /\ Len(u.clock_hooks) = Len(NoClocks.clock_hooks) + 1
        /\ \A j \in 1 .. Len(NoClocks.clock_hooks) : u.clock_hooks[j] = NoClocks.clock_hooks[j]
        /\ u.clock_hooks[Len(NoClocks.clock_hooks) + 1] = [ms |-> ONE_TICK, ms_left |-> ONE_TICK]
        /\ u.count \in {NoClocks.count, ONE_TICK} /\ (NoClocks.shortest_clock = NULL => u.count = ONE_TICK)
        /\ u.timer_shortest = IF NoClocks.timer_shortest > ONE_TICK \/ NoClocks.shortest_clock = NULL
                               THEN ONE_TICK ELSE NoClocks.timer_shortest
        /\ (NoClocks.shortest_clock = NULL => u.shortest_clock = Len(NoClocks.clock_hooks) + 1)
        /\ u.hook_node = NoClocks.hook_node /\ u.hook_clock = NoClocks.hook_clock
    BY <1>0, <1>1, AddEffect, ZenonT(60)
  <2> HIDE DEF u
  <2> QED BY <1>1, <2>1, <2>2
<1>3. timer = timer_add_clock(u, TIME_SLICE_MAX)
  BY DEF Init
<1> HIDE DEF u
<1>4. /\ timer \in TimerType /\ Len(timer.clock_hooks) = 2
      /\ timer.clock_hooks[1] = [ms |-> ONE_TICK, ms_left |-> ONE_TICK]
      /\ timer.clock_hooks[2] = [ms |-> TIME_SLICE_MAX, ms_left |-> TIME_SLICE_MAX]
      /\ timer.count \in {ONE_TICK, TIME_SLICE_MAX} /\ timer.timer_shortest \in {ONE_TICK, TIME_SLICE_MAX}
      /\ timer.hook_node = NULL /\ timer.hook_clock = NULL
  <2>1. 1 + 1 = 2 /\ 1 \in 1 .. 1
    OBVIOUS
  <2>2. /\ timer \in TimerType /\ Len(timer.clock_hooks) = Len(u.clock_hooks) + 1
        /\ \A j \in 1 .. Len(u.clock_hooks) : timer.clock_hooks[j] = u.clock_hooks[j]
        /\ timer.clock_hooks[Len(u.clock_hooks) + 1] = [ms |-> TIME_SLICE_MAX, ms_left |-> TIME_SLICE_MAX]
        /\ timer.count \in {u.count, TIME_SLICE_MAX} /\ (u.shortest_clock = NULL => timer.count = TIME_SLICE_MAX)
        /\ timer.timer_shortest = IF u.timer_shortest > TIME_SLICE_MAX \/ u.shortest_clock = NULL
                               THEN TIME_SLICE_MAX ELSE u.timer_shortest
        /\ (u.shortest_clock = NULL => timer.shortest_clock = Len(u.clock_hooks) + 1)
        /\ timer.hook_node = u.hook_node /\ timer.hook_clock = u.hook_clock
    BY <1>0, <1>2, <1>3, AddEffect, ZenonT(60)
  <2> QED BY <1>2, <2>1, <2>2
<1>7. Hooks(timer)
  BY <1>4, NodeFact DEF Hooks
<1>8. Left(at) = {} /\ Cardinality(Left(at)) = 0
  <2>1. Left(at) = {}
    BY DEF Init, Left
  <2> QED BY <2>1, FS_EmptySet
<1>9. elapsed \in [1 .. MAXCLOCKS -> Nat] /\ elapsed[1] = 0 /\ elapsed[TICK] = 0
  BY NodeFact DEF Init
<1>10. OnTime(timer, 0, 0, 0)
  <2>1. timer.clock_hooks[1].ms_left = ONE_TICK /\ timer.clock_hooks[TICK].ms_left = TIME_SLICE_MAX
    BY <1>4, NodeFact
  <2>2. timer.count >= TIME_SLICE_MAX /\ timer.timer_shortest >= TIME_SLICE_MAX
    BY <1>0, <1>4
  <2>3. 0 * TIME_SLICE_MAX = 0
    BY <1>0
  <2> QED BY <1>0, <1>4, <2>1, <2>2, <2>3, NodeFact DEF OnTime
<1>11. /\ ntasks \in Task /\ current_task \in 1 .. ntasks
       /\ blocked \in [Task -> BOOLEAN] /\ ~blocked[1]
       /\ at \in [Task -> {"user", "hook", "syscall", "new"}]
       /\ \A t \in Task : at[t] = "user" <=> t = current_task
       /\ passed \in [Task -> Nat] /\ fault = FALSE
  BY BoundAssumption DEF Init, Task
<1> QED BY <1>4, <1>7, <1>8, <1>9, <1>10, <1>11 DEF IInv

\* An interrupt.
LEMMA InterruptKeeps ==
    ASSUME IInv, NEW switches \in BOOLEAN, timer_interrupt(switches)
    PROVE  IInv'
<1> DEFINE ms == timer.count
           E == [c \in DOMAIN elapsed |-> Later(c, ms)]
           t == [timer EXCEPT !.count = timer.timer_shortest, !.hook_node = 1]
           s == [timer |-> t, elapsed |-> E, stop |-> "no"]
           r == Loop(s, ms, switches)
           k == Cardinality(Left(at))
<1>1. /\ timer \in TimerType /\ Hooks(timer) /\ elapsed \in [1 .. MAXCLOCKS -> Nat]
      /\ OnTime(timer, elapsed[1], elapsed[TICK], k)
      /\ passed \in [Task -> Nat] /\ current_task \in Task
      /\ at \in [Task -> {"user", "hook", "syscall", "new"}]
      /\ blocked \in [Task -> BOOLEAN] /\ ~blocked[1]
  BY BoundAssumption DEF IInv, Task
<1>2. /\ ms \in Nat /\ timer.timer_shortest \in Nat /\ timer.clock_hooks \in Seq(Clock)
      /\ Len(timer.clock_hooks) \in Nat /\ Len(timer.clock_hooks) >= 2 /\ Len(timer.clock_hooks) <= MAXCLOCKS
  BY <1>1, HookTypes DEF TimerType
<1>3. ASSUME NEW c \in 1 .. MAXCLOCKS
      PROVE  Later(c, ms) \in Nat /\ Later(c, ms) <= elapsed[c] + ms
  <2>1. elapsed[c] \in Nat
    BY <1>1
  <2>2. CASE c > Len(timer.clock_hooks)
    BY <1>2, <2>1, <2>2 DEF Later
  <2>3. CASE ~(c > Len(timer.clock_hooks))
    <3>1. c \in 1 .. Len(timer.clock_hooks)
      BY <1>2, <2>3, NodeFact
    <3> DEFINE p == timer.clock_hooks[c].ms
    <3>2. p \in Nat
      BY <1>2, <3>1, ClockType
    <3>3. Later(c, ms) = IF elapsed[c] + ms < 2 * p THEN elapsed[c] + ms ELSE 2 * p
      BY <2>3 DEF Later
    <3> HIDE DEF p, ms
    <3> QED BY <1>2, <2>1, <3>2, <3>3
  <2> QED BY <2>2, <2>3
<1>4. /\ E \in [1 .. MAXCLOCKS -> Nat] /\ E[1] <= elapsed[1] + ms /\ E[TICK] <= elapsed[TICK] + ms
  <2>1. 1 \in 1 .. MAXCLOCKS /\ TICK \in 1 .. MAXCLOCKS /\ DOMAIN elapsed = 1 .. MAXCLOCKS
    BY <1>1, NodeFact
  <2> HIDE DEF ms
  <2> QED BY <1>3, <2>1
<1>5. /\ t \in TimerType /\ t.clock_hooks = timer.clock_hooks /\ t.count = timer.timer_shortest
      /\ t.timer_shortest = timer.timer_shortest /\ t.hook_node = 1
  BY <1>1, <1>2 DEF TimerType
<1>6. [State EXCEPT !.timer.count = timer.timer_shortest, !.timer.hook_node = 1, !.elapsed = E] = s
  <2> DEFINE a == [timer EXCEPT !.count = timer.timer_shortest]
             w == [State EXCEPT !.timer.count = timer.timer_shortest]
             v == [State EXCEPT !.timer.count = timer.timer_shortest, !.timer.hook_node = 1]
  <2> HIDE DEF E
  <2>1. v = [timer |-> t, elapsed |-> elapsed, stop |-> "no"]
    <3>1. w = [timer |-> a, elapsed |-> elapsed, stop |-> "no"]
      BY DEF State
    <3>2. v = [w EXCEPT !.timer.hook_node = 1] /\ t = [a EXCEPT !.hook_node = 1]
      OBVIOUS
    <3> HIDE DEF w, a, v, t
    <3> QED BY <3>1, <3>2
  <2>2. [State EXCEPT !.timer.count = timer.timer_shortest, !.timer.hook_node = 1, !.elapsed = E]
            = [v EXCEPT !.elapsed = E]
    OBVIOUS
  <2> HIDE DEF v, t
  <2> QED BY <2>1, <2>2
<1>7. /\ ntasks' = ntasks /\ blocked' = blocked
      /\ IF r.stop = "switch"
         THEN /\ passed' = [passed EXCEPT ![current_task] = ms]
              /\ SwitchFrom(r, "hook", blocked)
         ELSE /\ timer' = r.timer
              /\ elapsed' = r.elapsed
              /\ fault' = (r.stop = "fault")
              /\ UNCHANGED <<current_task, at, passed>>
  <2> HIDE DEF s
  <2> QED BY <1>6 DEF timer_interrupt
<1> HIDE DEF E, t
<1>8. /\ s \in LoopState /\ s.stop = "no" /\ s.timer = t /\ s.elapsed = E
  BY <1>4, <1>5 DEF LoopState
<1> HIDE DEF s
<1>9. Interrupted(s, r, ms, switches)
  <2>1. Len(s.timer.clock_hooks) \in TICK .. MAXCLOCKS /\ s.timer.hook_node = 1
    BY <1>2, <1>5, <1>8, NodeFact
  <2> QED BY <1>2, <1>8, <2>1, InterruptEffect
<1>10. k \in Nat
  BY <1>1, LeftCount
<1>11. elapsed[1] \in Nat /\ elapsed[TICK] \in Nat
  BY <1>1, NodeFact
<1> HIDE DEF r, k
<1>12. /\ r \in LoopState /\ Hooks(r.timer)
       /\ OnTime(r.timer, r.elapsed[1], r.elapsed[TICK], k + IF r.stop = "switch" THEN 1 ELSE 0)
  BY <1>1, <1>4, <1>5, <1>8, <1>9, <1>10, <1>11, InterruptOnTime, ZenonT(60)
<1>13. CASE r.stop = "switch"
  <2>1. passed' \in [Task -> Nat]
    BY <1>1, <1>2, <1>7, <1>13
  <2>2. OnTime(r.timer, r.elapsed[1], r.elapsed[TICK], Cardinality(Left(at)) + IF "hook" = "hook" THEN 1 ELSE 0)
    BY <1>12, <1>13 DEF k
  <2>3. SwitchFrom(r, "hook", blocked) /\ "hook" \in {"hook", "syscall"}
    BY <1>7, <1>13
  <2> QED BY <1>1, <1>7, <1>12, <2>1, <2>2, <2>3, SwitchKeeps
<1>14. CASE r.stop # "switch"
  <2>1. r.timer \in TimerType /\ r.elapsed \in [1 .. MAXCLOCKS -> Nat] /\ r.stop # "fault" /\ k + 0 = k
    BY <1>10, <1>12 DEF LoopState
  <2>2. OnTime(r.timer, r.elapsed[1], r.elapsed[TICK], k)
    BY <1>12, <1>14, <2>1
  <2>3. timer' = r.timer /\ elapsed' = r.elapsed /\ fault' = FALSE /\ UNCHANGED <<current_task, at, passed>>
    BY <1>7, <1>14, <2>1
  <2> QED BY <1>7, <1>12, <2>1, <2>2, <2>3 DEF IInv, k
<1> QED BY <1>13, <1>14

\* The other steps.
LEMMA BlockKeeps == IInv /\ Block => IInv'
<1> SUFFICES ASSUME IInv, Block PROVE IInv'
  OBVIOUS
<1> DEFINE b == [blocked EXCEPT ![current_task] = TRUE]
<1>1. blocked' = b /\ ntasks' = ntasks /\ passed' = passed /\ SwitchFrom(State, "syscall", b) /\ current_task # 1
  BY DEF Block
<1>2. /\ b \in [Task -> BOOLEAN] /\ ~b[1] /\ passed' \in [Task -> Nat]
  BY <1>1, BoundAssumption DEF IInv, Task
<1>3. /\ State \in LoopState /\ State.timer = timer /\ State.elapsed = elapsed
  BY DEF State, LoopState, IInv
<1>4. Cardinality(Left(at)) + 0 = Cardinality(Left(at))
  <2>1. at \in [Task -> {"user", "hook", "syscall", "new"}] /\ 1 \in Task
    BY BoundAssumption DEF IInv, Task
  <2>2. Cardinality(Left(at)) \in Nat
    BY <2>1, LeftCount
  <2> QED BY <2>2
<1>5. Hooks(State.timer) /\ OnTime(State.timer, State.elapsed[1], State.elapsed[TICK],
                                   Cardinality(Left(at)) + IF "syscall" = "hook" THEN 1 ELSE 0)
  BY <1>3, <1>4 DEF IInv
<1> HIDE DEF b
<1> QED BY <1>1, <1>2, <1>3, <1>5, SwitchKeeps

LEMMA AddKeeps ==
    ASSUME IInv, NEW ms \in LATER, AddClock(ms)
    PROVE  IInv'
<1> DEFINE l == Len(timer.clock_hooks)
           k == Cardinality(Left(at))
<1>1. /\ timer \in TimerType /\ Hooks(timer) /\ ms \in Nat \ {0}
      /\ OnTime(timer, elapsed[1], elapsed[TICK], k)
  BY PeriodAssumption DEF IInv
<1>2. l \in Nat /\ l >= 2 /\ l < MAXCLOCKS
  BY <1>1, HookTypes DEF AddClock
<1>3. /\ timer' \in TimerType /\ Len(timer'.clock_hooks) = l + 1
      /\ \A j \in 1 .. l : timer'.clock_hooks[j] = timer.clock_hooks[j]
      /\ timer'.hook_node = timer.hook_node /\ timer'.hook_clock = timer.hook_clock
  BY <1>1, AddEffect, ZenonT(60) DEF AddClock
<1>4. timer'.clock_hooks[1] = timer.clock_hooks[1] /\ timer'.clock_hooks[TICK] = timer.clock_hooks[TICK]
  <2>1. 1 \in 1 .. l /\ TICK \in 1 .. l
    BY <1>2, NodeFact
  <2> QED BY <1>3, <2>1
<1>5. Hooks(timer')
  BY <1>1, <1>2, <1>3, <1>4, NodeFact DEF Hooks
<1>6. OnTime(timer', elapsed[1], elapsed[TICK], k)
  <2>1. Len(timer'.clock_hooks) # TICK
    BY <1>2, <1>3, NodeFact
  <2>2. timer.hook_clock \in {NULL} \cup TICK .. Len(timer'.clock_hooks)
    <3>1. timer.hook_clock \in {NULL} \cup TICK .. l
      BY <1>1 DEF OnTime
    <3> QED BY <1>2, <1>3, <3>1, NodeFact
  <2> QED BY <1>1, <1>3, <1>4, <2>1, <2>2 DEF OnTime
<1>7. UNCHANGED <<taskVars, passed, fault, elapsed>>
  BY DEF AddClock
<1> QED BY <1>3, <1>5, <1>6, <1>7 DEF IInv, taskVars

LEMMA TimerNext == IInv /\ [Next]_vars => IInv'
<1> SUFFICES ASSUME IInv, [Next]_vars PROVE IInv'
  OBVIOUS
<1>1. ASSUME NEW switches \in BOOLEAN, timer_interrupt(switches) PROVE IInv'
  BY <1>1, InterruptKeeps
<1>2. CASE Block
  BY <1>2, BlockKeeps
<1>3. ASSUME NEW t \in Task, Awake(t) PROVE IInv'
  <2>1. blocked' \in [Task -> BOOLEAN] /\ ~blocked'[1]
    BY <1>3, BoundAssumption DEF IInv, Awake, Task
  <2> QED BY <1>3, <2>1 DEF IInv, Awake
<1>4. CASE NewTask
  <2>1. ntasks' \in Task /\ current_task \in 1 .. ntasks'
    BY <1>4, BoundAssumption DEF IInv, NewTask, Task
  <2> QED BY <1>4, <2>1 DEF IInv, NewTask
<1>5. ASSUME NEW ms \in LATER, AddClock(ms) PROVE IInv'
  BY <1>5, AddKeeps
<1>6. CASE UNCHANGED vars
  BY <1>6 DEF IInv, vars, taskVars
<1> QED BY <1>1, <1>2, <1>3, <1>4, <1>5, <1>6 DEF Next, DriftBound

-----------------------------------------------------------------------------
(* Results.                                                                *)

\* The loop of timer_interrupt never follows a null hook_node, however many tasks
\* are left inside it, and between interrupts hook_node and hook_clock rest where
\* the type invariant says.
THEOREM HookNodeNeverNull == Spec => []NullNeverFollowed
<1>1. IInv => NullNeverFollowed
  <2> SUFFICES ASSUME IInv PROVE NullNeverFollowed
    OBVIOUS
  <2>1. timer.hook_node \in {NULL, TICK} /\ timer.hook_clock \in {NULL} \cup TICK .. Len(timer.clock_hooks)
    BY DEF IInv, OnTime
  <2>2. timer.hook_clock \in 0 .. Len(timer.clock_hooks)
    <3>1. Len(timer.clock_hooks) \in Nat
      BY HookTypes DEF IInv
    <3> QED BY <2>1, <3>1, NodeFact
  <2> QED BY <2>1, <2>2 DEF IInv, NullNeverFollowed, TypeOK
<1> QED BY TimerInit, TimerNext, <1>1, PTL DEF Spec

\* tasking_tick and one_tick are called in the first interrupt after their period is
\* over, whatever tasks are switched to, blocked and created meanwhile and whatever
\* clocks are added: preemption never stops.
THEOREM TickPunctual == Spec => []Punctual
<1>1. IInv => Punctual
  <2> SUFFICES ASSUME IInv, NEW c \in 1 .. TICK PROVE elapsed[c] < timer.clock_hooks[c].ms
    BY DEF Punctual
  <2>1. c = 1 \/ c = TICK
    BY NodeFact
  <2> QED BY <2>1 DEF IInv, Hooks, OnTime
<1> QED BY TimerInit, TimerNext, <1>1, PTL DEF Spec

-----------------------------------------------------------------------------
(* The lists clock_hooks is one of.                                        *)

ListType(m) == [rnd : BOOLEAN, head : 0 .. m, tail : 0 .. m, elements : 0 .. m]
ListNode    == [prev : 0 .. MAXNODES, next : 0 .. MAXNODES, data : Data \cup {0}]

\* The links of list l with nodes f, of which m are allocated, stay among those.
Within(l, f, m) ==
    /\ MAXNODES \in Nat /\ m \in 0 .. MAXNODES
    /\ l \in ListType(m)
    /\ f \in [1 .. MAXNODES -> ListNode]
    /\ \A n \in 1 .. MAXNODES : f[n].prev \in 0 .. m /\ f[n].next \in 0 .. m

\* They spell out c, whose nodes differ.  elements counts those of c at least, and
\* none only if none was ever added: the first node stays.
Spells(l, f, c, m) ==
    /\ Len(c) <= l.elements /\ (Len(c) = 0 => l.elements = 0 /\ l.head = 0 /\ l.tail = 0)
    /\ \A k \in 1 .. Len(c) : c[k] \in 1 .. m
    /\ \A j, k \in 1 .. Len(c) : c[j] = c[k] => j = k
    /\ Len(c) > 0 => /\ l.head = c[1] /\ l.tail = c[Len(c)]
                     /\ f[c[Len(c)]].next = IF l.rnd THEN l.head ELSE 0
                     /\ ~l.rnd => f[c[1]].prev = 0
    /\ \A k \in 1 .. Len(c) - 1 : f[c[k]].next = c[k + 1] /\ f[c[k + 1]].prev = c[k]

ListInv ==
    /\ Within(list, node, nalloc)
    /\ freed \subseteq 1 .. nalloc
    /\ hung \in BOOLEAN /\ broken \in BOOLEAN
    /\ content \in Seq(1 .. MAXNODES)
    /\ ~broken => Spells(list, node, content, nalloc)

\* The nodes f that Follow(k) meets.
Walk(f, k) ==
    f = [j \in 0 .. k |-> IF j = 0 THEN list.head
                          ELSE IF f[j - 1] = 0 THEN 0 ELSE node[f[j - 1]].next]

\* The recursive function of Follow exists, so that it has its values.
LEMMA FollowRuns ==
    ASSUME NEW k \in Nat
    PROVE  \E f : Walk(f, k) /\ Follow(k) = f[k]
<1> DEFINE Good == {l \in Nat : \E f : Walk(f, l)}
           Step(v) == IF v = 0 THEN 0 ELSE node[v].next
<1>1. 0 \in Good
  <2> DEFINE f == [j \in 0 .. 0 |-> list.head]
  <2>1. Walk(f, 0)
    BY DEF Walk
  <2> QED BY <2>1
<1>2. ASSUME NEW l \in 1 .. k, l - 1 \in Good PROVE l \in Good
  <2>1. PICK f : Walk(f, l - 1)
    BY <1>2
  <2> DEFINE g == [j \in 0 .. l |-> IF j \in 0 .. l - 1 THEN f[j] ELSE Step(f[l - 1])]
  <2>2. l \in Nat \ {0} /\ l - 1 \in 0 .. l - 1
    OBVIOUS
  <2>3. \A j \in 0 .. l - 1 : g[j] = f[j]
    BY <2>2
  <2>4. \A j \in 0 .. l : g[j] = IF j = 0 THEN list.head ELSE Step(g[j - 1])
    <3> TAKE j \in 0 .. l
    <3>1. CASE j = l
      BY <2>2, <2>3, <3>1
    <3>2. CASE j \in 0 .. l - 1
      <4>1. f[j] = IF j = 0 THEN list.head ELSE Step(f[j - 1])
        BY <2>1, <3>2 DEF Walk
      <4>2. j # 0 => j - 1 \in 0 .. l - 1
        BY <2>2, <3>2
      <4> HIDE DEF g, Step
      <4> QED BY <2>3, <3>2, <4>1, <4>2
    <3> QED BY <2>2, <3>1, <3>2
  <2>5. Walk(g, l)
    BY <2>4 DEF Walk
  <2> QED BY <2>2, <2>5
<1>3. k \in Good
  <2> HIDE DEF Good
  <2>1. 0 .. k \subseteq Good
    BY <1>1, <1>2, Upto
  <2> QED BY <2>1
<1> DEFINE f == CHOOSE g : Walk(g, k)
<1>4. Walk(f, k)
  BY <1>3
<1>5. Follow(k) = f[k]
  BY DEF Follow, Walk
<1> QED BY <1>4, <1>5

\* Following links stays among the nodes allocated.
LEMMA FollowWithin ==
    ASSUME Within(list, node, nalloc), NEW k \in Nat
    PROVE  Follow(k) \in 0 .. nalloc
<1>1. PICK f : Walk(f, k) /\ Follow(k) = f[k]
  BY FollowRuns
<1> DEFINE S == {j \in 0 .. k : f[j] \in 0 .. nalloc}
<1>2. 0 \in S
  BY <1>1 DEF Walk, Within, ListType
<1>3. ASSUME NEW j \in 1 .. k, j - 1 \in S PROVE j \in S
  <2>1. f[j] = IF f[j - 1] = 0 THEN 0 ELSE node[f[j - 1]].next
    BY <1>1 DEF Walk
  <2>2. f[j - 1] \in 0 .. nalloc /\ nalloc \in 0 .. MAXNODES /\ MAXNODES \in Nat
    BY <1>3 DEF Within
  <2>3. f[j - 1] # 0 => f[j - 1] \in 1 .. MAXNODES
    BY <2>2
  <2> QED BY <2>1, <2>2, <2>3 DEF Within
<1>4. 0 .. k \subseteq S
  <2> HIDE DEF S
  <2> QED BY <1>2, <1>3, Upto
<1> QED BY <1>1, <1>4

\* A plain list is met from the head to the tail, and then nothing.
LEMMA FollowPlain ==
    ASSUME content \in Seq(1 .. MAXNODES), Spells(list, node, content, nalloc),
           ~list.rnd \/ Len(content) = 0, NEW k \in Nat
    PROVE  Follow(k) = IF k < Len(content) THEN content[k + 1] ELSE 0
<1> DEFINE n == Len(content)
<1>0. n \in Nat
  OBVIOUS
<1>1. PICK f : Walk(f, k) /\ Follow(k) = f[k]
  BY FollowRuns
<1> DEFINE S == {j \in 0 .. k : f[j] = IF j < n THEN content[j + 1] ELSE 0}
<1>2. 0 \in S
  BY <1>0, <1>1 DEF Walk, Spells
<1>3. ASSUME NEW j \in 1 .. k, j - 1 \in S PROVE j \in S
  <2>1. f[j] = IF f[j - 1] = 0 THEN 0 ELSE node[f[j - 1]].next
    BY <1>1 DEF Walk
  <2>2. f[j - 1] = IF j - 1 < n THEN content[j] ELSE 0
    BY <1>3
  <2>3. CASE j < n
    <3>1. j \in 1 .. n - 1 /\ j \in 1 .. n
      BY <1>0, <2>3
    <3>2. node[content[j]].next = content[j + 1] /\ content[j] # 0
      BY <3>1 DEF Spells
    <3> QED BY <1>0, <2>1, <2>2, <2>3, <3>2
  <2>4. CASE j = n
    <3>1. node[content[n]].next = 0
      BY <1>0, <2>4 DEF Spells
    <3> QED BY <1>0, <2>1, <2>2, <2>4, <3>1
  <2>5. CASE j > n
    BY <1>0, <2>1, <2>2, <2>5
  <2> QED BY <1>0, <2>3, <2>4, <2>5
<1>4. 0 .. k \subseteq S
  <2> HIDE DEF S
  <2> QED BY <1>2, <1>3, Upto
<1> QED BY <1>1, <1>4

\* The next of a number of nodes, counted round.
LEMMA NextRound ==
    ASSUME NEW n \in Nat \ {0}, NEW j \in Nat \ {0}
    PROVE  (j % n) = IF ((j - 1) % n) + 1 = n THEN 0 ELSE ((j - 1) % n) + 1
<1> DEFINE q == j \div n
           r == (j % n)
           p == (j - 1) \div n
           s == ((j - 1) % n)
<1>1. q \in Int /\ r \in 0 .. n - 1 /\ j = n * q + r
  OBVIOUS
<1>2. p \in Int /\ s \in 0 .. n - 1 /\ j - 1 = n * p + s
  OBVIOUS
<1> HIDE DEF q, r, p, s
<1>3. CASE s + 1 = n
  <2>1. j = n * (p + 1)
    BY <1>2, <1>3
  <2>2. n * (p + 1) = n * q + r
    BY <1>1, <2>1
  <2>3. q = p + 1
    BY <1>1, <1>2, <2>2
  <2> QED BY <1>1, <1>2, <1>3, <2>1, <2>2, <2>3
<1>4. CASE s + 1 < n
  <2>1. q = p
    BY <1>1, <1>2, <1>4
  <2> QED BY <1>1, <1>2, <1>4, <2>1
<1> QED BY <1>1, <1>2, <1>3, <1>4 DEF r, s

\* A round list is met again and again.
LEMMA FollowRound ==
    ASSUME content \in Seq(1 .. MAXNODES), Spells(list, node, content, nalloc),
           list.rnd, Len(content) # 0, NEW k \in Nat
    PROVE  /\ (k % Len(content)) + 1 \in 1 .. Len(content)
           /\ Follow(k) = content[(k % Len(content)) + 1]
<1> DEFINE n == Len(content)
           R(j) == (j % n) + 1
<1>0. n \in Nat \ {0} /\ \A j \in Nat : R(j) \in 1 .. n
  OBVIOUS
<1>1. PICK f : Walk(f, k) /\ Follow(k) = f[k]
  BY FollowRuns
<1>2. R(0) = 1
  BY <1>0
<1>3. \A j \in Nat \ {0} : R(j) = IF R(j - 1) = n THEN 1 ELSE R(j - 1) + 1
  <2> TAKE j \in Nat \ {0}
  <2>1. (j % n) = IF ((j - 1) % n) + 1 = n THEN 0 ELSE ((j - 1) % n) + 1
    BY <1>0, NextRound
  <2>2. j \in Nat /\ j - 1 \in Nat
    OBVIOUS
  <2> HIDE DEF n
  <2>3. (j % n) \in Nat /\ ((j - 1) % n) \in Nat
    <3>1. \A i \in Nat : (i % n) \in Nat
      BY <1>0
    <3> QED BY <2>2, <3>1
  <2> QED BY <2>1, <2>3
<1> HIDE DEF R
<1> DEFINE S == {j \in 0 .. k : f[j] = content[R(j)]}
<1>4. 0 \in S
  BY <1>0, <1>1, <1>2 DEF Walk, Spells
<1>5. ASSUME NEW j \in 1 .. k, j - 1 \in S PROVE j \in S
  <2> DEFINE i == R(j - 1)
  <2>1. f[j] = IF f[j - 1] = 0 THEN 0 ELSE node[f[j - 1]].next
    BY <1>1 DEF Walk
  <2>2. f[j - 1] = content[i] /\ i \in 1 .. n /\ R(j) = IF i = n THEN 1 ELSE i + 1
    <3>1. j \in Nat \ {0} /\ j - 1 \in Nat
      OBVIOUS
    <3> QED BY <1>0, <1>3, <1>5, <3>1
  <2> HIDE DEF i
  <2>3. content[i] # 0
    BY <2>2 DEF Spells
  <2>4. CASE i = n
    <3>1. n > 0
      BY <1>0
    <3>2. node[content[n]].next = content[1]
      BY <3>1 DEF Spells
    <3> QED BY <2>1, <2>2, <2>3, <2>4, <3>2
  <2>5. CASE i # n
    <3>1. i \in 1 .. n - 1
      BY <1>0, <2>2, <2>5
    <3>2. node[content[i]].next = content[i + 1]
      BY <3>1 DEF Spells
    <3> QED BY <2>1, <2>2, <2>3, <2>5, <3>2
  <2> QED BY <2>4, <2>5
<1>6. 0 .. k \subseteq S
  <2> HIDE DEF S
  <2> QED BY <1>4, <1>5, Upto
<1>7. k \in S
  BY <1>6
<1> QED BY <1>0, <1>1, <1>7 DEF R

\* Sequence t of S is s with e at place i, or without its place i.
Widened(S, s, i, e, t) ==
    /\ t \in Seq(S) /\ Len(t) = Len(s) + 1 /\ t[i] = e
    /\ \A k \in 1 .. i - 1 : t[k] = s[k]
    /\ \A k \in i + 1 .. Len(s) + 1 : t[k] = s[k - 1]

Narrowed(S, s, i, t) ==
    /\ t \in Seq(S) /\ Len(t) = Len(s) - 1
    /\ \A k \in 1 .. i - 1 : t[k] = s[k]
    /\ \A k \in i .. Len(s) - 1 : t[k] = s[k + 1]

\* InsertAt moves what comes after.
LEMMA Inserted ==
    ASSUME NEW S, NEW s \in Seq(S), NEW i \in 1 .. Len(s) + 1, NEW e \in S
    PROVE  Widened(S, s, i, e, InsertAt(s, i, e))
<1> DEFINE a == SubSeq(s, 1, i - 1)
           b == SubSeq(s, i, Len(s))
           n == Len(s)
<1>0. n \in Nat /\ i \in Nat /\ i >= 1 /\ i <= n + 1 /\ \A k \in 1 .. n : s[k] \in S
  BY LenProperties, ElementOfSeq
<1>1. /\ a \in Seq(S) /\ Len(a) = i - 1
      /\ \A k \in 1 .. i - 1 : a[k] = s[k]
  <2>1. /\ a \in Seq(S) /\ Len(a) = (IF 1 <= i - 1 THEN (i - 1) - 1 + 1 ELSE 0)
        /\ \A k \in 1 .. (i - 1) - 1 + 1 : a[k] = s[1 + k - 1]
    BY <1>0, SubSeqProperties
  <2> HIDE DEF a
  <2> QED BY <1>0, <2>1
<1>2. /\ b \in Seq(S) /\ Len(b) = n - i + 1
      /\ \A k \in 1 .. n - i + 1 : b[k] = s[i + k - 1]
  <2>1. /\ b \in Seq(S) /\ Len(b) = (IF i <= n THEN n - i + 1 ELSE 0)
        /\ \A k \in 1 .. n - i + 1 : b[k] = s[i + k - 1]
    BY <1>0, SubSeqProperties
  <2> HIDE DEF b
  <2> QED BY <1>0, <2>1
<1>3. <<e>> \in Seq(S) /\ Len(<<e>>) = 1 /\ <<e>>[1] = e
  OBVIOUS
<1>4. InsertAt(s, i, e) = a \o <<e>> \o b
  BY DEF InsertAt
<1> HIDE DEF a, b
<1> DEFINE c == a \o <<e>>
<1>5. /\ c \in Seq(S) /\ Len(c) = i /\ c[i] = e
      /\ \A k \in 1 .. i - 1 : c[k] = s[k]
  <2> DEFINE o == <<e>>
  <2>1. o \in Seq(S) /\ Len(o) = 1 /\ o[1] = e
    BY <1>3
  <2> HIDE DEF o
  <2>2. /\ a \o o \in Seq(S) /\ Len(a \o o) = Len(a) + Len(o)
        /\ \A k \in 1 .. Len(a) + Len(o) : (a \o o)[k] = IF k <= Len(a) THEN a[k] ELSE o[k - Len(a)]
    BY <1>1, <2>1, ConcatProperties
  <2>3. a \o o \in Seq(S) /\ Len(a \o o) = i /\ (a \o o)[i] = e /\ \A k \in 1 .. i - 1 : (a \o o)[k] = s[k]
    BY <1>0, <1>1, <2>1, <2>2
  <2> QED BY <2>3 DEF o
<1> HIDE DEF c
<1>6. /\ c \o b \in Seq(S) /\ Len(c \o b) = Len(c) + Len(b)
      /\ \A k \in 1 .. Len(c) + Len(b) : (c \o b)[k] = IF k <= Len(c) THEN c[k] ELSE b[k - Len(c)]
  BY <1>2, <1>5, ConcatProperties
<1> DEFINE t == c \o b
<1>7. InsertAt(s, i, e) = t
  BY <1>4 DEF c
<1> HIDE DEF t
<1>8. /\ t \in Seq(S) /\ Len(t) = n + 1
      /\ \A k \in 1 .. n + 1 : t[k] = IF k <= i THEN c[k] ELSE b[k - i]
  BY <1>0, <1>2, <1>5, <1>6 DEF t
<1>9. t[i] = e /\ \A k \in 1 .. i - 1 : t[k] = s[k]
  BY <1>0, <1>5, <1>8
<1>10. \A k \in i + 1 .. n + 1 : t[k] = s[k - 1]
  BY <1>0, <1>2, <1>8
<1> QED BY <1>7, <1>8, <1>9, <1>10 DEF Widened

\* RemoveAt closes the gap.
LEMMA Removed ==
    ASSUME NEW S, NEW s \in Seq(S), NEW i \in 1 .. Len(s)
    PROVE  Narrowed(S, s, i, RemoveAt(s, i))
<1> DEFINE a == SubSeq(s, 1, i - 1)
           b == SubSeq(s, i + 1, Len(s))
           n == Len(s)
<1>0. n \in Nat /\ i \in Nat /\ i >= 1 /\ i <= n /\ \A k \in 1 .. n : s[k] \in S
  BY LenProperties, ElementOfSeq
<1>1. /\ a \in Seq(S) /\ Len(a) = i - 1
      /\ \A k \in 1 .. i - 1 : a[k] = s[k]
  <2>1. /\ a \in Seq(S) /\ Len(a) = (IF 1 <= i - 1 THEN (i - 1) - 1 + 1 ELSE 0)
        /\ \A k \in 1 .. (i - 1) - 1 + 1 : a[k] = s[1 + k - 1]
    BY <1>0, SubSeqProperties
  <2> HIDE DEF a
  <2> QED BY <1>0, <2>1
<1>2. /\ b \in Seq(S) /\ Len(b) = n - i
      /\ \A k \in 1 .. n - i : b[k] = s[i + k]
  <2>1. /\ b \in Seq(S) /\ Len(b) = (IF i + 1 <= n THEN n - (i + 1) + 1 ELSE 0)
        /\ \A k \in 1 .. n - (i + 1) + 1 : b[k] = s[i + 1 + k - 1]
    BY <1>0, SubSeqProperties
  <2> HIDE DEF b
  <2> QED BY <1>0, <2>1, SMTT(30)
<1>3. RemoveAt(s, i) = a \o b
  BY DEF RemoveAt
<1> HIDE DEF a, b
<1>4. /\ a \o b \in Seq(S) /\ Len(a \o b) = Len(a) + Len(b)
      /\ \A k \in 1 .. Len(a) + Len(b) : (a \o b)[k] = IF k <= Len(a) THEN a[k] ELSE b[k - Len(a)]
  BY <1>1, <1>2, ConcatProperties
<1> DEFINE t == a \o b
<1>5. RemoveAt(s, i) = t
  BY <1>3
<1> HIDE DEF t
<1>6. /\ t \in Seq(S) /\ Len(t) = n - 1
      /\ \A k \in 1 .. n - 1 : t[k] = IF k <= i - 1 THEN a[k] ELSE b[k - (i - 1)]
  BY <1>0, <1>1, <1>2, <1>4 DEF t
<1>7. \A k \in 1 .. i - 1 : t[k] = s[k]
  <2>1. \A k \in 1 .. i - 1 : k \in 1 .. n - 1 /\ k <= i - 1
    BY <1>0
  <2> QED BY <1>1, <1>6, <2>1
<1>8. \A k \in i .. n - 1 : t[k] = s[k + 1]
  BY <1>0, <1>2, <1>6
<1> QED BY <1>5, <1>6, <1>7, <1>8 DEF Narrowed

\* The index RemoveFirst looks for.
LEMMA RemovedFirst ==
    ASSUME NEW S, NEW s \in Seq(S), NEW e
    PROVE  \/ RemoveFirst(s, e) = s /\ \A k \in 1 .. Len(s) : s[k] # e
           \/ \E k \in 1 .. Len(s) : s[k] = e /\ Narrowed(S, s, k, RemoveFirst(s, e))
<1> DEFINE I == {k \in 1 .. Len(s) : s[k] = e}
           m == Min(I)
<1>1. CASE I = {}
  BY <1>1 DEF RemoveFirst
<1>2. CASE I # {}
  <2>1. I \in SUBSET Nat
    OBVIOUS
  <2>2. PICK x \in I : \A y \in I : x <= y
    <3> HIDE DEF I
    <3> QED BY <1>2, <2>1, LeastNat
  <2>3. m \in I
    BY <2>2 DEF Min
  <2>4. RemoveFirst(s, e) = RemoveAt(s, m)
    BY <1>2 DEF RemoveFirst, SelectInSeq
  <2>5. m \in 1 .. Len(s) /\ s[m] = e
    BY <2>3
  <2> HIDE DEF m
  <2> QED BY <2>4, <2>5, Removed
<1> QED BY <1>1, <1>2

\* g is f but for the links of node t.
LinksSet(f, g, t, p, v) ==
    /\ g \in [1 .. MAXNODES -> ListNode]
    /\ \A x \in 1 .. MAXNODES : /\ g[x].prev = IF x = t THEN p ELSE f[x].prev
                                /\ g[x].next = IF x = t THEN v ELSE f[x].next

LEMMA NextSet ==
    ASSUME NEW f \in [1 .. MAXNODES -> ListNode], NEW t, NEW v \in 0 .. MAXNODES
    PROVE  LinksSet(f, [f EXCEPT ![t].next = v], t, f[t].prev, v)
<1> DEFINE g == [f EXCEPT ![t].next = v]
<1>1. \A x \in 1 .. MAXNODES : g[x] = IF x = t THEN [f[x] EXCEPT !.next = v] ELSE f[x]
  OBVIOUS
<1>2. \A x \in 1 .. MAXNODES : f[x] \in ListNode
  OBVIOUS
<1>3. \A u \in ListNode : /\ [u EXCEPT !.next = v] \in ListNode
                          /\ [u EXCEPT !.next = v].prev = u.prev /\ [u EXCEPT !.next = v].next = v
  BY DEF ListNode
<1>4. DOMAIN g = 1 .. MAXNODES /\ g = [x \in 1 .. MAXNODES |-> g[x]]
  OBVIOUS
<1> HIDE DEF g
<1>5. \A x \in 1 .. MAXNODES : g[x] \in ListNode
  BY <1>1, <1>2, <1>3
<1>6. g \in [1 .. MAXNODES -> ListNode]
  BY <1>4, <1>5
<1>7. LinksSet(f, g, t, f[t].prev, v)
  <2>1. ASSUME NEW x \in 1 .. MAXNODES
        PROVE  /\ g[x].prev = IF x = t THEN f[t].prev ELSE f[x].prev
               /\ g[x].next = IF x = t THEN v ELSE f[x].next
    <3>1. CASE x = t
      <4>1. g[x] = [f[x] EXCEPT !.next = v] /\ f[x] \in ListNode
        BY <1>1, <1>2, <3>1
      <4> QED BY <1>3, <3>1, <4>1
    <3>2. CASE x # t
      <4>1. g[x] = f[x]
        BY <1>1, <3>2
      <4> QED BY <3>2, <4>1
    <3> QED BY <3>1, <3>2
  <2> QED BY <1>6, <2>1 DEF LinksSet
<1> QED BY <1>7 DEF g

LEMMA PrevSet ==
    ASSUME NEW f \in [1 .. MAXNODES -> ListNode], NEW t, NEW v \in 0 .. MAXNODES
    PROVE  LinksSet(f, [f EXCEPT ![t].prev = v], t, v, f[t].next)
<1> DEFINE g == [f EXCEPT ![t].prev = v]
<1>1. \A x \in 1 .. MAXNODES : g[x] = IF x = t THEN [f[x] EXCEPT !.prev = v] ELSE f[x]
  OBVIOUS
<1>2. \A x \in 1 .. MAXNODES : f[x] \in ListNode
  OBVIOUS
<1>3. \A u \in ListNode : /\ [u EXCEPT !.prev = v] \in ListNode
                          /\ [u EXCEPT !.prev = v].next = u.next /\ [u EXCEPT !.prev = v].prev = v
  BY DEF ListNode
<1>4. DOMAIN g = 1 .. MAXNODES /\ g = [x \in 1 .. MAXNODES |-> g[x]]
  OBVIOUS
<1> HIDE DEF g
<1>5. \A x \in 1 .. MAXNODES : g[x] \in ListNode
  BY <1>1, <1>2, <1>3
<1>6. g \in [1 .. MAXNODES -> ListNode]
  BY <1>4, <1>5
<1>7. LinksSet(f, g, t, v, f[t].next)
  <2>1. ASSUME NEW x \in 1 .. MAXNODES
        PROVE  /\ g[x].prev = IF x = t THEN v ELSE f[x].prev
               /\ g[x].next = IF x = t THEN f[t].next ELSE f[x].next
    <3>1. CASE x = t
      <4>1. g[x] = [f[x] EXCEPT !.prev = v] /\ f[x] \in ListNode
        BY <1>1, <1>2, <3>1
      <4> QED BY <1>3, <3>1, <4>1
    <3>2. CASE x # t
      <4>1. g[x] = f[x]
        BY <1>1, <3>2
      <4> QED BY <3>2, <4>1
    <3> QED BY <3>1, <3>2
  <2> QED BY <1>6, <2>1 DEF LinksSet
<1> QED BY <1>7 DEF g

LEMMA NodeSet ==
    ASSUME NEW f \in [1 .. MAXNODES -> ListNode], NEW t \in 1 .. MAXNODES,
           NEW p \in 0 .. MAXNODES, NEW v \in 0 .. MAXNODES, NEW d \in Data
    PROVE  LinksSet(f, [f EXCEPT ![t] = [prev |-> p, next |-> v, data |-> d]], t, p, v)
<1> DEFINE e == [prev |-> p, next |-> v, data |-> d]
<1>1. e \in ListNode /\ e.prev = p /\ e.next = v
  BY DEF ListNode
<1> HIDE DEF e
<1>2. LinksSet(f, [f EXCEPT ![t] = e], t, p, v)
  BY <1>1 DEF LinksSet
<1> QED BY <1>2 DEF e

\* List l with its fields.
ListHas(l, r, h, t, e, k) ==
    /\ l \in ListType(k) /\ l.rnd = r /\ l.head = h /\ l.tail = t /\ l.elements = e

LEMMA ListSet ==
    ASSUME NEW m, NEW l \in ListType(m), NEW k, 0 .. m \subseteq 0 .. k,
           NEW h \in 0 .. k, NEW t \in 0 .. k, NEW e \in 0 .. k
    PROVE  /\ ListHas([l EXCEPT !.head = h, !.tail = t, !.elements = e], l.rnd, h, t, e, k)
           /\ ListHas([l EXCEPT !.tail = t, !.elements = e], l.rnd, l.head, t, e, k)
           /\ ListHas([l EXCEPT !.head = h, !.elements = e], l.rnd, h, l.tail, e, k)
<1>1. l.rnd \in BOOLEAN /\ l.head \in 0 .. k /\ l.tail \in 0 .. k
  BY DEF ListType
<1> DEFINE a == [l EXCEPT !.elements = e]
           b == [a EXCEPT !.tail = t]
           c == [a EXCEPT !.head = h]
           d == [b EXCEPT !.head = h]
<1>2. a \in ListType(k) /\ a.rnd = l.rnd /\ a.head = l.head /\ a.tail = l.tail /\ a.elements = e
  BY DEF ListType
<1>3. [l EXCEPT !.tail = t, !.elements = e] = b
  BY DEF ListType
<1>4. [l EXCEPT !.head = h, !.elements = e] = c
  BY DEF ListType
<1>5. [l EXCEPT !.head = h, !.tail = t, !.elements = e] = d
  BY DEF ListType
<1> HIDE DEF a
<1>6. b \in ListType(k) /\ b.rnd = a.rnd /\ b.head = a.head /\ b.tail = t /\ b.elements = a.elements
  BY <1>2 DEF ListType
<1>7. c \in ListType(k) /\ c.rnd = a.rnd /\ c.head = h /\ c.tail = a.tail /\ c.elements = a.elements
  BY <1>2 DEF ListType
<1> HIDE DEF b, c
<1>8. d \in ListType(k) /\ d.rnd = b.rnd /\ d.head = h /\ d.tail = b.tail /\ d.elements = b.elements
  BY <1>6 DEF ListType
<1> HIDE DEF d
<1> QED BY <1>2, <1>3, <1>4, <1>5, <1>6, <1>7, <1>8 DEF ListHas

\* list_push links a new node behind the tail.
LEMMA PushKeeps ==
    ASSUME Within(list, node, nalloc), content \in Seq(1 .. MAXNODES),
           NEW d \in Data, NEW n \in nalloc + 1 .. MAXNODES, PushNode(n, d)
    PROVE  /\ Within(list', node', n)
           /\ Spells(list, node, content, nalloc) =>
                  Spells(list', node', Append(content, n), n)
<1> DEFINE c == Append(content, n)
           N == Len(content)
           t == list.tail
<1>1. /\ MAXNODES \in Nat /\ nalloc \in Nat /\ n \in 1 .. MAXNODES /\ nalloc < n
      /\ list \in ListType(nalloc) /\ node \in [1 .. MAXNODES -> ListNode]
      /\ \A x \in 1 .. MAXNODES : node[x].prev \in 0 .. nalloc /\ node[x].next \in 0 .. nalloc
  BY DEF Within
<1>2. /\ c \in Seq(1 .. MAXNODES) /\ N \in Nat /\ Len(c) = N + 1 /\ c[N + 1] = n
      /\ \A k \in 1 .. N : c[k] = content[k]
  BY <1>1
<1> HIDE DEF c
<1>5. /\ 0 .. nalloc \subseteq 0 .. n /\ 1 .. nalloc \subseteq 1 .. n /\ n \in 0 .. n /\ 1 \in 0 .. n
      /\ 0 .. n \subseteq 0 .. MAXNODES /\ 1 .. nalloc \subseteq 1 .. MAXNODES
      /\ list.elements + 1 \in 0 .. n
      /\ list.elements \in Nat /\ list.head \in 0 .. nalloc /\ t \in 0 .. nalloc
  BY <1>1 DEF ListType
<1>3. CASE list.elements = 0
  <2> DEFINE self == IF list.rnd THEN n ELSE 0
  <2>1. /\ list' = [list EXCEPT !.head = n, !.tail = n, !.elements = 1]
        /\ node' = [node EXCEPT ![n] = [prev |-> self, next |-> self, data |-> d]]
    BY <1>3 DEF PushNode
  <2>2. /\ list'.rnd = list.rnd /\ list'.head = n /\ list'.tail = n /\ list'.elements = 1
        /\ list' \in ListType(n)
    <3>1. ListHas(list', list.rnd, n, n, 1, n)
      BY <1>1, <1>5, <2>1, ListSet
    <3> QED BY <3>1 DEF ListHas
  <2>3. self \in 0 .. n /\ self \in 0 .. MAXNODES
    BY <1>1, <1>5
  <2> HIDE DEF self
  <2>4. LinksSet(node, node', n, self, self)
    BY <1>1, <2>1, <2>3, NodeSet
  <2>5. Within(list', node', n)
    <3>1. \A x \in 1 .. MAXNODES : node'[x].prev \in 0 .. n /\ node'[x].next \in 0 .. n
      BY <1>1, <1>5, <2>3, <2>4 DEF LinksSet
    <3> QED BY <1>1, <1>5, <2>2, <2>4, <3>1 DEF Within, LinksSet
  <2>6. ASSUME Spells(list, node, content, nalloc) PROVE Spells(list', node', c, n)
    <3>1. N = 0
      BY <1>2, <1>3, <2>6 DEF Spells
    <3>2. Len(c) = 1 /\ c[1] = n
      BY <1>2, <3>1
    <3>3. node'[n].prev = self /\ node'[n].next = self
      BY <1>1, <2>4 DEF LinksSet
    <3> QED BY <1>1, <2>2, <3>2, <3>3 DEF Spells, self
  <2> QED BY <2>5, <2>6 DEF c
<1>4. CASE list.elements # 0
  <2> DEFINE after == IF list.rnd THEN list.head ELSE 0
             one   == [node EXCEPT ![t].next = n]
  <2>1. /\ list' = [list EXCEPT !.tail = n, !.elements = @ + 1]
        /\ node' = [one EXCEPT ![n] = [prev |-> t, next |-> after, data |-> d]]
    BY <1>4 DEF PushNode
  <2>2. /\ list'.rnd = list.rnd /\ list'.head = list.head /\ list'.tail = n
        /\ list'.elements = list.elements + 1 /\ list' \in ListType(n)
    <3>1. ListHas(list', list.rnd, list.head, n, list.elements + 1, n)
      BY <1>1, <1>5, <2>1, ListSet
    <3> QED BY <3>1 DEF ListHas
  <2>3. after \in 0 .. nalloc /\ t \in 0 .. MAXNODES
    BY <1>1, <1>5
  <2> HIDE DEF after
  <2>4. LinksSet(node, one, t, node[t].prev, n)
    BY <1>1, <1>5, NextSet
  <2> HIDE DEF one
  <2>5. LinksSet(one, node', n, t, after)
    BY <1>1, <1>5, <2>1, <2>3, <2>4, NodeSet DEF LinksSet
  <2>6. Within(list', node', n) /\ node'[n].prev = t /\ node'[n].next = after
        /\ \A x \in 1 .. MAXNODES : x # n => /\ node'[x].prev = node[x].prev
                                             /\ node'[x].next = IF x = t THEN n ELSE node[x].next
    <3>1. \A x \in 1 .. MAXNODES : x # n => /\ node'[x].prev = node[x].prev
                                            /\ node'[x].next = IF x = t THEN n ELSE node[x].next
      BY <2>4, <2>5 DEF LinksSet
    <3>2. node'[n].prev = t /\ node'[n].next = after /\ node' \in [1 .. MAXNODES -> ListNode]
      BY <1>1, <2>5 DEF LinksSet
    <3>3. \A x \in 1 .. MAXNODES : node'[x].prev \in 0 .. n /\ node'[x].next \in 0 .. n
      BY <1>1, <1>5, <2>3, <3>1, <3>2
    <3> QED BY <1>1, <1>5, <2>2, <3>1, <3>2, <3>3 DEF Within
  <2>7. ASSUME Spells(list, node, content, nalloc) PROVE Spells(list', node', c, n)
    <3>1. N > 0 /\ N <= list.elements /\ t = content[N] /\ list.head = content[1]
      BY <1>2, <1>4, <1>5, <2>7 DEF Spells
    <3>2. \A k \in 1 .. N : content[k] \in 1 .. nalloc /\ content[k] \in 1 .. MAXNODES /\ content[k] # n
      <4>1. \A k \in 1 .. N : content[k] \in 1 .. nalloc
        BY <2>7 DEF Spells
      <4>2. \A x \in 1 .. nalloc : x # n
        BY <1>1
      <4> QED BY <1>5, <4>1, <4>2
    <3>3. \A k \in 1 .. N : content[k] = t => k = N
      BY <1>2, <2>7, <3>1 DEF Spells
    <3>4. \A k \in 1 .. Len(c) : c[k] \in 1 .. n
      <4>1. \A k \in 1 .. N : c[k] \in 1 .. n
        BY <1>2, <1>5, <3>2
      <4>2. c[N + 1] \in 1 .. n
        BY <1>1, <1>2
      <4>3. \A k \in 1 .. Len(c) : k \in 1 .. N \/ k = N + 1
        BY <1>2
      <4> QED BY <4>1, <4>2, <4>3
    <3>5. \A j, k \in 1 .. Len(c) : c[j] = c[k] => j = k
      <4>1. \A k \in 1 .. N : c[k] # n
        BY <1>2, <3>2
      <4>2. \A j, k \in 1 .. N : c[j] = c[k] => j = k
        BY <1>2, <2>7 DEF Spells
      <4>3. \A k \in 1 .. Len(c) : k \in 1 .. N \/ k = N + 1
        BY <1>2
      <4> QED BY <1>2, <4>1, <4>2, <4>3
    <3>6. ASSUME NEW k \in 1 .. Len(c) - 1
          PROVE  node'[c[k]].next = c[k + 1] /\ node'[c[k + 1]].prev = c[k]
      <4>1. k \in 1 .. N /\ c[k] = content[k]
        BY <1>2
      <4>2. CASE k = N
        BY <1>2, <2>6, <3>1, <3>2, <4>1, <4>2
      <4>3. CASE k # N
        <5>1. k \in 1 .. N - 1 /\ k + 1 \in 1 .. N /\ c[k + 1] = content[k + 1]
          BY <1>2, <4>1, <4>3
        <5>2. node[content[k]].next = content[k + 1] /\ node[content[k + 1]].prev = content[k]
          BY <2>7, <5>1 DEF Spells
        <5> QED BY <2>6, <3>2, <3>3, <4>1, <4>3, <5>1, <5>2
      <4> QED BY <4>2, <4>3
    <3>7. /\ c[1] = content[1] /\ c[Len(c)] = n /\ Len(c) > 0
          /\ Len(c) <= list'.elements
      BY <1>2, <1>5, <2>2, <3>1
    <3>8. node'[n].next = IF list'.rnd THEN list'.head ELSE 0
      BY <2>2, <2>6 DEF after
    <3>9. ~list'.rnd => node'[c[1]].prev = 0
      <4>1. ~list.rnd => node[content[1]].prev = 0
        BY <2>7, <3>1 DEF Spells
      <4>2. 1 \in 1 .. N
        BY <1>2, <3>1
      <4> QED BY <2>2, <2>6, <3>2, <3>7, <4>1, <4>2
    <3> QED BY <1>2, <2>2, <3>1, <3>4, <3>5, <3>6, <3>7, <3>8, <3>9 DEF Spells
  <2> QED BY <2>6, <2>7 DEF c
<1> QED BY <1>3, <1>4

\* list_insert links a new node before another.
LEMMA InsertKeeps ==
    ASSUME Within(list, node, nalloc), NEW d \in Data, NEW n \in nalloc + 1 .. MAXNODES,
           NEW dp \in 1 .. nalloc, InsertNode(n, d, dp)
    PROVE  /\ Within(list', node', n)
           /\ \A k \in 1 .. Len(content) : \A c :
                  /\ content \in Seq(1 .. MAXNODES) /\ Spells(list, node, content, nalloc)
                  /\ dp = content[k] /\ (list.rnd => k # 1)
                  /\ Widened(1 .. MAXNODES, content, k, n, c)
                  => Spells(list', node', c, n)
<1> DEFINE p == node[dp].prev
           h == IF list.head = dp THEN n ELSE list.head
           one == [node EXCEPT ![n] = [prev |-> p, next |-> dp, data |-> d]]
           two == [one EXCEPT ![dp].prev = n]
           N == Len(content)
<1>1. /\ MAXNODES \in Nat /\ nalloc \in Nat /\ n \in 1 .. MAXNODES /\ nalloc < n
      /\ list \in ListType(nalloc) /\ node \in [1 .. MAXNODES -> ListNode]
      /\ \A x \in 1 .. MAXNODES : node[x].prev \in 0 .. nalloc /\ node[x].next \in 0 .. nalloc
  BY DEF Within
<1>2. /\ 0 .. nalloc \subseteq 0 .. n /\ 1 .. nalloc \subseteq 1 .. n /\ n \in 0 .. n
      /\ 0 .. n \subseteq 0 .. MAXNODES /\ 1 .. nalloc \subseteq 1 .. MAXNODES
      /\ dp \in 0 .. n /\ dp # n
      /\ list.elements + 1 \in 0 .. n /\ list.elements \in Nat /\ list.head \in 0 .. nalloc
  BY <1>1 DEF ListType
<1>3. p \in 0 .. nalloc /\ dp \in 1 .. MAXNODES /\ dp \in 0 .. MAXNODES /\ p # n /\ h \in 0 .. n
  BY <1>1, <1>2
<1>4. /\ list' = [list EXCEPT !.head = h, !.elements = list.elements + 1]
      /\ node' = IF p = 0 THEN two ELSE [two EXCEPT ![p].next = n]
  BY DEF InsertNode
<1> HIDE DEF p
<1>5. LinksSet(node, one, n, p, dp)
  BY <1>1, <1>2, <1>3, NodeSet
<1> HIDE DEF one
<1>6. LinksSet(one, two, dp, n, one[dp].next)
  <2>1. one \in [1 .. MAXNODES -> ListNode] /\ n \in 0 .. MAXNODES
    BY <1>2, <1>5 DEF LinksSet
  <2> QED BY <2>1, PrevSet
<1> HIDE DEF two
<1>7. /\ node' \in [1 .. MAXNODES -> ListNode]
      /\ \A x \in 1 .. MAXNODES : /\ node'[x].prev = two[x].prev
                                  /\ node'[x].next = IF x = p THEN n ELSE two[x].next
  <2>1. CASE p = 0
    <3>1. \A x \in 1 .. MAXNODES : x # p
      BY <2>1
    <3> QED BY <1>4, <1>6, <2>1, <3>1 DEF LinksSet
  <2>2. CASE p # 0
    <3>1. two \in [1 .. MAXNODES -> ListNode] /\ n \in 0 .. MAXNODES
      BY <1>2, <1>6 DEF LinksSet
    <3>2. LinksSet(two, [two EXCEPT ![p].next = n], p, two[p].prev, n)
      BY <3>1, NextSet
    <3>3. LinksSet(two, node', p, two[p].prev, n)
      BY <1>4, <2>2, <3>2
    <3> QED BY <3>3 DEF LinksSet
  <2> QED BY <2>1, <2>2
<1>8. /\ node'[n].prev = p /\ node'[n].next = dp
      /\ \A x \in 1 .. MAXNODES : x # n => /\ node'[x].prev = IF x = dp THEN n ELSE node[x].prev
                                           /\ node'[x].next = IF x = p THEN n ELSE node[x].next
  <2>1. \A x \in 1 .. MAXNODES : /\ two[x].prev = IF x = dp THEN n ELSE one[x].prev
                                 /\ two[x].next = one[x].next
    BY <1>6 DEF LinksSet
  <2>2. \A x \in 1 .. MAXNODES : /\ one[x].prev = IF x = n THEN p ELSE node[x].prev
                                 /\ one[x].next = IF x = n THEN dp ELSE node[x].next
    BY <1>5 DEF LinksSet
  <2>3. node'[n].prev = p /\ node'[n].next = dp
    BY <1>1, <1>2, <1>3, <1>7, <2>1, <2>2
  <2> QED BY <1>7, <2>1, <2>2, <2>3
<1>9. /\ list'.rnd = list.rnd /\ list'.head = h /\ list'.tail = list.tail
      /\ list'.elements = list.elements + 1 /\ list' \in ListType(n)
  <2> HIDE DEF h
  <2>1. ListHas(list', list.rnd, h, list.tail, list.elements + 1, n)
    BY <1>1, <1>2, <1>3, <1>4, ListSet
  <2> QED BY <2>1 DEF ListHas
<1>10. Within(list', node', n)
  <2>1. \A x \in 1 .. MAXNODES : x # n => node'[x].prev \in 0 .. n /\ node'[x].next \in 0 .. n
    BY <1>1, <1>2, <1>8
  <2>2. node'[n].prev \in 0 .. n /\ node'[n].next \in 0 .. n
    BY <1>2, <1>3, <1>8
  <2>3. \A x \in 1 .. MAXNODES : node'[x].prev \in 0 .. n /\ node'[x].next \in 0 .. n
    BY <2>1, <2>2
  <2> QED BY <1>1, <1>2, <1>7, <1>9, <2>3 DEF Within
<1>11. ASSUME NEW k \in 1 .. N, NEW c, content \in Seq(1 .. MAXNODES),
              Spells(list, node, content, nalloc), dp = content[k], list.rnd => k # 1,
              Widened(1 .. MAXNODES, content, k, n, c)
       PROVE  Spells(list', node', c, n)
  <2>1. /\ N \in Nat /\ k \in Nat /\ k >= 1 /\ k <= N /\ N > 0 /\ Len(c) = N + 1 /\ c[k] = n
        /\ \A i \in 1 .. k - 1 : c[i] = content[i]
        /\ \A i \in k + 1 .. N + 1 : c[i] = content[i - 1]
    BY <1>11 DEF Widened
  <2>2. \A i \in 1 .. N : content[i] \in 1 .. nalloc
    BY <1>11 DEF Spells
  <2>3. \A i \in 1 .. N : content[i] \in 1 .. n /\ content[i] \in 1 .. MAXNODES /\ content[i] # n
    <3>1. \A x \in 1 .. nalloc : x # n
      BY <1>1
    <3> QED BY <1>2, <2>2, <3>1
  <2>4. \A i, j \in 1 .. N : content[i] = content[j] => i = j
    BY <1>11 DEF Spells
  <2>5. /\ list.head = content[1] /\ list.tail = content[N] /\ N <= list.elements
        /\ node[content[N]].next = IF list.rnd THEN list.head ELSE 0
        /\ ~list.rnd => node[content[1]].prev = 0
    BY <1>11, <2>1 DEF Spells
  <2>6. \A i \in 1 .. N - 1 : node[content[i]].next = content[i + 1] /\ node[content[i + 1]].prev = content[i]
    BY <1>11 DEF Spells
  <2>7. p = IF k = 1 THEN 0 ELSE content[k - 1]
    <3>1. CASE k = 1
      BY <1>11, <2>5, <3>1 DEF p
    <3>2. CASE k # 1
      <4>1. k - 1 \in 1 .. N - 1 /\ (k - 1) + 1 = k
        BY <2>1, <3>2
      <4>2. node[content[(k - 1) + 1]].prev = content[k - 1]
        BY <2>6, <4>1
      <4> QED BY <1>11, <3>2, <4>1, <4>2 DEF p
    <3> QED BY <3>1, <3>2
  <2>8. \A i \in 1 .. N + 1 : i \in 1 .. k - 1 \/ i = k \/ i \in k + 1 .. N + 1
    BY <2>1
  <2>9. \A i \in 1 .. N + 1 : c[i] \in 1 .. n
    <3>1. n \in 1 .. n
      BY <1>1
    <3>2. \A i \in 1 .. k - 1 : i \in 1 .. N
      BY <2>1
    <3>3. \A i \in k + 1 .. N + 1 : i - 1 \in 1 .. N
      BY <2>1
    <3> QED BY <2>1, <2>3, <2>8, <3>1, <3>2, <3>3
  <2>10. \A i, j \in 1 .. N + 1 : c[i] = c[j] => i = j
    <3> DEFINE o(i) == IF i < k THEN i ELSE i - 1
    <3>1. \A i \in 1 .. N + 1 : i # k => o(i) \in 1 .. N /\ c[i] = content[o(i)]
      BY <2>1
    <3>2. \A i, j \in 1 .. N + 1 : i # k /\ j # k /\ o(i) = o(j) => i = j
      BY <2>1
    <3> HIDE DEF o
    <3>3. \A i \in 1 .. N + 1 : i # k => c[i] # n
      BY <2>3, <3>1
    <3> TAKE i, j \in 1 .. N + 1
    <3>4. CASE i = k \/ j = k
      BY <2>1, <3>3, <3>4
    <3>5. CASE i # k /\ j # k
      BY <2>4, <3>1, <3>2, <3>5
    <3> QED BY <3>4, <3>5
  <2>11. ASSUME NEW i \in 1 .. N
         PROVE  node'[c[i]].next = c[i + 1] /\ node'[c[i + 1]].prev = c[i]
    <3>1. CASE i + 1 < k
      <4>1. /\ i \in 1 .. N - 1 /\ i \in 1 .. N /\ i + 1 \in 1 .. N
            /\ i # k - 1 /\ i + 1 # k /\ k # 1 /\ k - 1 \in 1 .. N
        BY <2>1, <3>1
      <4>2. c[i] = content[i] /\ c[i + 1] = content[i + 1]
        BY <2>1, <3>1, <4>1
      <4>3. content[i] # p /\ content[i + 1] # dp
        BY <1>11, <2>1, <2>4, <2>7, <4>1
      <4>4. node[content[i]].next = content[i + 1] /\ node[content[i + 1]].prev = content[i]
        BY <2>6, <4>1
      <4> QED BY <1>8, <2>3, <4>1, <4>2, <4>3, <4>4
    <3>2. CASE i + 1 = k
      <4>1. k # 1 /\ i \in 1 .. N /\ i \in 1 .. k - 1 /\ i = k - 1
        BY <2>1, <3>2
      <4>2. c[i] = content[i] /\ c[i + 1] = n /\ p = content[i]
        BY <2>1, <2>7, <3>2, <4>1
      <4> QED BY <1>8, <2>3, <4>1, <4>2
    <3>3. CASE i = k
      <4>1. c[i] = n /\ c[i + 1] = dp
        BY <1>11, <2>1, <3>3
      <4> QED BY <1>2, <1>3, <1>8, <4>1
    <3>4. CASE i > k
      <4>1. /\ i - 1 \in 1 .. N - 1 /\ i - 1 \in 1 .. N /\ (i - 1) + 1 = i /\ i # k
            /\ (k # 1 => k - 1 \in 1 .. N /\ i - 1 # k - 1)
        BY <2>1, <3>4
      <4>2. c[i] = content[i - 1] /\ c[i + 1] = content[i]
        BY <2>1, <3>4
      <4>3. content[i - 1] # p /\ content[i] # dp
        <5>1. content[i] # dp
          BY <1>11, <2>4, <4>1
        <5>2. content[i - 1] # p
          <6>1. CASE k = 1
            <7>1. content[i - 1] \in 1 .. nalloc
              BY <2>2, <4>1
            <7>2. p = 0
              BY <2>7, <6>1
            <7> QED BY <1>1, <7>1, <7>2
          <6>2. CASE k # 1
            BY <2>4, <2>7, <4>1, <6>2
          <6> QED BY <6>1, <6>2
        <5> QED BY <5>1, <5>2
      <4>4. node[content[i - 1]].next = content[(i - 1) + 1] /\ node[content[(i - 1) + 1]].prev = content[i - 1]
        BY <2>6, <4>1
      <4> QED BY <1>8, <2>3, <4>1, <4>2, <4>3, <4>4
    <3> QED BY <2>1, <3>1, <3>2, <3>3, <3>4
  <2>12. c[N + 1] = content[N] /\ c[1] = IF k = 1 THEN n ELSE content[1]
    BY <2>1
  <2>13. list'.head = c[1]
    <3>1. 1 \in 1 .. N
      BY <2>1
    <3>2. content[1] = dp <=> k = 1
      BY <1>11, <2>4, <3>1
    <3> QED BY <1>9, <2>5, <2>12, <3>2
  <2>14. node'[c[N + 1]].next = IF list'.rnd THEN list'.head ELSE 0
    <3>1. N \in 1 .. N /\ (k # 1 => k - 1 \in 1 .. N /\ N # k - 1)
      BY <2>1
    <3>2. content[N] # p
      <4>1. CASE k = 1
        <5>1. content[N] \in 1 .. nalloc /\ p = 0
          BY <2>2, <2>7, <3>1, <4>1
        <5> QED BY <1>1, <5>1
      <4>2. CASE k # 1
        BY <2>4, <2>7, <3>1, <4>2
      <4> QED BY <4>1, <4>2
    <3>3. node'[content[N]].next = node[content[N]].next
      BY <1>8, <2>3, <3>1, <3>2
    <3>4. list.rnd => list'.head = list.head
      <4>1. 1 \in 1 .. N
        BY <2>1
      <4> QED BY <1>11, <2>5, <2>12, <2>13
    <3> QED BY <1>9, <2>5, <2>12, <3>3, <3>4
  <2>15. ~list'.rnd => node'[c[1]].prev = 0
    <3>1. CASE k = 1
      BY <1>8, <2>7, <2>12, <3>1
    <3>2. CASE k # 1
      <4>1. 1 \in 1 .. N /\ content[1] # dp
        BY <1>11, <2>1, <2>4, <3>2
      <4> QED BY <1>8, <1>9, <2>3, <2>5, <2>12, <3>2, <4>1
    <3> QED BY <3>1, <3>2
  <2>16. list'.tail = c[N + 1] /\ N + 1 <= list'.elements /\ N + 1 # 0 /\ (N + 1) - 1 = N
    BY <1>2, <1>9, <2>1, <2>5, <2>12
  <2> QED BY <2>1, <2>9, <2>10, <2>11, <2>13, <2>14, <2>15, <2>16 DEF Spells
<1> QED BY <1>10, <1>11

\* list_delete links the nodes on either side of a node to each other.
LEMMA UnlinkKeeps ==
    ASSUME Within(list, node, nalloc), NEW n \in 1 .. nalloc, Unlink(n)
    PROVE  /\ Within(list, node', nalloc)
           /\ \A k \in 2 .. Len(content) - 1 : \A c :
                  /\ content \in Seq(1 .. MAXNODES) /\ Spells(list, node, content, nalloc)
                  /\ n = content[k] /\ Narrowed(1 .. MAXNODES, content, k, c)
                  => Spells(list, node', c, nalloc)
<1> DEFINE p == node[n].prev
           q == node[n].next
           one == IF p = 0 THEN node ELSE [node EXCEPT ![p].next = q]
           N == Len(content)
<1>1. /\ MAXNODES \in Nat /\ nalloc \in Nat
      /\ list \in ListType(nalloc) /\ node \in [1 .. MAXNODES -> ListNode]
      /\ \A x \in 1 .. MAXNODES : node[x].prev \in 0 .. nalloc /\ node[x].next \in 0 .. nalloc
      /\ 0 .. nalloc \subseteq 0 .. MAXNODES /\ 1 .. nalloc \subseteq 1 .. MAXNODES
      /\ list.elements \in Nat /\ nalloc \in 0 .. MAXNODES
  BY DEF Within, ListType
<1>2. n \in 1 .. MAXNODES /\ p \in 0 .. nalloc /\ q \in 0 .. nalloc
  BY <1>1
<1>3. p \in 0 .. MAXNODES /\ q \in 0 .. MAXNODES
  BY <1>1, <1>2
<1>4. node' = IF q = 0 THEN one ELSE [one EXCEPT ![q].prev = p]
  BY DEF Unlink
<1> HIDE DEF p, q
<1>5. /\ one \in [1 .. MAXNODES -> ListNode]
      /\ \A x \in 1 .. MAXNODES : /\ one[x].prev = node[x].prev
                                  /\ one[x].next = IF x = p THEN q ELSE node[x].next
  <2>1. CASE p = 0
    <3>1. \A x \in 1 .. MAXNODES : x # p
      BY <2>1
    <3> QED BY <1>1, <2>1, <3>1
  <2>2. CASE p # 0
    <3>1. LinksSet(node, [node EXCEPT ![p].next = q], p, node[p].prev, q)
      BY <1>1, <1>3, NextSet
    <3>2. LinksSet(node, one, p, node[p].prev, q)
      BY <2>2, <3>1
    <3> HIDE DEF one
    <3> QED BY <3>2 DEF LinksSet
  <2> QED BY <2>1, <2>2
<1> HIDE DEF one
<1>6. /\ node' \in [1 .. MAXNODES -> ListNode]
      /\ \A x \in 1 .. MAXNODES : /\ node'[x].prev = IF x = q THEN p ELSE node[x].prev
                                  /\ node'[x].next = IF x = p THEN q ELSE node[x].next
  <2>1. CASE q = 0
    <3>1. \A x \in 1 .. MAXNODES : x # q
      BY <2>1
    <3> QED BY <1>4, <1>5, <2>1, <3>1
  <2>2. CASE q # 0
    <3>1. LinksSet(one, [one EXCEPT ![q].prev = p], q, p, one[q].next)
      BY <1>3, <1>5, PrevSet
    <3>2. LinksSet(one, node', q, p, one[q].next)
      BY <1>4, <2>2, <3>1
    <3> QED BY <1>5, <3>2 DEF LinksSet
  <2> QED BY <2>1, <2>2
<1>7. Within(list, node', nalloc)
  <2>1. \A x \in 1 .. MAXNODES : node'[x].prev \in 0 .. nalloc /\ node'[x].next \in 0 .. nalloc
    BY <1>1, <1>2, <1>6
  <2> QED BY <1>1, <1>6, <2>1 DEF Within
<1>8. ASSUME NEW k \in 2 .. N - 1, NEW c, content \in Seq(1 .. MAXNODES),
             Spells(list, node, content, nalloc), n = content[k],
             Narrowed(1 .. MAXNODES, content, k, c)
      PROVE  Spells(list, node', c, nalloc)
  <2>1. /\ N \in Nat /\ k \in Nat /\ k >= 2 /\ k <= N - 1 /\ Len(c) = N - 1
        /\ \A i \in 1 .. k - 1 : c[i] = content[i]
        /\ \A i \in k .. N - 1 : c[i] = content[i + 1]
    BY <1>8 DEF Narrowed
  <2>2. \A i \in 1 .. N : content[i] \in 1 .. nalloc /\ content[i] \in 1 .. MAXNODES
    BY <1>1, <1>8 DEF Spells
  <2>3. \A i, j \in 1 .. N : content[i] = content[j] => i = j
    BY <1>8 DEF Spells
  <2>4. /\ list.head = content[1] /\ list.tail = content[N] /\ N <= list.elements
        /\ node[content[N]].next = IF list.rnd THEN list.head ELSE 0
        /\ ~list.rnd => node[content[1]].prev = 0
    BY <1>8, <2>1 DEF Spells
  <2>5. \A i \in 1 .. N - 1 : node[content[i]].next = content[i + 1] /\ node[content[i + 1]].prev = content[i]
    BY <1>8 DEF Spells
  <2>6. p = content[k - 1] /\ q = content[k + 1]
    <3>1. k - 1 \in 1 .. N - 1 /\ k \in 1 .. N - 1 /\ (k - 1) + 1 = k
      BY <2>1
    <3>2. node[content[(k - 1) + 1]].prev = content[k - 1] /\ node[content[k]].next = content[k + 1]
      BY <2>5, <3>1
    <3> QED BY <1>8, <3>1, <3>2 DEF p, q
  <2>7. k - 1 \in 1 .. N /\ k + 1 \in 1 .. N /\ 1 \in 1 .. N /\ N \in 1 .. N /\ k + 1 # 1 /\ k - 1 # N
    BY <2>1
  <2> DEFINE o(i) == IF i < k THEN i ELSE i + 1
  <2>8. \A i \in 1 .. N - 1 : o(i) \in 1 .. N /\ c[i] = content[o(i)]
    BY <2>1
  <2>9. \A i, j \in 1 .. N - 1 : o(i) = o(j) => i = j
    BY <2>1
  <2>10. \A i \in 1 .. N - 1 : c[i] \in 1 .. nalloc
    BY <2>2, <2>8
  <2>11. \A i, j \in 1 .. N - 1 : c[i] = c[j] => i = j
    <3> HIDE DEF o
    <3> QED BY <2>3, <2>8, <2>9
  <2>12. ASSUME NEW i \in 1 .. (N - 1) - 1
         PROVE  node'[c[i]].next = c[i + 1] /\ node'[c[i + 1]].prev = c[i]
    <3>1. CASE i # k - 1
      <4> DEFINE j == o(i)
      <4>1. /\ j \in 1 .. N - 1 /\ j \in 1 .. N /\ j + 1 \in 1 .. N /\ o(i + 1) = j + 1 /\ i \in 1 .. N - 1
            /\ i + 1 \in 1 .. N - 1 /\ j # k - 1 /\ j + 1 # k + 1
        BY <2>1, <3>1
      <4> HIDE DEF j, o
      <4>2. c[i] = content[j] /\ c[i + 1] = content[j + 1]
        <5>1. j = o(i)
          BY DEF j
        <5> QED BY <2>8, <4>1, <5>1
      <4>3. content[j] # p /\ content[j + 1] # q
        BY <2>3, <2>6, <2>7, <4>1
      <4>4. node[content[j]].next = content[j + 1] /\ node[content[j + 1]].prev = content[j]
        BY <2>5, <4>1
      <4> QED BY <1>6, <2>2, <4>1, <4>2, <4>3, <4>4
    <3>2. CASE i = k - 1
      <4>1. c[i] = content[k - 1] /\ c[i + 1] = content[k + 1]
        BY <2>1, <3>2
      <4> QED BY <1>6, <2>2, <2>6, <2>7, <4>1
    <3> QED BY <3>1, <3>2
  <2>13. c[1] = content[1] /\ c[N - 1] = content[N]
    BY <2>1
  <2>14. node'[content[N]].next = node[content[N]].next /\ node'[content[1]].prev = node[content[1]].prev
    BY <1>6, <2>2, <2>3, <2>6, <2>7
  <2>15. N - 1 <= list.elements /\ N - 1 # 0 /\ N - 1 > 0
    BY <1>1, <2>1, <2>4
  <2> QED BY <2>1, <2>4, <2>10, <2>11, <2>12, <2>13, <2>14, <2>15 DEF Spells
<1> QED BY <1>7, <1>8

\* Every node met from the head is one of content.
LEMMA FollowContent ==
    ASSUME ListInv, ~broken, NEW i \in Nat, Follow(i) # 0
    PROVE  \E k \in 1 .. Len(content) : Follow(i) = content[k]
<1>1. content \in Seq(1 .. MAXNODES) /\ Spells(list, node, content, nalloc) /\ Len(content) \in Nat
  BY DEF ListInv
<1>2. CASE list.rnd /\ Len(content) # 0
  BY <1>1, <1>2, FollowRound
<1>3. CASE ~list.rnd \/ Len(content) = 0
  <2>1. Follow(i) = IF i < Len(content) THEN content[i + 1] ELSE 0
    BY <1>1, <1>3, FollowPlain
  <2>2. i < Len(content) /\ i + 1 \in 1 .. Len(content)
    BY <1>1, <2>1
  <2> QED BY <2>1, <2>2
<1> QED BY <1>2, <1>3

\* _seek_node finds the node before which list_insert is to put the element, or
\* none if it is to be the last.
LEMMA SeekPlace ==
    ASSUME ListInv, NEW i \in 0 .. MAXNODES, list.rnd /\ list.elements = 0 => i = 0
    PROVE  /\ _seek_node(i) \in 0 .. nalloc
           /\ InsertPlace(i) \in 1 .. Len(content) + 1
           /\ ~broken /\ _seek_node(i) = 0 => InsertPlace(i) = Len(content) + 1
           /\ ~broken /\ _seek_node(i) # 0 =>
                  /\ InsertPlace(i) \in 1 .. Len(content)
                  /\ _seek_node(i) = content[InsertPlace(i)]
<1> DEFINE s == SeekIndex(i)
           e == list.elements
           N == Len(content)
           k == InsertPlace(i)
           dp == _seek_node(i)
<1>1. /\ Within(list, node, nalloc) /\ MAXNODES \in Nat /\ nalloc \in Nat /\ e \in Nat /\ i \in Nat
      /\ content \in Seq(1 .. MAXNODES) /\ N \in Nat /\ (content = <<>> <=> N = 0)
      /\ ~broken => Spells(list, node, content, nalloc)
  BY DEF ListInv, Within, ListType
<1>2. s = IF list.rnd /\ i > e THEN (i % e) ELSE i
  BY DEF SeekIndex
<1>3. /\ s \in Nat /\ (list.rnd => s <= e) /\ (~list.rnd => s = i)
  <2>1. CASE list.rnd /\ i > e
    <3>1. e \in Nat \ {0}
      BY <1>1, <2>1
    <3>2. (i % e) \in 0 .. e - 1
      BY <1>1, <3>1
    <3> QED BY <1>1, <1>2, <2>1, <3>2
  <2>2. CASE ~(list.rnd /\ i > e)
    BY <1>1, <1>2, <2>2
  <2> QED BY <2>1, <2>2
<1>4. dp = IF s > e THEN 0 ELSE Follow(s)
  BY DEF _seek_node
<1>5. k = IF N = 0 THEN 1 ELSE IF list.rnd THEN (s % N) + 1 ELSE IF i < N THEN i + 1 ELSE N + 1
  BY <1>1 DEF InsertPlace
<1> HIDE DEF s, k, dp
<1>6. dp \in 0 .. nalloc
  <2>1. Follow(s) \in 0 .. nalloc
    BY <1>1, <1>3, FollowWithin
  <2> QED BY <1>1, <1>4, <2>1
<1>7. k \in 1 .. N + 1
  <2>1. N # 0 => (s % N) \in 0 .. N - 1
    BY <1>1, <1>3
  <2> QED BY <1>1, <1>5, <2>1
<1>8. ASSUME ~broken
      PROVE  (dp = 0 => k = N + 1) /\ (dp # 0 => k \in 1 .. N /\ dp = content[k])
  <2>1. Spells(list, node, content, nalloc) /\ N <= e
    BY <1>1, <1>8 DEF Spells
  <2>2. CASE list.rnd /\ N # 0
    <3>1. (s % N) + 1 \in 1 .. N /\ Follow(s) = content[(s % N) + 1]
      BY <1>1, <1>3, <2>1, <2>2, FollowRound
    <3>2. k \in 1 .. N /\ dp = content[k]
      BY <1>1, <1>3, <1>4, <1>5, <2>2, <3>1
    <3>3. dp # 0
      BY <2>1, <3>2 DEF Spells
    <3> QED BY <3>2, <3>3
  <2>3. CASE ~list.rnd \/ N = 0
    <3>1. Follow(s) = IF s < N THEN content[s + 1] ELSE 0
      BY <1>1, <1>3, <2>1, <2>3, FollowPlain
    <3>2. CASE N = 0
      BY <1>1, <1>3, <1>4, <1>5, <3>1, <3>2
    <3>3. CASE N # 0 /\ ~list.rnd /\ i < N
      <4>1. k = i + 1 /\ s = i /\ i + 1 \in 1 .. N /\ dp = content[i + 1]
        BY <1>1, <1>3, <1>4, <1>5, <2>1, <3>1, <3>3
      <4>2. content[i + 1] # 0
        BY <2>1, <4>1 DEF Spells
      <4> QED BY <4>1, <4>2
    <3>4. CASE N # 0 /\ ~list.rnd /\ ~(i < N)
      BY <1>1, <1>3, <1>4, <1>5, <3>1, <3>4
    <3> QED BY <2>3, <3>2, <3>3, <3>4
  <2> QED BY <2>2, <2>3
<1> QED BY <1>6, <1>7, <1>8 DEF k, dp

\* A node that is in the list, or any if its links are broken, is deleted.
LEMMA DeleteKeeps ==
    ASSUME ListInv, NEW n \in 1 .. nalloc, DeleteNode(n),
           ~broken => \E k \in 1 .. Len(content) : n = content[k]
    PROVE  ListInv'
<1>1. /\ Within(list, node, nalloc) /\ content \in Seq(1 .. MAXNODES) /\ Len(content) \in Nat
      /\ ~broken => Spells(list, node, content, nalloc)
      /\ freed \subseteq 1 .. nalloc /\ hung \in BOOLEAN /\ broken \in BOOLEAN
  BY DEF ListInv
<1>2. /\ Unlink(n) /\ freed' = freed \cup {n} /\ list' = list /\ nalloc' = nalloc /\ hung' = hung
      /\ content' = RemoveFirst(content, n)
      /\ broken' = (broken \/ n \in {list.head, list.tail})
  BY DEF DeleteNode
<1>3. Within(list', node', nalloc')
  BY <1>1, <1>2, UnlinkKeeps
<1>4. \/ content' = content /\ \A k \in 1 .. Len(content) : content[k] # n
      \/ \E k \in 1 .. Len(content) : content[k] = n /\ Narrowed(1 .. MAXNODES, content, k, content')
  BY <1>1, <1>2, RemovedFirst
<1>5. content' \in Seq(1 .. MAXNODES)
  BY <1>1, <1>4 DEF Narrowed
<1>6. ASSUME ~broken' PROVE Spells(list', node', content', nalloc')
  <2>1. ~broken /\ n # list.head /\ n # list.tail
    BY <1>2, <1>6
  <2>2. PICK k \in 1 .. Len(content) : content[k] = n /\ Narrowed(1 .. MAXNODES, content, k, content')
    BY <1>4, <2>1
  <2>3. Len(content) > 0
    BY <1>1, <2>2
  <2>4. k # 1 /\ k # Len(content)
    BY <1>1, <2>1, <2>2, <2>3 DEF Spells
  <2>5. k \in 2 .. Len(content) - 1
    BY <1>1, <2>2, <2>4
  <2> QED BY <1>1, <1>2, <2>1, <2>2, <2>5, UnlinkKeeps
<1>7. broken' \in BOOLEAN
  BY <1>1, <1>2
<1> QED BY <1>1, <1>2, <1>3, <1>5, <1>6, <1>7 DEF ListInv

LEMMA InsertListKeeps ==
    ASSUME ListInv, NEW d \in Data, NEW i \in 0 .. MAXNODES, list_insert(d, i)
    PROVE  ListInv'
<1> DEFINE dp == _seek_node(i)
           k == InsertPlace(i)
           n == IF dp = 0 THEN nalloc + 2 ELSE nalloc + 1
<1>1. /\ Within(list, node, nalloc) /\ content \in Seq(1 .. MAXNODES) /\ Len(content) \in Nat
      /\ ~broken => Spells(list, node, content, nalloc)
      /\ freed \subseteq 1 .. nalloc /\ hung \in BOOLEAN /\ broken \in BOOLEAN
      /\ nalloc \in Nat /\ MAXNODES \in Nat
  BY DEF ListInv, Within
<1>2. /\ n <= MAXNODES /\ nalloc' = n /\ content' = InsertAt(content, k, n)
      /\ IF dp = 0 THEN PushNode(n, d) ELSE InsertNode(n, d, dp)
      /\ broken' = (broken \/ (list.rnd /\ dp # 0 /\ dp = list.head))
      /\ freed' = freed /\ hung' = hung /\ (list.rnd /\ list.elements = 0 => i = 0)
  BY DEF list_insert
<1>3. /\ dp \in 0 .. nalloc /\ k \in 1 .. Len(content) + 1
      /\ ~broken /\ dp = 0 => k = Len(content) + 1
      /\ ~broken /\ dp # 0 => k \in 1 .. Len(content) /\ dp = content[k]
  BY <1>2, SeekPlace
<1> HIDE DEF dp, k
<1>4. n \in nalloc + 1 .. MAXNODES /\ n \in 1 .. MAXNODES /\ 1 .. nalloc \subseteq 1 .. n
  BY <1>1, <1>2
<1> HIDE DEF n
<1>5. Widened(1 .. MAXNODES, content, k, n, content')
  BY <1>1, <1>2, <1>3, <1>4, Inserted
<1>6. /\ broken' \in BOOLEAN /\ hung' \in BOOLEAN
      /\ freed' \subseteq 1 .. nalloc' /\ content' \in Seq(1 .. MAXNODES)
  BY <1>1, <1>2, <1>4, <1>5 DEF Widened
<1>7. CASE dp = 0
  <2>1. PushNode(n, d)
    BY <1>2, <1>7
  <2>2. /\ Within(list', node', n)
        /\ Spells(list, node, content, nalloc) => Spells(list', node', Append(content, n), n)
    BY <1>1, <1>4, <2>1, PushKeeps
  <2>3. k = Len(content) + 1 => content' = Append(content, n)
    <3> SUFFICES ASSUME k = Len(content) + 1 PROVE content' = Append(content, n)
      OBVIOUS
    <3>1. /\ content' \in Seq(1 .. MAXNODES) /\ Len(content') = Len(content) + 1
          /\ content'[Len(content) + 1] = n /\ \A j \in 1 .. Len(content) : content'[j] = content[j]
      BY <1>1, <1>5 DEF Widened
    <3> QED BY <1>1, <1>4, <3>1
  <2> QED BY <1>1, <1>2, <1>3, <1>6, <1>7, <2>2, <2>3 DEF ListInv
<1>8. CASE dp # 0
  <2>1. InsertNode(n, d, dp) /\ dp \in 1 .. nalloc
    BY <1>1, <1>2, <1>3, <1>8
  <2>2. Within(list', node', n)
    BY <1>1, <1>4, <2>1, InsertKeeps
  <2>3. ASSUME ~broken' PROVE Spells(list', node', content', n)
    <3>1. ~broken /\ k \in 1 .. Len(content) /\ dp = content[k] /\ (list.rnd => dp # list.head)
      BY <1>2, <1>3, <1>8, <2>3
    <3>2. list.rnd => k # 1
      BY <1>1, <3>1 DEF Spells
    <3> QED BY <1>1, <1>4, <1>5, <2>1, <3>1, <3>2, InsertKeeps
  <2> QED BY <1>2, <1>6, <2>2, <2>3 DEF ListInv
<1> QED BY <1>7, <1>8

LEMMA ListStarts == ASSUME ListInit PROVE ListInv
<1>1. /\ list \in [rnd : BOOLEAN, head : {0}, tail : {0}, elements : {0}] /\ nalloc = 0 /\ freed = {}
      /\ hung = FALSE /\ content = <<>> /\ broken = FALSE
      /\ node = [n \in 1 .. MAXNODES |-> [prev |-> 0, next |-> 0, data |-> 0]]
  BY DEF ListInit, Node
<1>2. list.head = 0 /\ list.tail = 0 /\ list.elements = 0 /\ list \in ListType(0)
  BY <1>1 DEF ListType
<1>3. Within(list, node, nalloc)
  BY <1>1, <1>2, MaxNodesAssumption DEF Within, ListNode
<1>4. Spells(list, node, content, nalloc)
  BY <1>1, <1>2 DEF Spells
<1>5. content \in Seq(1 .. MAXNODES) /\ freed \subseteq 1 .. nalloc
  BY <1>1
<1>6. hung \in BOOLEAN /\ broken \in BOOLEAN
  BY <1>1
<1> QED BY <1>3, <1>4, <1>5, <1>6 DEF ListInv

LEMMA ListGoesOn == ListInv /\ [ListNext]_listVars => ListInv'
<1> SUFFICES ASSUME ListInv, [ListNext]_listVars PROVE ListInv'
  OBVIOUS
<1>1. /\ Within(list, node, nalloc) /\ content \in Seq(1 .. MAXNODES) /\ nalloc \in Nat /\ MAXNODES \in Nat
      /\ freed \subseteq 1 .. nalloc /\ hung \in BOOLEAN /\ broken \in BOOLEAN
      /\ ~broken => Spells(list, node, content, nalloc)
  BY DEF ListInv, Within
<1>2. ASSUME NEW i \in Nat, Follow(i) # 0, DeleteNode(Follow(i)) PROVE ListInv'
  <2>1. Follow(i) \in 1 .. nalloc
    <3>1. Follow(i) \in 0 .. nalloc
      BY <1>1, FollowWithin
    <3> QED BY <1>1, <1>2, <3>1
  <2>2. ~broken => \E k \in 1 .. Len(content) : Follow(i) = content[k]
    BY <1>2, FollowContent
  <2> QED BY <1>2, <2>1, <2>2, DeleteKeeps
<1>3. ASSUME NEW d \in Data, list_push(d) PROVE ListInv'
  <2> DEFINE n == nalloc + 1
  <2>1. /\ nalloc < MAXNODES /\ PushNode(n, d) /\ nalloc' = n /\ content' = Append(content, n)
        /\ freed' = freed /\ hung' = hung /\ broken' = broken
    BY <1>3 DEF list_push
  <2>2. n \in nalloc + 1 .. MAXNODES /\ n \in 1 .. MAXNODES /\ 1 .. nalloc \subseteq 1 .. n
    BY <1>1, <2>1
  <2> HIDE DEF n
  <2>3. /\ Within(list', node', n)
        /\ Spells(list, node, content, nalloc) => Spells(list', node', Append(content, n), n)
    BY <1>1, <2>1, <2>2, PushKeeps
  <2>4. content' \in Seq(1 .. MAXNODES)
    BY <1>1, <2>1, <2>2
  <2> QED BY <1>1, <2>1, <2>2, <2>3, <2>4 DEF ListInv
<1>4. ASSUME NEW d \in Data, list_remove(d) PROVE ListInv'
  <2> DEFINE F == list_find(d)
  <2>1. CASE F # {}
    <3>1. F \in SUBSET Nat /\ \A x \in F : Follow(x) # 0
      BY DEF list_find
    <3>2. DeleteNode(Follow(Min(F)))
      BY <1>4, <2>1 DEF list_remove
    <3> HIDE DEF F
    <3>3. PICK x \in F : \A y \in F : x <= y
      BY <2>1, <3>1, LeastNat
    <3>4. Min(F) \in F
      BY <3>3 DEF Min
    <3> QED BY <1>2, <3>1, <3>2, <3>4
  <2>2. CASE F = {}
    <3>1. /\ hung' = (list.rnd /\ list.head # 0)
          /\ UNCHANGED <<list, node, nalloc, freed, content, broken>>
      BY <1>4, <2>2 DEF list_remove
    <3>2. hung' \in BOOLEAN
      BY <3>1
    <3> QED BY <1>1, <3>1, <3>2 DEF ListInv
  <2> QED BY <2>1, <2>2
<1>5. ASSUME NEW d \in Data, NEW i \in 0 .. MAXNODES, list_insert(d, i) PROVE ListInv'
  BY <1>5, InsertListKeeps
<1>6. ASSUME NEW i \in 0 .. MAXNODES, list_delete(i) PROVE ListInv'
  <2>1. i \in Nat /\ Follow(i) # 0 /\ DeleteNode(Follow(i))
    BY <1>6 DEF list_delete
  <2> QED BY <1>2, <2>1
<1>7. CASE UNCHANGED listVars
  BY <1>1, <1>7 DEF ListInv, listVars
<1> QED BY <1>3, <1>4, <1>5, <1>6, <1>7 DEF ListNext, Hung

LEMMA ListSpells == ListInv => LinksSpellContent
<1> SUFFICES ASSUME ListInv PROVE LinksSpellContent
  OBVIOUS
<1>1. /\ Within(list, node, nalloc) /\ content \in Seq(1 .. MAXNODES) /\ nalloc \in 0 .. MAXNODES
      /\ freed \subseteq 1 .. nalloc /\ hung \in BOOLEAN /\ broken \in BOOLEAN /\ MAXNODES \in Nat
      /\ ~broken => Spells(list, node, content, nalloc)
      /\ list \in ListType(nalloc) /\ node \in [1 .. MAXNODES -> ListNode]
  BY DEF ListInv, Within
<1>2. ListTypeOK
  <2>1. 0 .. nalloc \subseteq 0 .. MAXNODES /\ 1 .. MAXNODES \cup {0} = 0 .. MAXNODES
    BY <1>1
  <2>2. list \in [rnd : BOOLEAN, head : 0 .. MAXNODES, tail : 0 .. MAXNODES, elements : 0 .. MAXNODES]
    BY <1>1, <2>1 DEF ListType
  <2> QED BY <1>1, <2>1, <2>2 DEF ListTypeOK, Node, ListNode
<1>3. ASSUME ~broken, Len(content) # 0
      PROVE  /\ list.head = content[1] /\ list.tail = content[Len(content)]
             /\ node[content[Len(content)]].next = IF list.rnd THEN list.head ELSE 0
             /\ \A k \in 1 .. Len(content) - 1 : /\ node[content[k]].next = content[k + 1]
                                                 /\ node[content[k + 1]].prev = content[k]
  <2>1. Len(content) > 0
    BY <1>1, <1>3
  <2> QED BY <1>1, <1>3, <2>1 DEF Spells
<1>4. ASSUME ~broken, Len(content) = 0 PROVE list.head = 0 /\ list.tail = 0
  BY <1>1, <1>4 DEF Spells
<1> QED BY <1>2, <1>3, <1>4 DEF LinksSpellContent

\* Until an end is deleted or something is put before the head of a round list,
\* list_push, list_insert, list_delete and list_remove leave links that spell out
\* the elements in order, for every number of nodes: what timer_interrupt relies
\* on when it follows clock_hooks, and task_switch when it follows its round list.
THEOREM LinksKeepOrder == ListSpec => []LinksSpellContent
<1>1. ListInit => ListInv
  BY ListStarts
<1> QED BY <1>1, ListGoesOn, ListSpells, PTL DEF ListSpec

-----------------------------------------------------------------------------
(* The headers of the user heap: types.                                    *)

\* Headers whose links are among the first n, and heaps of such.
BinType(n) == [prev : 0 .. n, next : 0 .. n, addr : Int, size : Int, taken : BOOLEAN]
HeapType(n) ==
    [bin : [Header -> BinType(n)], bin_head : 0 .. n, bin_tail : 0 .. n, bin_next : Header,
     ehead : 0 .. n, fault : {"no", "crash", "hang", "unset"}]

LEMMA HeapSet ==
    ASSUME NEW n, NEW u \in HeapType(n)
    PROVE  /\ \A f \in [Header -> BinType(n)] : [u EXCEPT !.bin = f] \in HeapType(n)
           /\ \A x \in 0 .. n : /\ [u EXCEPT !.bin_head = x] \in HeapType(n)
                                /\ [u EXCEPT !.bin_tail = x] \in HeapType(n)
                                /\ [u EXCEPT !.ehead = x] \in HeapType(n)
           /\ \A w \in {"no", "crash", "hang", "unset"} : Fault(u, w) \in HeapType(n)
  BY DEF HeapType, Fault

\* v is u but for the bins, and for the bin b.
SameRest(u, v) ==
    /\ v.bin_head = u.bin_head /\ v.bin_tail = u.bin_tail /\ v.bin_next = u.bin_next
    /\ v.ehead = u.ehead /\ v.fault = u.fault

SameBut(u, v, b) == \A c \in Header : c # b => v.bin[c] = u.bin[c]

\* What assigning to a header, or to one of its fields, does.
LEMMA PutBin ==
    ASSUME NEW n, NEW u \in HeapType(n), NEW b \in Header, NEW r \in BinType(n)
    PROVE  LET v == [u EXCEPT !.bin[b] = r] IN
           /\ v \in HeapType(n) /\ SameRest(u, v) /\ SameBut(u, v, b)
           /\ v.bin[b] = r
<1> DEFINE f == [u.bin EXCEPT ![b] = r]
<1>1. f \in [Header -> BinType(n)] /\ f[b] = r /\ \A c \in Header : c # b => f[c] = u.bin[c]
  BY DEF HeapType
<1>2. [u EXCEPT !.bin[b] = r] = [u EXCEPT !.bin = f]
  OBVIOUS
<1> HIDE DEF f
<1>3. LET v == [u EXCEPT !.bin = f] IN v \in HeapType(n) /\ v.bin = f /\ SameRest(u, v)
  BY <1>1 DEF HeapType, SameRest
<1> QED BY <1>1, <1>2, <1>3 DEF SameBut

LEMMA PutNext ==
    ASSUME NEW n, NEW u \in HeapType(n), NEW b \in Header, NEW x \in 0 .. n
    PROVE  LET v == [u EXCEPT !.bin[b].next = x] IN
           /\ v \in HeapType(n) /\ SameRest(u, v) /\ SameBut(u, v, b)
           /\ v.bin[b].next = x
           /\ v.bin[b].prev = u.bin[b].prev /\ v.bin[b].addr = u.bin[b].addr
           /\ v.bin[b].size = u.bin[b].size /\ v.bin[b].taken = u.bin[b].taken
<1> DEFINE r == [u.bin[b] EXCEPT !.next = x]
<1>1. u.bin[b] \in BinType(n)
  BY DEF HeapType
<1>2. r \in BinType(n) /\ r.next = x
      /\ r.prev = u.bin[b].prev /\ r.addr = u.bin[b].addr /\ r.size = u.bin[b].size /\ r.taken = u.bin[b].taken
  BY <1>1 DEF BinType
<1>3. [u EXCEPT !.bin[b].next = x] = [u EXCEPT !.bin[b] = r]
  OBVIOUS
<1> HIDE DEF r
<1> QED BY <1>2, <1>3, PutBin

LEMMA PutPrev ==
    ASSUME NEW n, NEW u \in HeapType(n), NEW b \in Header, NEW x \in 0 .. n
    PROVE  LET v == [u EXCEPT !.bin[b].prev = x] IN
           /\ v \in HeapType(n) /\ SameRest(u, v) /\ SameBut(u, v, b)
           /\ v.bin[b].prev = x
           /\ v.bin[b].next = u.bin[b].next /\ v.bin[b].addr = u.bin[b].addr
           /\ v.bin[b].size = u.bin[b].size /\ v.bin[b].taken = u.bin[b].taken
<1> DEFINE r == [u.bin[b] EXCEPT !.prev = x]
<1>1. u.bin[b] \in BinType(n)
  BY DEF HeapType
<1>2. r \in BinType(n) /\ r.prev = x
      /\ r.next = u.bin[b].next /\ r.addr = u.bin[b].addr /\ r.size = u.bin[b].size /\ r.taken = u.bin[b].taken
  BY <1>1 DEF BinType
<1>3. [u EXCEPT !.bin[b].prev = x] = [u EXCEPT !.bin[b] = r]
  OBVIOUS
<1> HIDE DEF r
<1> QED BY <1>2, <1>3, PutBin

LEMMA PutAddr ==
    ASSUME NEW n, NEW u \in HeapType(n), NEW b \in Header, NEW x \in Int
    PROVE  LET v == [u EXCEPT !.bin[b].addr = x] IN
           /\ v \in HeapType(n) /\ SameRest(u, v) /\ SameBut(u, v, b)
           /\ v.bin[b].addr = x
           /\ v.bin[b].next = u.bin[b].next /\ v.bin[b].prev = u.bin[b].prev
           /\ v.bin[b].size = u.bin[b].size /\ v.bin[b].taken = u.bin[b].taken
<1> DEFINE r == [u.bin[b] EXCEPT !.addr = x]
<1>1. u.bin[b] \in BinType(n)
  BY DEF HeapType
<1>2. r \in BinType(n) /\ r.addr = x
      /\ r.next = u.bin[b].next /\ r.prev = u.bin[b].prev /\ r.size = u.bin[b].size /\ r.taken = u.bin[b].taken
  BY <1>1 DEF BinType
<1>3. [u EXCEPT !.bin[b].addr = x] = [u EXCEPT !.bin[b] = r]
  OBVIOUS
<1> HIDE DEF r
<1> QED BY <1>2, <1>3, PutBin

LEMMA PutSize ==
    ASSUME NEW n, NEW u \in HeapType(n), NEW b \in Header, NEW x \in Int
    PROVE  LET v == [u EXCEPT !.bin[b].size = x] IN
           /\ v \in HeapType(n) /\ SameRest(u, v) /\ SameBut(u, v, b)
           /\ v.bin[b].size = x
           /\ v.bin[b].next = u.bin[b].next /\ v.bin[b].prev = u.bin[b].prev
           /\ v.bin[b].addr = u.bin[b].addr /\ v.bin[b].taken = u.bin[b].taken
<1> DEFINE r == [u.bin[b] EXCEPT !.size = x]
<1>1. u.bin[b] \in BinType(n)
  BY DEF HeapType
<1>2. r \in BinType(n) /\ r.size = x
      /\ r.next = u.bin[b].next /\ r.prev = u.bin[b].prev /\ r.addr = u.bin[b].addr /\ r.taken = u.bin[b].taken
  BY <1>1 DEF BinType
<1>3. [u EXCEPT !.bin[b].size = x] = [u EXCEPT !.bin[b] = r]
  OBVIOUS
<1> HIDE DEF r
<1> QED BY <1>2, <1>3, PutBin

LEMMA PutFree ==
    ASSUME NEW n, NEW u \in HeapType(n), NEW b \in Header
    PROVE  LET v == [u EXCEPT !.bin[b].taken = FALSE] IN
           /\ v \in HeapType(n) /\ SameRest(u, v) /\ SameBut(u, v, b)
           /\ v.bin[b].taken = FALSE
           /\ v.bin[b].next = u.bin[b].next /\ v.bin[b].prev = u.bin[b].prev
           /\ v.bin[b].addr = u.bin[b].addr /\ v.bin[b].size = u.bin[b].size
<1> DEFINE r == [u.bin[b] EXCEPT !.taken = FALSE]
<1>1. u.bin[b] \in BinType(n)
  BY DEF HeapType
<1>2. r \in BinType(n) /\ r.taken = FALSE
      /\ r.next = u.bin[b].next /\ r.prev = u.bin[b].prev /\ r.addr = u.bin[b].addr /\ r.size = u.bin[b].size
  BY <1>1 DEF BinType
<1>3. [u EXCEPT !.bin[b].taken = FALSE] = [u EXCEPT !.bin[b] = r]
  OBVIOUS
<1> HIDE DEF r
<1> QED BY <1>2, <1>3, PutBin

LEMMA PutTaken ==
    ASSUME NEW n, NEW u \in HeapType(n), NEW b \in Header
    PROVE  LET v == [u EXCEPT !.bin[b].taken = TRUE] IN
           /\ v \in HeapType(n) /\ SameRest(u, v) /\ SameBut(u, v, b)
           /\ v.bin[b].taken = TRUE
           /\ v.bin[b].next = u.bin[b].next /\ v.bin[b].prev = u.bin[b].prev
           /\ v.bin[b].addr = u.bin[b].addr /\ v.bin[b].size = u.bin[b].size
<1> DEFINE r == [u.bin[b] EXCEPT !.taken = TRUE]
<1>1. u.bin[b] \in BinType(n)
  BY DEF HeapType
<1>2. r \in BinType(n) /\ r.taken = TRUE
      /\ r.next = u.bin[b].next /\ r.prev = u.bin[b].prev /\ r.addr = u.bin[b].addr /\ r.size = u.bin[b].size
  BY <1>1 DEF BinType
<1>3. [u EXCEPT !.bin[b].taken = TRUE] = [u EXCEPT !.bin[b] = r]
  OBVIOUS
<1> HIDE DEF r
<1> QED BY <1>2, <1>3, PutBin

\* More headers may be linked.
LEMMA HeapGrows ==
    ASSUME NEW n \in Nat, NEW m \in Nat, n <= m, NEW u \in HeapType(n)
    PROVE  u \in HeapType(m)
<1>1. 0 .. n \subseteq 0 .. m
  OBVIOUS
<1>2. BinType(n) \subseteq BinType(m)
  BY <1>1 DEF BinType
<1>3. [Header -> BinType(n)] \subseteq [Header -> BinType(m)]
  BY <1>2
<1> QED BY <1>1, <1>3 DEF HeapType

\* The headers f that After(u, b, k) meets.
Trail(f, u, b, k) ==
    f = [j \in 0 .. k |-> IF j = 0 THEN b ELSE IF f[j - 1] = 0 THEN 0 ELSE u.bin[f[j - 1]].next]

\* The recursive function of After exists, so that it has its values.
LEMMA AfterRuns ==
    ASSUME NEW u, NEW b, NEW k \in Nat
    PROVE  \E f : Trail(f, u, b, k) /\ After(u, b, k) = f[k]
<1> DEFINE Good == {l \in Nat : \E f : Trail(f, u, b, l)}
           Step(v) == IF v = 0 THEN 0 ELSE u.bin[v].next
<1>1. 0 \in Good
  <2> DEFINE f == [j \in 0 .. 0 |-> b]
  <2>1. Trail(f, u, b, 0)
    BY DEF Trail
  <2> QED BY <2>1
<1>2. ASSUME NEW l \in 1 .. k, l - 1 \in Good PROVE l \in Good
  <2>1. PICK f : Trail(f, u, b, l - 1)
    BY <1>2
  <2> DEFINE g == [j \in 0 .. l |-> IF j \in 0 .. l - 1 THEN f[j] ELSE Step(f[l - 1])]
  <2>2. l \in Nat \ {0} /\ l - 1 \in 0 .. l - 1
    OBVIOUS
  <2>3. \A j \in 0 .. l - 1 : g[j] = f[j]
    BY <2>2
  <2>4. \A j \in 0 .. l : g[j] = IF j = 0 THEN b ELSE Step(g[j - 1])
    <3> TAKE j \in 0 .. l
    <3>1. CASE j = l
      BY <2>2, <2>3, <3>1
    <3>2. CASE j \in 0 .. l - 1
      <4>1. f[j] = IF j = 0 THEN b ELSE Step(f[j - 1])
        BY <2>1, <3>2 DEF Trail
      <4>2. j # 0 => j - 1 \in 0 .. l - 1
        BY <2>2, <3>2
      <4> HIDE DEF g, Step
      <4> QED BY <2>3, <3>2, <4>1, <4>2
    <3> QED BY <2>2, <3>1, <3>2
  <2>5. Trail(g, u, b, l)
    BY <2>4 DEF Trail
  <2> QED BY <2>2, <2>5
<1>3. k \in Good
  <2> HIDE DEF Good
  <2>1. 0 .. k \subseteq Good
    BY <1>1, <1>2, Upto
  <2> QED BY <2>1
<1> DEFINE f == CHOOSE g : Trail(g, u, b, k)
<1>4. Trail(f, u, b, k)
  BY <1>3
<1>5. After(u, b, k) = f[k]
  BY DEF After, Trail
<1> QED BY <1>4, <1>5

\* Trails of different lengths agree, so After follows one link after another.
LEMMA AfterSteps ==
    ASSUME NEW u, NEW b
    PROVE  /\ After(u, b, 0) = b
           /\ \A k \in Nat : After(u, b, k + 1) = IF After(u, b, k) = 0 THEN 0
                                                  ELSE u.bin[After(u, b, k)].next
<1>1. After(u, b, 0) = b
  <2>1. PICK f : Trail(f, u, b, 0) /\ After(u, b, 0) = f[0]
    BY AfterRuns
  <2> QED BY <2>1 DEF Trail
<1>2. ASSUME NEW k \in Nat
      PROVE  After(u, b, k + 1) = IF After(u, b, k) = 0 THEN 0 ELSE u.bin[After(u, b, k)].next
  <2>1. PICK f : Trail(f, u, b, k) /\ After(u, b, k) = f[k]
    BY AfterRuns
  <2>2. k + 1 \in Nat
    OBVIOUS
  <2>3. PICK g : Trail(g, u, b, k + 1) /\ After(u, b, k + 1) = g[k + 1]
    BY <2>2, AfterRuns
  <2> DEFINE S == {j \in 0 .. k : f[j] = g[j]}
  <2>4. 0 \in S
    BY <2>1, <2>3 DEF Trail
  <2>5. ASSUME NEW j \in 1 .. k, j - 1 \in S PROVE j \in S
    <3>1. f[j] = IF f[j - 1] = 0 THEN 0 ELSE u.bin[f[j - 1]].next
      BY <2>1 DEF Trail
    <3>2. g[j] = IF g[j - 1] = 0 THEN 0 ELSE u.bin[g[j - 1]].next
      BY <2>3 DEF Trail
    <3> QED BY <2>5, <3>1, <3>2
  <2>6. 0 .. k \subseteq S
    <3> HIDE DEF S
    <3> QED BY <2>4, <2>5, Upto
  <2>7. f[k] = g[k]
    BY <2>6
  <2>8. g[k + 1] = IF g[k] = 0 THEN 0 ELSE u.bin[g[k]].next
    BY <2>3 DEF Trail
  <2>9. After(u, b, k) = g[k] /\ After(u, b, k + 1) = g[k + 1]
    BY <2>1, <2>3, <2>7
  <2> HIDE DEF S
  <2> QED BY <2>8, <2>9
<1> QED BY <1>1, <1>2

LEMMA AfterPrior ==
    ASSUME NEW u, NEW b, NEW j \in Nat \ {0}
    PROVE  After(u, b, j) = IF After(u, b, j - 1) = 0 THEN 0 ELSE u.bin[After(u, b, j - 1)].next
<1> DEFINE k == j - 1
<1>1. k \in Nat /\ k + 1 = j
  OBVIOUS
<1> HIDE DEF k
<1>2. After(u, b, k + 1) = IF After(u, b, k) = 0 THEN 0 ELSE u.bin[After(u, b, k)].next
  BY <1>1, AfterSteps
<1> QED BY <1>1, <1>2 DEF k

\* Following links stays among the headers in use.
LEMMA AfterWithin ==
    ASSUME NEW n \in 0 .. MAXBINS, NEW u \in HeapType(n), NEW b \in 0 .. n, NEW k \in Nat
    PROVE  After(u, b, k) \in 0 .. n
<1> DEFINE S == {j \in 0 .. k : After(u, b, j) \in 0 .. n}
<1>1. 0 \in S
  BY AfterSteps
<1>2. ASSUME NEW j \in 1 .. k, j - 1 \in S PROVE j \in S
  <2>1. j \in Nat \ {0}
    OBVIOUS
  <2>3. After(u, b, j) = IF After(u, b, j - 1) = 0 THEN 0 ELSE u.bin[After(u, b, j - 1)].next
    BY <2>1, AfterPrior
  <2>4. After(u, b, j - 1) # 0 => After(u, b, j - 1) \in Header
    BY <1>2, InitialAssumption DEF Header
  <2>5. \A c \in Header : u.bin[c].next \in 0 .. n
    BY DEF HeapType, BinType
  <2> QED BY <2>3, <2>4, <2>5
<1>3. 0 .. k \subseteq S
  <2> HIDE DEF S
  <2> QED BY <1>1, <1>2, Upto
<1> QED BY <1>3

\* The number of headers in use once one more has been found.
Grown(u) == IF u.ehead # 0 THEN u.bin_next ELSE u.bin_next + 1

LEMMA FreeType ==
    ASSUME NEW u, u \in HeapType(u.bin_next), u.ehead # 0 \/ u.bin_next < MAXBINS
    PROVE  /\ u.bin_next \in 1 .. MAXBINS /\ Grown(u) \in u.bin_next .. MAXBINS /\ Grown(u) \in Nat
           /\ FreeHeader(u) \in 1 .. Grown(u) /\ FreeHeader(u) \in Header
           /\ find_free_bin(u) \in HeapType(Grown(u))
           /\ find_free_bin(u).bin_next = Grown(u)
           /\ find_free_bin(u).bin = u.bin /\ find_free_bin(u).fault = u.fault
           /\ find_free_bin(u).bin_head = u.bin_head /\ find_free_bin(u).bin_tail = u.bin_tail
           /\ u.ehead = 0 => find_free_bin(u).ehead = 0
<1> DEFINE n == u.bin_next
<1>1. n \in 1 .. MAXBINS /\ MAXBINS \in Nat /\ u.ehead \in 0 .. n
  BY InitialAssumption DEF HeapType, Header
<1>2. Grown(u) \in n .. MAXBINS /\ Grown(u) \in Nat /\ n \in Nat /\ FreeHeader(u) \in 1 .. Grown(u)
  BY <1>1 DEF Grown, FreeHeader
<1>3. FreeHeader(u) \in Header
  BY <1>1, <1>2 DEF Header
<1>4. u \in HeapType(Grown(u))
  BY <1>1, <1>2, HeapGrows
<1>5. CASE u.ehead # 0
  <2>1. u.bin[u.ehead].next \in 0 .. n
    <3>1. u.ehead \in Header
      BY <1>1, <1>5 DEF Header
    <3>2. \A c \in Header : u.bin[c].next \in 0 .. n
      BY DEF HeapType, BinType
    <3> QED BY <3>1, <3>2
  <2> QED BY <1>1, <1>2, <1>3, <1>4, <1>5, <2>1, HeapSet DEF find_free_bin, Grown, HeapType
<1>6. CASE u.ehead = 0
  <2>1. n + 1 \in Header
    BY <1>1, <1>6 DEF Header
  <2>2. find_free_bin(u) = [u EXCEPT !.bin_next = n + 1]
    BY <1>6 DEF find_free_bin
  <2>3. [u EXCEPT !.bin_next = n + 1] \in HeapType(Grown(u))
    BY <1>4, <2>1 DEF HeapType
  <2> QED BY <1>1, <1>2, <1>3, <1>4, <1>6, <2>1, <2>2, <2>3 DEF Grown, HeapType
<1> QED BY <1>5, <1>6

LEMMA ZeroType == \A n \in Nat : Zero \in BinType(n)
  BY DEF Zero, BinType

\* What add_bin leaves; when the header is a fresh one, in every field.
Added(u, v, parent, addr, size) ==
    LET new  == FreeHeader(u)
        next == u.bin[parent].next
    IN
    /\ v \in HeapType(Grown(u)) /\ v.bin_next = Grown(u)
    /\ v.fault = u.fault /\ v.bin[new].size = size
    /\ u.ehead = 0 /\ next # parent =>
         /\ v.bin_head = u.bin_head /\ v.ehead = 0
         /\ v.bin_tail = IF u.bin_tail = parent THEN new ELSE u.bin_tail
         /\ v.bin[new].prev = parent /\ v.bin[new].next = next
         /\ v.bin[new].addr = addr /\ v.bin[new].taken = FALSE
         /\ v.bin[parent].next = new /\ v.bin[parent].prev = u.bin[parent].prev
         /\ v.bin[parent].addr = u.bin[parent].addr /\ v.bin[parent].size = u.bin[parent].size
         /\ v.bin[parent].taken = u.bin[parent].taken
         /\ next # 0 =>
              /\ v.bin[next].prev = new /\ v.bin[next].next = u.bin[next].next
              /\ v.bin[next].addr = u.bin[next].addr /\ v.bin[next].size = u.bin[next].size
              /\ v.bin[next].taken = u.bin[next].taken
         /\ \A c \in Header : c \notin {new, parent, next} => v.bin[c] = u.bin[c]

LEMMA AddBinEffect ==
    ASSUME NEW u, u \in HeapType(u.bin_next), u.ehead # 0 \/ u.bin_next < MAXBINS,
           NEW parent \in 1 .. u.bin_next, NEW addr \in Int, NEW size \in Int
    PROVE  Added(u, add_bin(u, parent, addr, size), parent, addr, size)
<1> DEFINE m == Grown(u)
           new == FreeHeader(u)
           first == find_free_bin(u)
           cleared == [first EXCEPT !.bin[new] = Zero]
           next == cleared.bin[parent].next
           r == [Zero EXCEPT !.next = next, !.prev = parent]
           linked == [cleared EXCEPT !.bin[new] = r]
           back == IF next = 0 THEN linked ELSE [linked EXCEPT !.bin[next].prev = new]
           e1 == [back EXCEPT !.bin[parent].next = new]
           tail == IF back.bin_tail = parent THEN new ELSE back.bin_tail
           e2 == [e1 EXCEPT !.bin_tail = tail]
           q == [e2.bin[new] EXCEPT !.size = size, !.taken = FALSE, !.addr = addr]
           e5 == [e2 EXCEPT !.bin[new] = q]
<1>1. /\ m \in Nat /\ new \in 1 .. m /\ new \in Header /\ parent \in 1 .. m /\ parent \in Header
      /\ m \in 1 .. MAXBINS /\ 1 .. m \subseteq Header
      /\ first \in HeapType(m) /\ first.bin_next = m /\ first.bin = u.bin /\ first.fault = u.fault
      /\ first.bin_head = u.bin_head /\ first.bin_tail = u.bin_tail
      /\ u.ehead = 0 => first.ehead = 0 /\ new = u.bin_next + 1
  <2>1. u.bin_next \in 1 .. MAXBINS /\ Grown(u) \in u.bin_next .. MAXBINS /\ MAXBINS \in Nat
    BY FreeType, InitialAssumption
  <2>2. parent \in Header /\ parent \in 1 .. m /\ m \in 1 .. MAXBINS /\ 1 .. m \subseteq Header
    BY <2>1 DEF Header
  <2> HIDE DEF m, new, first
  <2> QED BY <2>2, FreeType DEF m, new, first, FreeHeader
<1> HIDE DEF m, new, first
<1>2. /\ cleared \in HeapType(m) /\ SameRest(first, cleared) /\ SameBut(first, cleared, new)
      /\ cleared.bin[new] = Zero
  BY <1>1, PutBin, ZeroType
<1>3. next \in 0 .. m /\ (next # 0 => next \in Header)
  <2>1. \A c \in Header : cleared.bin[c].next \in 0 .. m
    BY <1>2 DEF HeapType, BinType
  <2>2. next \in 0 .. m
    BY <1>1, <2>1
  <2> HIDE DEF next
  <2> QED BY <1>1, <2>2
<1> HIDE DEF cleared, next
<1>4. r \in BinType(m) /\ r.next = next /\ r.prev = parent
  <2>1. Zero \in BinType(m) /\ parent \in 0 .. m
    BY <1>1, ZeroType
  <2> QED BY <1>3, <2>1 DEF BinType
<1> HIDE DEF r
<1>5. /\ linked \in HeapType(m) /\ SameRest(cleared, linked) /\ SameBut(cleared, linked, new)
      /\ linked.bin[new].prev = parent /\ linked.bin[new].next = next
  BY <1>1, <1>2, <1>4, PutBin
<1> HIDE DEF linked
<1>6. /\ back \in HeapType(m) /\ SameRest(linked, back)
      /\ back.bin[new].next = next
      /\ next # new => back.bin[new].prev = parent
      /\ next = 0 => \A c \in Header : back.bin[c] = linked.bin[c]
      /\ next # 0 => /\ SameBut(linked, back, next) /\ back.bin[next].prev = new
                     /\ back.bin[next].next = linked.bin[next].next
                     /\ back.bin[next].addr = linked.bin[next].addr
                     /\ back.bin[next].size = linked.bin[next].size
                     /\ back.bin[next].taken = linked.bin[next].taken
  <2>1. CASE next = 0
    BY <1>5, <2>1 DEF SameRest
  <2>2. CASE next # 0
    <3> DEFINE w == [linked EXCEPT !.bin[next].prev = new]
    <3>1. new \in 0 .. m
      BY <1>1
    <3>2. /\ w \in HeapType(m) /\ SameRest(linked, w) /\ SameBut(linked, w, next)
          /\ w.bin[next].prev = new
          /\ w.bin[next].next = linked.bin[next].next
          /\ w.bin[next].addr = linked.bin[next].addr
          /\ w.bin[next].size = linked.bin[next].size
          /\ w.bin[next].taken = linked.bin[next].taken
      BY <1>3, <1>5, <2>2, <3>1, PutPrev
    <3> HIDE DEF w
    <3>3. back = w
      BY <2>2 DEF w
    <3> HIDE DEF back
    <3> QED BY <1>1, <1>5, <2>2, <3>2, <3>3 DEF SameBut
  <2> QED BY <2>1, <2>2
<1> HIDE DEF back
<1>7. /\ e1 \in HeapType(m) /\ SameRest(back, e1) /\ SameBut(back, e1, parent)
      /\ e1.bin[parent].next = new /\ e1.bin[parent].prev = back.bin[parent].prev
      /\ e1.bin[parent].addr = back.bin[parent].addr
      /\ e1.bin[parent].size = back.bin[parent].size
      /\ e1.bin[parent].taken = back.bin[parent].taken
  <2>1. new \in 0 .. m
    BY <1>1
  <2> QED BY <1>1, <1>6, <2>1, PutNext
<1> HIDE DEF e1
<1>8. tail \in 0 .. m
  BY <1>1, <1>6 DEF HeapType
<1> HIDE DEF tail
<1>9. /\ e2 \in HeapType(m) /\ e2.bin = e1.bin /\ e2.bin_tail = tail
      /\ e2.bin_head = e1.bin_head /\ e2.bin_next = e1.bin_next /\ e2.ehead = e1.ehead
      /\ e2.fault = e1.fault
  BY <1>7, <1>8 DEF HeapType
<1> HIDE DEF e2
<1>10. /\ q \in BinType(m) /\ q.size = size /\ q.taken = FALSE /\ q.addr = addr
       /\ q.next = e2.bin[new].next /\ q.prev = e2.bin[new].prev
  <2>1. e2.bin[new] \in BinType(m)
    BY <1>1, <1>9 DEF HeapType
  <2> QED BY <2>1 DEF BinType
<1> HIDE DEF q
<1>12. e5 \in HeapType(m) /\ SameRest(e2, e5) /\ SameBut(e2, e5, new) /\ e5.bin[new] = q
  BY <1>1, <1>9, <1>10, PutBin
<1> HIDE DEF e5
<1>13. add_bin(u, parent, addr, size) = e5
  <2>1. Linked(first, parent, new) = e2
    BY DEF Linked, cleared, next, r, linked, back, e1, tail, e2
  <2>2. add_bin(u, parent, addr, size) =
            [Linked(first, parent, new) EXCEPT !.bin[new] = [@ EXCEPT !.size = size, !.taken = FALSE, !.addr = addr]]
    BY DEF add_bin, first, new
  <2> QED BY <2>1, <2>2 DEF e5, q
<1>14. e5.bin[new].size = size /\ e5.bin_next = m /\ e5.fault = u.fault
  BY <1>1, <1>2, <1>5, <1>6, <1>7, <1>9, <1>10, <1>12 DEF SameRest
<1>15. ASSUME u.ehead = 0, u.bin[parent].next # parent
       PROVE  LET p == u.bin[parent].next IN
              /\ e5.bin_head = u.bin_head /\ e5.ehead = 0
              /\ e5.bin_tail = IF u.bin_tail = parent THEN new ELSE u.bin_tail
              /\ e5.bin[new].prev = parent /\ e5.bin[new].next = p
              /\ e5.bin[new].addr = addr /\ e5.bin[new].taken = FALSE
              /\ e5.bin[parent].next = new /\ e5.bin[parent].prev = u.bin[parent].prev
              /\ e5.bin[parent].addr = u.bin[parent].addr /\ e5.bin[parent].size = u.bin[parent].size
              /\ e5.bin[parent].taken = u.bin[parent].taken
              /\ p # 0 => /\ e5.bin[p].prev = new /\ e5.bin[p].next = u.bin[p].next
                          /\ e5.bin[p].addr = u.bin[p].addr /\ e5.bin[p].size = u.bin[p].size
                          /\ e5.bin[p].taken = u.bin[p].taken
              /\ \A c \in Header : c \notin {new, parent, p} => e5.bin[c] = u.bin[c]
  <2>1. /\ e5.bin_head = u.bin_head /\ e5.ehead = 0
        /\ e5.bin_tail = IF u.bin_tail = parent THEN new ELSE u.bin_tail
    BY <1>1, <1>2, <1>5, <1>6, <1>7, <1>9, <1>10, <1>12, <1>15 DEF SameRest, tail
  <2>2. new # parent /\ next = u.bin[parent].next /\ next # parent /\ next # new
    <3>1. u.bin_next \in Nat /\ parent \in 1 .. u.bin_next /\ u.bin[parent].next \in 0 .. u.bin_next
      <4>1. \A c \in Header : u.bin[c].next \in 0 .. u.bin_next
        BY DEF HeapType, BinType
      <4> QED BY <1>1, <4>1, FreeType
    <3>2. new # parent /\ u.bin[parent].next # new
      BY <1>1, <1>15, <3>1
    <3>3. cleared.bin[parent] = u.bin[parent]
      BY <1>1, <1>2, <3>2 DEF SameBut
    <3> QED BY <1>15, <3>2, <3>3 DEF next
  <2>3. \A c \in Header : c # new => linked.bin[c] = u.bin[c]
    BY <1>1, <1>2, <1>5 DEF SameBut
  <2>4. \A c \in Header : c # new => e5.bin[c] = e1.bin[c]
    BY <1>9, <1>10, <1>12 DEF SameBut
  <2>5. /\ e5.bin[new].prev = parent /\ e5.bin[new].next = next
        /\ e5.bin[new].addr = addr /\ e5.bin[new].taken = FALSE
    BY <1>1, <1>6, <1>7, <1>9, <1>10, <1>12, <2>2 DEF SameBut
  <2>6. back.bin[parent] = u.bin[parent]
    BY <1>1, <1>6, <2>2, <2>3 DEF SameBut
  <2>7. /\ e5.bin[parent].next = new /\ e5.bin[parent].prev = u.bin[parent].prev
        /\ e5.bin[parent].addr = u.bin[parent].addr /\ e5.bin[parent].size = u.bin[parent].size
        /\ e5.bin[parent].taken = u.bin[parent].taken
    BY <1>1, <1>7, <2>2, <2>4, <2>6
  <2>8. ASSUME next # 0
        PROVE  /\ e5.bin[next].prev = new /\ e5.bin[next].next = u.bin[next].next
               /\ e5.bin[next].addr = u.bin[next].addr /\ e5.bin[next].size = u.bin[next].size
               /\ e5.bin[next].taken = u.bin[next].taken
    <3>1. e5.bin[next] = back.bin[next]
      BY <1>3, <1>7, <2>2, <2>4, <2>8 DEF SameBut
    <3> QED BY <1>3, <1>6, <2>2, <2>3, <2>8, <3>1
  <2>9. ASSUME NEW c \in Header, c \notin {new, parent, next} PROVE e5.bin[c] = u.bin[c]
    <3>1. back.bin[c] = linked.bin[c]
      BY <1>6, <2>9 DEF SameBut
    <3> QED BY <1>7, <2>3, <2>4, <2>9, <3>1 DEF SameBut
  <2> QED BY <2>1, <2>2, <2>5, <2>7, <2>8, <2>9
<1> QED BY <1>12, <1>13, <1>14, <1>15 DEF m, new, Added

\* Removing a header keeps pointers within those in use.  ehead, once there, stays;
\* without one it becomes the header, unless that was the only bin.
LEMMA RemoveEffect ==
    ASSUME NEW n \in 1 .. MAXBINS, NEW u \in HeapType(n), NEW b \in 1 .. n
    PROVE  LET v == remove_bin(u, b) IN
           /\ v \in HeapType(n) /\ v.bin_next = u.bin_next
           /\ u.ehead # 0 => v.ehead # 0
           /\ u.bin_head # b \/ u.bin_tail # b => v.ehead # 0
<1> DEFINE prev == u.bin[b].prev
           next == u.bin[b].next
           fwd == IF next = 0 THEN u ELSE [u EXCEPT !.bin[next].prev = prev]
           out == IF prev = 0 THEN fwd ELSE [fwd EXCEPT !.bin[prev].next = next]
           head == IF out.bin_head = b THEN out.bin[b].next ELSE out.bin_head
           tail == IF out.bin_tail = b THEN out.bin[b].prev ELSE out.bin_tail
           half == [out EXCEPT !.bin_head = head]
           ends == [half EXCEPT !.bin_tail = tail]
           e == LastOf(ends, ends.ehead)
           last == [ends EXCEPT !.bin[e].next = b]
           tied == [last EXCEPT !.bin[b].prev = e]
<1>1. 1 .. n \subseteq Header /\ b \in Header /\ MAXBINS \in Nat /\ n \in 0 .. MAXBINS /\ b \in 0 .. n /\ b # 0
  BY InitialAssumption DEF Header
<1>2. \A w \in HeapType(n) : \A c \in Header : w.bin[c].prev \in 0 .. n /\ w.bin[c].next \in 0 .. n
  BY DEF HeapType, BinType
<1>3. /\ prev \in 0 .. n /\ next \in 0 .. n
      /\ prev # 0 => prev \in Header
      /\ next # 0 => next \in Header
  BY <1>1, <1>2
<1> HIDE DEF prev, next
<1>4. fwd \in HeapType(n) /\ SameRest(u, fwd)
  <2>1. CASE next = 0
    BY <2>1 DEF SameRest
  <2>2. CASE next # 0
    BY <1>3, <2>2, PutPrev
  <2> QED BY <2>1, <2>2
<1> HIDE DEF fwd
<1>5. out \in HeapType(n) /\ SameRest(fwd, out)
  <2>1. CASE prev = 0
    BY <1>4, <2>1 DEF SameRest
  <2>2. CASE prev # 0
    BY <1>3, <1>4, <2>2, PutNext
  <2> QED BY <2>1, <2>2
<1> HIDE DEF out
<1>6. head \in 0 .. n /\ tail \in 0 .. n
  <2>1. out.bin_head \in 0 .. n /\ out.bin_tail \in 0 .. n
    BY <1>5 DEF HeapType
  <2> QED BY <1>1, <1>2, <1>5, <2>1
<1> HIDE DEF head, tail
<1>7. half \in HeapType(n) /\ half.bin_next = out.bin_next /\ half.ehead = out.ehead
  BY <1>5, <1>6 DEF HeapType
<1> HIDE DEF half
<1>8. ends \in HeapType(n) /\ ends.bin_next = out.bin_next /\ ends.ehead = out.ehead
  BY <1>6, <1>7 DEF HeapType
<1> HIDE DEF ends
<1>9. remove_bin(u, b) =
          IF out.bin_head = b /\ out.bin_tail = b THEN out
          ELSE IF ends.ehead = 0 THEN [ends EXCEPT !.ehead = b]
          ELSE IF Endless(ends, ends.ehead) THEN Fault(ends, "hang")
          ELSE [ends EXCEPT !.bin[e].next = b, !.bin[b].prev = e]
  BY ZenonT(60) DEF remove_bin, ends, half, head, tail, out, fwd, prev, next
<1>10. [ends EXCEPT !.bin[e].next = b, !.bin[b].prev = e] = tied
  OBVIOUS
<1>11. CASE out.bin_head = b /\ out.bin_tail = b
  BY <1>4, <1>5, <1>9, <1>11 DEF SameRest
<1>12. CASE ~(out.bin_head = b /\ out.bin_tail = b) /\ ends.ehead = 0
  <2>1. remove_bin(u, b) = [ends EXCEPT !.ehead = b]
    BY <1>9, <1>12
  <2>2. LET v == [ends EXCEPT !.ehead = b] IN v \in HeapType(n) /\ v.ehead = b /\ v.bin_next = ends.bin_next
    BY <1>1, <1>8 DEF HeapType
  <2> QED BY <1>1, <1>4, <1>5, <1>8, <2>1, <2>2 DEF SameRest
<1>13. CASE ~(out.bin_head = b /\ out.bin_tail = b) /\ ends.ehead # 0 /\ Endless(ends, ends.ehead)
  <2>1. remove_bin(u, b) = Fault(ends, "hang")
    BY <1>9, <1>13
  <2>2. LET v == Fault(ends, "hang") IN v \in HeapType(n) /\ v.ehead = ends.ehead /\ v.bin_next = ends.bin_next
    BY <1>1, <1>8 DEF HeapType, Fault
  <2> QED BY <1>4, <1>5, <1>8, <1>13, <2>1, <2>2 DEF SameRest
<1>14. CASE ~(out.bin_head = b /\ out.bin_tail = b) /\ ends.ehead # 0 /\ ~Endless(ends, ends.ehead)
  <2>1. remove_bin(u, b) = tied
    BY <1>9, <1>10, <1>14
  <2>2. e \in 0 .. n
    <3> DEFINE C == Chain(ends, ends.ehead)
    <3>1. ends.ehead \in 0 .. n
      BY <1>8 DEF HeapType
    <3>2. 0 \in C
      <4>1. After(ends, ends.ehead, 0) = ends.ehead /\ 0 \in 0 .. MAXBINS - 1
        BY AfterSteps, InitialAssumption
      <4> QED BY <1>14, <4>1 DEF Chain
    <3>3. IsFiniteSet(C)
      <4>1. C \in SUBSET (0 .. MAXBINS - 1) /\ IsFiniteSet(0 .. MAXBINS - 1)
        BY FS_Interval, <1>1 DEF Chain
      <4> QED BY <4>1, FS_Subset
    <3> HIDE DEF C
    <3>4. Cardinality(C) \in Nat /\ Cardinality(C) # 0
      BY <3>2, <3>3, FS_CardinalityType, FS_EmptySet
    <3>5. Cardinality(C) - 1 \in Nat
      BY <3>4
    <3>6. After(ends, ends.ehead, Cardinality(C) - 1) \in 0 .. n
      BY <1>1, <1>8, <3>1, <3>5, AfterWithin
    <3> QED BY <3>6 DEF LastOf, C
  <2> HIDE DEF e
  <2>3. last \in HeapType(n) /\ last.bin_next = ends.bin_next /\ last.ehead = ends.ehead
    <3>1. CASE e \in Header
      BY <1>1, <1>8, <3>1, PutNext DEF SameRest
    <3>2. CASE e \notin Header
      <4> DEFINE f == [ends.bin EXCEPT ![e].next = b]
      <4>1. f \in [Header -> BinType(n)]
        BY <1>8, <3>2 DEF HeapType
      <4>2. last = [ends EXCEPT !.bin = f]
        OBVIOUS
      <4> HIDE DEF f
      <4>3. LET v == [ends EXCEPT !.bin = f] IN
            v \in HeapType(n) /\ v.bin_next = ends.bin_next /\ v.ehead = ends.ehead
        BY <1>8, <4>1 DEF HeapType
      <4> QED BY <4>2, <4>3
    <3> QED BY <3>1, <3>2
  <2> HIDE DEF last
  <2>4. tied \in HeapType(n) /\ SameRest(last, tied)
    BY <1>1, <2>2, <2>3, PutPrev
  <2> QED BY <1>4, <1>5, <1>8, <1>14, <2>1, <2>3, <2>4 DEF SameRest
<1> QED BY <1>11, <1>12, <1>13, <1>14

\* Merging with a neighbour keeps types, and nothing is merged without a header
\* being put on the list of empty ones.
LEMMA MergeNextEffect ==
    ASSUME NEW n \in 1 .. MAXBINS, NEW u \in HeapType(n), NEW b \in 1 .. n
    PROVE  LET v == MergeNext(u, b) IN
           /\ v \in HeapType(n) /\ v.bin_next = u.bin_next
           /\ u.ehead # 0 => v.ehead # 0
           /\ u.bin[b].next # b => v = u \/ v.ehead # 0
<1> DEFINE c == u.bin[b].next
           size == u.bin[b].size + u.bin[c].size
           tail == IF u.bin_tail = c THEN b ELSE u.bin_tail
           head == IF u.bin_head = b THEN c ELSE u.bin_head
           grown == [u EXCEPT !.bin[b].size = size]
           moved == [grown EXCEPT !.bin_tail = tail]
           w == [moved EXCEPT !.bin_head = head]
<1>1. CASE ~BothFree(u, b, c)
  <2>1. MergeNext(u, b) = u
    BY <1>1 DEF MergeNext
  <2> QED BY <2>1
<1>2. CASE BothFree(u, b, c)
  <2>1. c # 0 /\ b \in 0 .. n /\ b \in Header /\ 1 .. n \subseteq Header
    BY <1>2, InitialAssumption DEF BothFree, Header
  <2>2. c \in 1 .. n /\ c \in 0 .. n /\ c \in Header
    <3>1. \A d \in Header : u.bin[d].prev \in 0 .. n /\ u.bin[d].next \in 0 .. n
      BY DEF HeapType, BinType
    <3>2. c \in 0 .. n
      BY <2>1, <3>1
    <3> HIDE DEF c
    <3> QED BY <2>1, <3>2
  <2>3. size \in Int /\ tail \in 0 .. n /\ head \in 0 .. n
    <3>1. \A d \in Header : u.bin[d].size \in Int
      BY DEF HeapType, BinType
    <3>2. u.bin_head \in 0 .. n /\ u.bin_tail \in 0 .. n
      BY DEF HeapType
    <3> HIDE DEF c
    <3> QED BY <2>1, <2>2, <3>1, <3>2
  <2>4. MergeNext(u, b) = remove_bin(w, c)
    BY <1>2 DEF MergeNext
  <2>5. b # c => tail # c \/ head # c
    BY DEF c
  <2> HIDE DEF c, size, tail, head
  <2>6. grown \in HeapType(n) /\ SameRest(u, grown)
    BY <2>1, <2>3, PutSize
  <2> HIDE DEF grown
  <2>7. moved \in HeapType(n) /\ moved.bin_next = u.bin_next /\ moved.ehead = u.ehead /\ moved.bin_tail = tail
    BY <2>3, <2>6 DEF HeapType, SameRest
  <2> HIDE DEF moved
  <2>8. /\ w \in HeapType(n) /\ w.bin_next = u.bin_next /\ w.ehead = u.ehead
        /\ w.bin_tail = tail /\ w.bin_head = head
    BY <2>3, <2>7 DEF HeapType
  <2> HIDE DEF w
  <2>9. /\ remove_bin(w, c) \in HeapType(n) /\ remove_bin(w, c).bin_next = w.bin_next
        /\ w.ehead # 0 => remove_bin(w, c).ehead # 0
        /\ w.bin_head # c \/ w.bin_tail # c => remove_bin(w, c).ehead # 0
    BY <2>2, <2>8, RemoveEffect
  <2> QED BY <2>4, <2>5, <2>8, <2>9 DEF c
<1> QED BY <1>1, <1>2

LEMMA MergePrevEffect ==
    ASSUME NEW n \in 1 .. MAXBINS, NEW u \in HeapType(n), NEW b \in 1 .. n
    PROVE  LET v == MergePrev(u, b) IN
           /\ v \in HeapType(n) /\ v.bin_next = u.bin_next
           /\ u.ehead # 0 => v.ehead # 0
           /\ u.bin[b].prev # b => v = u \/ v.ehead # 0
<1> DEFINE c == u.bin[b].prev
           size == u.bin[b].size + u.bin[c].size
           tail == IF u.bin_tail = b THEN c ELSE u.bin_tail
           head == IF u.bin_head = c THEN b ELSE u.bin_head
           grown == [u EXCEPT !.bin[b].size = size]
           moved == [grown EXCEPT !.bin_tail = tail]
           w == [moved EXCEPT !.bin_head = head]
<1>1. CASE ~BothFree(u, b, c)
  <2>1. MergePrev(u, b) = u
    BY <1>1 DEF MergePrev
  <2> QED BY <2>1
<1>2. CASE BothFree(u, b, c)
  <2>1. c # 0 /\ b \in 0 .. n /\ b \in Header /\ 1 .. n \subseteq Header
    BY <1>2, InitialAssumption DEF BothFree, Header
  <2>2. c \in 1 .. n /\ c \in 0 .. n /\ c \in Header
    <3>1. \A d \in Header : u.bin[d].prev \in 0 .. n /\ u.bin[d].next \in 0 .. n
      BY DEF HeapType, BinType
    <3>2. c \in 0 .. n
      BY <2>1, <3>1
    <3> HIDE DEF c
    <3> QED BY <2>1, <3>2
  <2>3. size \in Int /\ tail \in 0 .. n /\ head \in 0 .. n
    <3>1. \A d \in Header : u.bin[d].size \in Int
      BY DEF HeapType, BinType
    <3>2. u.bin_head \in 0 .. n /\ u.bin_tail \in 0 .. n
      BY DEF HeapType
    <3> HIDE DEF c
    <3> QED BY <2>1, <2>2, <3>1, <3>2
  <2>4. MergePrev(u, b) = remove_bin(w, c)
    BY <1>2 DEF MergePrev
  <2>5. b # c => tail # c \/ head # c
    BY DEF c
  <2> HIDE DEF c, size, tail, head
  <2>6. grown \in HeapType(n) /\ SameRest(u, grown)
    BY <2>1, <2>3, PutSize
  <2> HIDE DEF grown
  <2>7. moved \in HeapType(n) /\ moved.bin_next = u.bin_next /\ moved.ehead = u.ehead /\ moved.bin_tail = tail
    BY <2>3, <2>6 DEF HeapType, SameRest
  <2> HIDE DEF moved
  <2>8. /\ w \in HeapType(n) /\ w.bin_next = u.bin_next /\ w.ehead = u.ehead
        /\ w.bin_tail = tail /\ w.bin_head = head
    BY <2>3, <2>7 DEF HeapType
  <2> HIDE DEF w
  <2>9. /\ remove_bin(w, c) \in HeapType(n) /\ remove_bin(w, c).bin_next = w.bin_next
        /\ w.ehead # 0 => remove_bin(w, c).ehead # 0
        /\ w.bin_head # c \/ w.bin_tail # c => remove_bin(w, c).ehead # 0
    BY <2>2, <2>8, RemoveEffect
  <2> QED BY <2>4, <2>5, <2>8, <2>9 DEF c
<1> QED BY <1>1, <1>2

MergeTurn(v, b) == IF v.fault # "no" THEN v ELSE MergePrev(MergeNext(v, b), b)

MergeRun(f, u, b, n) == f = [k \in 0 .. n |-> IF k = 0 THEN u ELSE MergeTurn(f[k - 1], b)]

\* The recursive function of merge_bin exists, so that it has its values.
LEMMA MergeRuns ==
    ASSUME NEW u, NEW b
    PROVE  \E f : /\ MergeRun(f, u, b, MAXBINS + 1)
                  /\ merge_bin(u, b) = IF f[MAXBINS + 1] = f[MAXBINS] THEN f[MAXBINS]
                                       ELSE Fault(f[MAXBINS], "hang")
<1> DEFINE Good == {l \in Nat : \E f : MergeRun(f, u, b, l)}
<1>1. 0 \in Good
  <2> DEFINE f == [k \in 0 .. 0 |-> u]
  <2>1. MergeRun(f, u, b, 0)
    BY DEF MergeRun
  <2> QED BY <2>1
<1>2. ASSUME NEW l \in 1 .. MAXBINS + 1, l - 1 \in Good PROVE l \in Good
  <2>1. PICK f : MergeRun(f, u, b, l - 1)
    BY <1>2
  <2> DEFINE g == [k \in 0 .. l |-> IF k \in 0 .. l - 1 THEN f[k] ELSE MergeTurn(f[l - 1], b)]
  <2>2. l \in Nat \ {0} /\ l - 1 \in 0 .. l - 1
    BY InitialAssumption
  <2>3. \A k \in 0 .. l - 1 : g[k] = f[k]
    BY <2>2
  <2>4. \A k \in 0 .. l : g[k] = IF k = 0 THEN u ELSE MergeTurn(g[k - 1], b)
    <3> TAKE k \in 0 .. l
    <3>1. CASE k = l
      BY <2>2, <2>3, <3>1
    <3>2. CASE k \in 0 .. l - 1
      <4>1. f[k] = IF k = 0 THEN u ELSE MergeTurn(f[k - 1], b)
        BY <2>1, <3>2 DEF MergeRun
      <4>2. k # 0 => k - 1 \in 0 .. l - 1
        BY <2>2, <3>2
      <4> HIDE DEF g
      <4> QED BY <2>3, <3>2, <4>1, <4>2
    <3> QED BY <2>2, <3>1, <3>2
  <2>5. MergeRun(g, u, b, l)
    BY <2>4 DEF MergeRun
  <2> QED BY <2>2, <2>5
<1>3. MAXBINS + 1 \in Good
  <2> HIDE DEF Good
  <2>1. MAXBINS + 1 \in Nat
    BY InitialAssumption
  <2>2. 0 .. MAXBINS + 1 \subseteq Good
    BY <1>1, <1>2, <2>1, Upto
  <2> QED BY <2>1, <2>2
<1> DEFINE f == CHOOSE g : MergeRun(g, u, b, MAXBINS + 1)
<1>4. MergeRun(f, u, b, MAXBINS + 1)
  BY <1>3
<1>5. merge_bin(u, b) = IF f[MAXBINS + 1] = f[MAXBINS] THEN f[MAXBINS] ELSE Fault(f[MAXBINS], "hang")
  BY DEF merge_bin, MergeTurn, MergeRun
<1> QED BY <1>4, <1>5

LEMMA MergeEffect ==
    ASSUME NEW n \in 1 .. MAXBINS, NEW u \in HeapType(n), NEW b \in 1 .. n
    PROVE  LET v == merge_bin(u, b) IN
           /\ v \in HeapType(n) /\ v.bin_next = u.bin_next
           /\ u.bin[b].next # b /\ u.bin[b].prev # b => v = u \/ v.ehead # 0 \/ v.fault # "no"
<1> DEFINE apart == u.bin[b].next # b /\ u.bin[b].prev # b
           Fine(v) == /\ v \in HeapType(n) /\ v.bin_next = u.bin_next
                      /\ apart => v = u \/ v.ehead # 0
<1>1. PICK f : /\ MergeRun(f, u, b, MAXBINS + 1)
               /\ merge_bin(u, b) = IF f[MAXBINS + 1] = f[MAXBINS] THEN f[MAXBINS]
                                    ELSE Fault(f[MAXBINS], "hang")
  BY MergeRuns
<1>2. \A v : Fine(v) => Fine(MergeNext(v, b))
  BY MergeNextEffect
<1>3. \A v : Fine(v) => Fine(MergePrev(v, b))
  BY MergePrevEffect
<1>4. \A v : Fine(v) => Fine(MergeTurn(v, b))
  <2> HIDE DEF Fine
  <2> QED BY <1>2, <1>3 DEF MergeTurn
<1> DEFINE S == {k \in 0 .. MAXBINS + 1 : Fine(f[k])}
<1>5. MAXBINS + 1 \in Nat /\ MAXBINS \in 0 .. MAXBINS + 1
  BY InitialAssumption
<1>6. f[0] = u
  BY <1>1, <1>5 DEF MergeRun
<1>7. 0 \in S
  BY <1>5, <1>6
<1>8. ASSUME NEW k \in 1 .. MAXBINS + 1, k - 1 \in S PROVE k \in S
  <2> HIDE DEF Fine
  <2>1. f[k] = MergeTurn(f[k - 1], b)
    BY <1>1, <1>5 DEF MergeRun
  <2> QED BY <1>4, <1>8, <2>1
<1>9. 0 .. MAXBINS + 1 \subseteq S
  <2> HIDE DEF S
  <2> QED BY <1>5, <1>7, <1>8, Upto
<1>10. Fine(f[MAXBINS])
  <2> HIDE DEF Fine
  <2> QED BY <1>5, <1>9
<1>11. LET v == Fault(f[MAXBINS], "hang") IN
       v \in HeapType(n) /\ v.bin_next = u.bin_next /\ v.fault # "no"
  BY <1>10 DEF Fault, HeapType
<1> QED BY <1>1, <1>10, <1>11

LEMMA ChainType ==
    ASSUME NEW n \in 1 .. MAXBINS, NEW u \in HeapType(n), NEW k \in Chain(u, u.bin_head)
    PROVE  /\ k \in Nat /\ After(u, u.bin_head, k) \in 1 .. n /\ After(u, u.bin_head, k) \in Header
           /\ u.bin[After(u, u.bin_head, k)] \in BinType(n)
<1>1. k \in Nat /\ After(u, u.bin_head, k) # 0 /\ n \in 0 .. MAXBINS /\ MAXBINS \in Nat
  BY InitialAssumption DEF Chain
<1>2. u.bin_head \in 0 .. n
  BY DEF HeapType
<1>3. After(u, u.bin_head, k) \in 0 .. n
  BY <1>1, <1>2, AfterWithin
<1>4. After(u, u.bin_head, k) \in 1 .. n /\ After(u, u.bin_head, k) \in Header
  BY <1>1, <1>3 DEF Header
<1> QED BY <1>1, <1>4 DEF HeapType

\* The best fit is a free bin of the list that is large enough, or there is none.
LEMMA BestFits ==
    ASSUME NEW n \in 1 .. MAXBINS, NEW u \in HeapType(n), NEW s \in Nat
    PROVE  LET best == find_best_fit(u, s)
               Fits(b) == ~u.bin[b].taken /\ u.bin[b].size >= s
           IN  \/ best = 0 /\ \A k \in Chain(u, u.bin_head) : ~Fits(After(u, u.bin_head, k))
               \/ best \in 1 .. n /\ best \in Header /\ Fits(best)
<1> DEFINE binAt(k) == u.bin[After(u, u.bin_head, k)]
           fits == {k \in Chain(u, u.bin_head) : ~binAt(k).taken /\ binAt(k).size >= s}
           Least(k) == \A j \in fits : \/ binAt(k).size < binAt(j).size
                                       \/ binAt(k).size = binAt(j).size /\ k <= j
           pick == CHOOSE k \in fits : Least(k)
<1>1. find_best_fit(u, s) = IF fits = {} THEN 0 ELSE After(u, u.bin_head, pick)
  BY DEF find_best_fit
<1>2. CASE fits = {}
  <2>1. find_best_fit(u, s) = 0
    BY <1>1, <1>2
  <2> QED BY <1>2, <2>1
<1>3. CASE fits # {}
  <2>1. \A k \in fits : k \in Nat /\ binAt(k).size \in Nat
    <3> TAKE k \in fits
    <3>1. k \in Nat /\ binAt(k) \in BinType(n)
      BY ChainType
    <3>2. binAt(k).size \in Int /\ binAt(k).size >= s
      BY <3>1 DEF BinType
    <3> QED BY <3>1, <3>2
  <2> DEFINE sizes == {binAt(k).size : k \in fits}
  <2>2. sizes \in SUBSET Nat /\ sizes # {}
    BY <1>3, <2>1
  <2>3. PICK x \in sizes : \A y \in sizes : x <= y
    <3> HIDE DEF sizes
    <3> QED BY <2>2, LeastNat
  <2> DEFINE firsts == {k \in fits : binAt(k).size = x}
  <2>4. firsts \in SUBSET Nat /\ firsts # {}
    BY <2>1, <2>3
  <2>5. PICK k \in firsts : \A j \in firsts : k <= j
    <3> HIDE DEF firsts
    <3> QED BY <2>4, LeastNat
  <2>6. k \in fits /\ binAt(k).size = x
    BY <2>5
  <2>7. \A j \in fits : \/ binAt(k).size < binAt(j).size
                        \/ binAt(k).size = binAt(j).size /\ k <= j
    <3> TAKE j \in fits
    <3>1. binAt(j).size \in sizes
      OBVIOUS
    <3>2. x <= binAt(j).size
      BY <2>3, <3>1
    <3>3. binAt(j).size = x => k <= j
      BY <2>5
    <3>4. x \in Nat /\ binAt(j).size \in Nat
      BY <2>1, <2>6
    <3> HIDE DEF binAt, fits, sizes
    <3> QED BY <2>6, <3>2, <3>3, <3>4
  <2>8. pick \in fits
    <3>1. Least(k)
      BY <2>7
    <3> HIDE DEF Least, fits
    <3> QED BY <2>6, <3>1
  <2>9. find_best_fit(u, s) = After(u, u.bin_head, pick)
    BY <1>1, <1>3
  <2> HIDE DEF pick
  <2>10. pick \in Chain(u, u.bin_head) /\ ~binAt(pick).taken /\ binAt(pick).size >= s
    BY <2>8
  <2>11. After(u, u.bin_head, pick) \in 1 .. n /\ After(u, u.bin_head, pick) \in Header
    BY <2>10, ChainType
  <2> QED BY <2>9, <2>10, <2>11
<1> QED BY <1>2, <1>3

\* free takes a bin with the address, if the list has one.
Released(u, b) == [u EXCEPT !.bin[b].taken = FALSE]

LEMMA FreeEffect ==
    ASSUME NEW n \in 1 .. MAXBINS, NEW u \in HeapType(n), NEW p
    PROVE  \/ /\ \A k \in Chain(u, u.bin_head) : u.bin[After(u, u.bin_head, k)].addr # p
              /\ Free(u, p) \in HeapType(n) /\ Free(u, p).bin_next = u.bin_next
           \/ \E b \in 1 .. n : /\ u.bin[b].addr = p
                                /\ Free(u, p) = merge_bin(Released(u, b), b)
<1> DEFINE hits == {k \in Chain(u, u.bin_head) : u.bin[After(u, u.bin_head, k)].addr = p}
           Least(k) == \A j \in hits : k <= j
           pick == CHOOSE k \in hits : Least(k)
<1>1. CASE hits = {}
  <2>1. Free(u, p) = IF Endless(u, u.bin_head) THEN Fault(u, "hang") ELSE u
    BY <1>1 DEF Free
  <2>2. Fault(u, "hang") \in HeapType(n) /\ Fault(u, "hang").bin_next = u.bin_next
    BY DEF Fault, HeapType
  <2>3. Free(u, p) \in HeapType(n) /\ Free(u, p).bin_next = u.bin_next
    BY <2>1, <2>2
  <2> QED BY <1>1, <2>3
<1>2. CASE hits # {}
  <2>1. hits \in SUBSET Nat
    BY ChainType
  <2>2. PICK k \in hits : \A j \in hits : k <= j
    <3> HIDE DEF hits
    <3> QED BY <1>2, <2>1, LeastNat
  <2>3. pick \in hits
    <3>1. Least(k)
      BY <2>2
    <3> HIDE DEF Least, hits
    <3> QED BY <2>2, <3>1
  <2> DEFINE b == After(u, u.bin_head, pick)
  <2>4. Free(u, p) = merge_bin(Released(u, b), b)
    BY <1>2 DEF Free, Released
  <2> HIDE DEF pick
  <2>5. pick \in Chain(u, u.bin_head) /\ u.bin[b].addr = p
    BY <2>3
  <2>6. b \in 1 .. n
    BY <2>5, ChainType
  <2> HIDE DEF b
  <2> QED BY <2>4, <2>5, <2>6
<1> QED BY <1>1, <1>2

LEMMA FreedType ==
    ASSUME NEW n \in 1 .. MAXBINS, NEW u \in HeapType(n), NEW p
    PROVE  Free(u, p) \in HeapType(n) /\ Free(u, p).bin_next = u.bin_next
<1>1. ASSUME NEW b \in 1 .. n, Free(u, p) = merge_bin(Released(u, b), b)
      PROVE  Free(u, p) \in HeapType(n) /\ Free(u, p).bin_next = u.bin_next
  <2> DEFINE v == Released(u, b)
  <2>1. b \in Header
    BY InitialAssumption DEF Header
  <2>2. v \in HeapType(n) /\ SameRest(u, v)
    BY <2>1, PutFree DEF Released
  <2> HIDE DEF v
  <2>3. merge_bin(v, b) \in HeapType(n) /\ merge_bin(v, b).bin_next = v.bin_next
    BY <2>2, MergeEffect
  <2>4. Free(u, p) = merge_bin(v, b)
    BY <1>1 DEF v
  <2> QED BY <2>2, <2>3, <2>4 DEF SameRest
<1> QED BY <1>1, FreeEffect

-----------------------------------------------------------------------------
(* The headers of the user heap: the row of bins until bins are merged.    *)

\* What a bin in use has to do with its neighbours and with the last bin.
BinInRow(u, b) ==
    LET bin == u.bin[b] IN
    /\ bin.addr \in Nat /\ bin.size \in Nat \ {0}
    /\ (bin.next = 0) <=> (b = u.bin_tail)
    /\ (bin.prev = 0) <=> (b = u.bin_head)
    /\ bin.next # 0 => /\ u.bin[bin.next].prev = b
                       /\ u.bin[bin.next].addr = bin.addr + bin.size
    /\ bin.prev # 0 => u.bin[bin.prev].next = b
    /\ bin.addr + bin.size <= u.bin[u.bin_tail].addr + u.bin[u.bin_tail].size

\* No header was put away, every header handed out is a bin in the row, and the
\* others are as they were.
InRow(u) ==
    /\ u.ehead = 0 /\ u.fault = "no"
    /\ u.bin_head \in 1 .. u.bin_next /\ u.bin_tail \in 1 .. u.bin_next
    /\ \A b \in Header : b > u.bin_next => u.bin[b] = Zero
    /\ \A b \in 1 .. u.bin_next : BinInRow(u, b)
    /\ \A b, c \in 1 .. u.bin_next : b # c => Disjoint(u.bin[b], u.bin[c])

\* Blocks have addresses of their own, and each a bin that is taken, large enough
\* unless realloc vouched for it.
Housed(u, blocks) ==
    /\ \A x \in blocks : /\ x.addr \in Nat /\ x.size \in Nat
                         /\ \E b \in 1 .. u.bin_next : /\ u.bin[b].taken /\ u.bin[b].addr = x.addr
                                                       /\ ~x.kept => x.size <= u.bin[b].size
    /\ \A x, y \in blocks : x # y => x.addr # y.addr

HeapInv ==
    /\ heap \in HeapType(heap.bin_next)
    /\ merged \in BOOLEAN
    /\ ~merged /\ heap.fault # "unset" => InRow(heap) /\ Housed(heap, live)

LEMMA HeadersInUse ==
    ASSUME NEW u, u \in HeapType(u.bin_next)
    PROVE  /\ u.bin_next \in 1 .. MAXBINS /\ u.bin_next \in 0 .. MAXBINS /\ u.bin_next \in Nat
           /\ MAXBINS \in Nat /\ 1 .. u.bin_next \subseteq Header
           /\ \A b \in Header : /\ u.bin[b] \in BinType(u.bin_next)
                                /\ u.bin[b].prev \in 0 .. u.bin_next /\ u.bin[b].next \in 0 .. u.bin_next
                                /\ u.bin[b].addr \in Int /\ u.bin[b].size \in Int
                                /\ u.bin[b].taken \in BOOLEAN
<1>1. u.bin_next \in 1 .. MAXBINS /\ MAXBINS \in Nat
  BY InitialAssumption DEF HeapType, Header
<1>2. u.bin_next \in 0 .. MAXBINS /\ u.bin_next \in Nat /\ 1 .. u.bin_next \subseteq Header
  BY <1>1 DEF Header
<1>3. \A b \in Header : u.bin[b] \in BinType(u.bin_next)
  BY DEF HeapType
<1> QED BY <1>1, <1>2, <1>3 DEF BinType

\* The row is followed from one bin to the next at a higher address.
LEMMA RowAscends ==
    ASSUME NEW u, u \in HeapType(u.bin_next), InRow(u), NEW k \in Nat,
           After(u, u.bin_head, k) # 0
    PROVE  \A j \in 0 .. k : /\ After(u, u.bin_head, j) \in 1 .. u.bin_next
                             /\ j # k => u.bin[After(u, u.bin_head, j)].addr < u.bin[After(u, u.bin_head, k)].addr
<1> DEFINE n == u.bin_next
           A(j) == After(u, u.bin_head, j)
           Up(l) == A(l) # 0 => \A j \in 0 .. l : A(j) \in 1 .. n /\ (j # l => u.bin[A(j)].addr < u.bin[A(l)].addr)
           S == {l \in 0 .. k : Up(l)}
<1>1. n \in 1 .. MAXBINS /\ n \in 0 .. MAXBINS /\ n \in Nat /\ MAXBINS \in Nat
  BY HeadersInUse
<1>2. A(0) = u.bin_head /\ u.bin_head \in 1 .. n
  BY AfterSteps DEF InRow
<1>3. 0 \in S
  BY <1>1, <1>2
<1>4. ASSUME NEW l \in 1 .. k, l - 1 \in S PROVE l \in S
  <2> SUFFICES ASSUME A(l) # 0
               PROVE  \A j \in 0 .. l : A(j) \in 1 .. n /\ (j # l => u.bin[A(j)].addr < u.bin[A(l)].addr)
    OBVIOUS
  <2>1. l - 1 \in Nat /\ l \in Nat \ {0}
    OBVIOUS
  <2>2. A(l) = IF A(l - 1) = 0 THEN 0 ELSE u.bin[A(l - 1)].next
    BY <2>1, AfterPrior
  <2> HIDE DEF A
  <2>3. A(l - 1) # 0 /\ A(l) = u.bin[A(l - 1)].next
    BY <2>1, <2>2
  <2>4. \A j \in 0 .. l - 1 : A(j) \in 1 .. n /\ (j # l - 1 => u.bin[A(j)].addr < u.bin[A(l - 1)].addr)
    BY <1>4, <2>3
  <2>5. A(l - 1) \in 1 .. n
    BY <2>1, <2>4
  <2>6. BinInRow(u, A(l - 1))
    BY <2>5 DEF InRow
  <2>7. /\ u.bin[A(l - 1)].addr \in Nat /\ u.bin[A(l - 1)].size \in Nat \ {0}
        /\ u.bin[A(l)].addr = u.bin[A(l - 1)].addr + u.bin[A(l - 1)].size
    BY <2>3, <2>6 DEF BinInRow
  <2>8. A(l) \in 1 .. n
    <3>1. A(l) \in 0 .. n
      BY <2>3, <2>5, HeadersInUse
    <3> QED BY <1>1, <3>1
  <2>9. \A b \in 1 .. n : u.bin[b].addr \in Nat
    BY DEF InRow, BinInRow
  <2> TAKE j \in 0 .. l
  <2>10. CASE j = l
    BY <2>8, <2>10
  <2>11. CASE j = l - 1
    BY <2>5, <2>7, <2>11
  <2>12. CASE j \in 0 .. l - 2
    <3>1. A(j) \in 1 .. n /\ u.bin[A(j)].addr < u.bin[A(l - 1)].addr
      BY <2>4, <2>12
    <3>2. u.bin[A(j)].addr \in Nat
      BY <2>9, <3>1
    <3> QED BY <2>7, <2>12, <3>1, <3>2
  <2> QED BY <2>10, <2>11, <2>12
<1>5. k \in S
  <2> HIDE DEF S
  <2>1. 0 .. k \subseteq S
    BY <1>3, <1>4, Upto
  <2> QED BY <2>1
<1> QED BY <1>5

\* It is not longer than the headers in use.
LEMMA RowEnds ==
    ASSUME NEW u, u \in HeapType(u.bin_next), InRow(u), NEW k \in Nat,
           After(u, u.bin_head, k) # 0
    PROVE  k + 1 <= u.bin_next
<1> DEFINE n == u.bin_next
           f == [j \in 0 .. k |-> After(u, u.bin_head, j)]
<1>1. n \in Nat
  BY HeadersInUse
<1>2. \A j \in 0 .. k : f[j] \in 1 .. n
  BY RowAscends
<1>3. ASSUME NEW i \in 0 .. k, NEW j \in 0 .. k, f[i] = f[j], i < j PROVE FALSE
  <2>1. j \in Nat /\ After(u, u.bin_head, j) # 0 /\ i \in 0 .. j /\ i # j
    BY <1>1, <1>2, <1>3
  <2>2. u.bin[After(u, u.bin_head, i)].addr < u.bin[After(u, u.bin_head, j)].addr
    BY <2>1, RowAscends
  <2>3. u.bin[f[j]].addr \in Nat /\ u.bin[f[i]].addr < u.bin[f[j]].addr
    BY <1>2, <2>2 DEF InRow, BinInRow
  <2> HIDE DEF f
  <2> QED BY <1>3, <2>3
<1>4. \A i, j \in 0 .. k : f[i] = f[j] => i = j
  <2> HIDE DEF f
  <2> QED BY <1>3
<1>5. f \in Injection(0 .. k, 1 .. n)
  <2>1. f \in [0 .. k -> 1 .. n]
    BY <1>2
  <2> HIDE DEF f
  <2> QED BY <1>4, <2>1 DEF Injection, IsInjective
<1>6. /\ IsFiniteSet(1 .. n) /\ Cardinality(1 .. n) = n
      /\ Cardinality(0 .. k) = k + 1
  <2>1. 0 \in Int /\ 1 \in Int /\ k \in Int /\ n \in Int /\ ~(0 > k) /\ k - 0 + 1 = k + 1
    BY <1>1
  <2>2. IsFiniteSet(1 .. n) /\ Cardinality(1 .. n) = IF 1 > n THEN 0 ELSE n - 1 + 1
    BY <2>1, FS_Interval
  <2>3. Cardinality(0 .. k) = k + 1
    BY <2>1, FS_Interval
  <2>4. n = IF 1 > n THEN 0 ELSE n - 1 + 1
    BY <1>1
  <2> QED BY <2>2, <2>3, <2>4
<1> HIDE DEF f
<1> QED BY <1>5, <1>6, FS_Injection

\* Every bin is met from bin_head.
LEMMA RowReached ==
    ASSUME NEW u, u \in HeapType(u.bin_next), InRow(u), NEW b \in 1 .. u.bin_next
    PROVE  \E k \in Chain(u, u.bin_head) : After(u, u.bin_head, k) = b
<1> DEFINE n == u.bin_next
           Met(c) == \E k \in Nat : After(u, u.bin_head, k) = c
           Bad == {a \in Nat : \E c \in 1 .. n : u.bin[c].addr = a /\ ~Met(c)}
<1>1. n \in 1 .. MAXBINS /\ n \in Nat /\ MAXBINS \in Nat
  BY HeadersInUse
<1>2. \A c \in 1 .. n : Met(c)
  <2> SUFFICES ASSUME NEW c0 \in 1 .. n, ~Met(c0) PROVE FALSE
    OBVIOUS
  <2>1. Bad # {}
    <3>1. u.bin[c0].addr \in Nat
      BY DEF InRow, BinInRow
    <3> QED BY <3>1
  <2>2. PICK a \in Bad : \A y \in Bad : a <= y
    <3>1. Bad \in SUBSET Nat
      OBVIOUS
    <3> HIDE DEF Bad
    <3> QED BY <2>1, <3>1, LeastNat
  <2>3. PICK c \in 1 .. n : u.bin[c].addr = a /\ ~Met(c)
    BY <2>2
  <2>4. c # u.bin_head
    <3>1. After(u, u.bin_head, 0) = u.bin_head
      BY AfterSteps
    <3> QED BY <2>3, <3>1
  <2> DEFINE p == u.bin[c].prev
  <2>5. p \in 1 .. n /\ u.bin[p].next = c
    <3>1. p \in 0 .. n
      BY <2>3, HeadersInUse
    <3>2. p # 0 /\ u.bin[p].next = c
      BY <2>3, <2>4 DEF InRow, BinInRow
    <3> HIDE DEF p
    <3> QED BY <1>1, <3>1, <3>2
  <2> HIDE DEF p
  <2>6. u.bin[p].addr \in Nat /\ u.bin[p].size \in Nat \ {0} /\ u.bin[c].addr = u.bin[p].addr + u.bin[p].size
    <3>1. c # 0
      BY <1>1, <2>3
    <3> QED BY <2>5, <3>1 DEF InRow, BinInRow
  <2>7. u.bin[p].addr \notin Bad
    BY <2>2, <2>3, <2>6
  <2>8. Met(p)
    <3> HIDE DEF Met
    <3> QED BY <2>5, <2>6, <2>7
  <2>9. PICK k \in Nat : After(u, u.bin_head, k) = p
    BY <2>8
  <2>10. After(u, u.bin_head, k + 1) = c
    <3>1. p # 0
      BY <1>1, <2>5
    <3> QED BY <2>5, <2>9, <3>1, AfterSteps
  <2>11. k + 1 \in Nat
    OBVIOUS
  <2> QED BY <2>3, <2>10, <2>11
<1>3. PICK k \in Nat : After(u, u.bin_head, k) = b
  BY <1>2
<1>4. After(u, u.bin_head, k) # 0
  BY <1>1, <1>3
<1>5. k + 1 <= n
  BY <1>4, RowEnds
<1>6. k \in 0 .. MAXBINS - 1
  BY <1>1, <1>5
<1> QED BY <1>3, <1>4, <1>6 DEF Chain

\* It ends, and does so at bin_tail.
LEMMA RowLast ==
    ASSUME NEW u, u \in HeapType(u.bin_next), InRow(u)
    PROVE  ~Endless(u, u.bin_head) /\ LastOf(u, u.bin_head) = u.bin_tail
<1> DEFINE n == u.bin_next
<1>1. n \in 1 .. MAXBINS /\ n \in Nat /\ MAXBINS \in Nat
  BY HeadersInUse
<1>2. ~Endless(u, u.bin_head)
  <2> SUFFICES ASSUME After(u, u.bin_head, MAXBINS) # 0 PROVE FALSE
    BY DEF Endless
  <2>1. MAXBINS + 1 <= n
    BY <1>1, RowEnds
  <2> QED BY <1>1, <2>1
<1>3. u.bin_tail \in 1 .. n
  BY DEF InRow
<1>4. PICK k \in Chain(u, u.bin_head) : After(u, u.bin_head, k) = u.bin_tail
  BY <1>3, RowReached
<1>5. k \in 0 .. MAXBINS - 1 /\ k \in Nat /\ After(u, u.bin_head, k) # 0
  BY <1>1, <1>4 DEF Chain
<1>6. After(u, u.bin_head, k + 1) = 0
  <2>1. u.bin[u.bin_tail].next = 0
    BY <1>3 DEF InRow, BinInRow
  <2>2. After(u, u.bin_head, k + 1) = IF After(u, u.bin_head, k) = 0 THEN 0
                                      ELSE u.bin[After(u, u.bin_head, k)].next
    BY <1>5, AfterSteps
  <2> QED BY <1>4, <2>1, <2>2
<1>7. Chain(u, u.bin_head) = 0 .. k
  <2>1. ASSUME NEW j \in Chain(u, u.bin_head) PROVE j \in 0 .. k
    <3>1. j \in Nat /\ After(u, u.bin_head, j) # 0
      BY <1>1 DEF Chain
    <3> SUFFICES ASSUME j > k PROVE FALSE
      BY <1>5, <3>1
    <3>2. k + 1 \in 0 .. j
      BY <1>5, <3>1
    <3>3. After(u, u.bin_head, k + 1) \in 1 .. n
      BY <3>1, <3>2, RowAscends
    <3> QED BY <1>1, <1>6, <3>3
  <2>2. ASSUME NEW j \in 0 .. k PROVE j \in Chain(u, u.bin_head)
    <3>1. After(u, u.bin_head, j) \in 1 .. n
      BY <1>5, RowAscends
    <3>2. j \in 0 .. MAXBINS - 1 /\ After(u, u.bin_head, j) # 0
      BY <1>1, <1>5, <3>1
    <3> QED BY <3>2 DEF Chain
  <2> QED BY <2>1, <2>2
<1>8. Cardinality(0 .. k) - 1 = k
  <2>1. Cardinality(0 .. k) = k + 1
    BY <1>5, FS_Interval
  <2> QED BY <1>5, <2>1
<1>9. LastOf(u, u.bin_head) = After(u, u.bin_head, k)
  BY <1>7, <1>8 DEF LastOf
<1> QED BY <1>2, <1>4, <1>9

\* v has the links, the addresses and the sizes of u.
SameRow(u, v) ==
    /\ v.bin_head = u.bin_head /\ v.bin_tail = u.bin_tail /\ v.bin_next = u.bin_next
    /\ v.ehead = u.ehead /\ v.fault = u.fault
    /\ \A c \in Header : c > u.bin_next => v.bin[c] = u.bin[c]
    /\ \A c \in 1 .. u.bin_next : /\ v.bin[c].next = u.bin[c].next /\ v.bin[c].prev = u.bin[c].prev
                                  /\ v.bin[c].addr = u.bin[c].addr /\ v.bin[c].size = u.bin[c].size

LEMMA SameRowKeeps ==
    ASSUME NEW u, u \in HeapType(u.bin_next), InRow(u), NEW v, SameRow(u, v)
    PROVE  InRow(v)
<1>1. u.bin_next \in Nat /\ 1 .. u.bin_next \subseteq Header
  BY HeadersInUse
<1>2. \A b \in 1 .. u.bin_next : BinInRow(v, b)
  <2> TAKE b \in 1 .. u.bin_next
  <2>1. BinInRow(u, b) /\ u.bin_tail \in 1 .. u.bin_next
    BY DEF InRow
  <2>2. u.bin[b].next \in 0 .. u.bin_next /\ u.bin[b].prev \in 0 .. u.bin_next
    BY <1>1, HeadersInUse
  <2>3. /\ u.bin[b].next # 0 => u.bin[b].next \in 1 .. u.bin_next
        /\ u.bin[b].prev # 0 => u.bin[b].prev \in 1 .. u.bin_next
    BY <1>1, <2>2
  <2>4. /\ v.bin_head = u.bin_head /\ v.bin_tail = u.bin_tail
        /\ \A c \in 1 .. u.bin_next : /\ v.bin[c].next = u.bin[c].next /\ v.bin[c].prev = u.bin[c].prev
                                      /\ v.bin[c].addr = u.bin[c].addr /\ v.bin[c].size = u.bin[c].size
    BY DEF SameRow
  <2>5. /\ v.bin[b].addr \in Nat /\ v.bin[b].size \in Nat \ {0}
        /\ (v.bin[b].next = 0) <=> (b = v.bin_tail)
        /\ (v.bin[b].prev = 0) <=> (b = v.bin_head)
        /\ v.bin[b].addr + v.bin[b].size <= v.bin[v.bin_tail].addr + v.bin[v.bin_tail].size
    BY <2>1, <2>4 DEF BinInRow
  <2>6. v.bin[b].next # 0 => /\ v.bin[v.bin[b].next].prev = b
                             /\ v.bin[v.bin[b].next].addr = v.bin[b].addr + v.bin[b].size
    BY <2>1, <2>3, <2>4 DEF BinInRow
  <2>7. v.bin[b].prev # 0 => v.bin[v.bin[b].prev].next = b
    BY <2>1, <2>3, <2>4 DEF BinInRow
  <2> QED BY <2>5, <2>6, <2>7 DEF BinInRow
<1>3. \A b, c \in 1 .. u.bin_next : b # c => Disjoint(v.bin[b], v.bin[c])
  BY DEF InRow, SameRow, Disjoint
<1> QED BY <1>2, <1>3 DEF InRow, SameRow

\* A last bin that grows stays the last.
LEMMA GrowKeepsRow ==
    ASSUME NEW u, u \in HeapType(u.bin_next), InRow(u), NEW v, SameRest(u, v),
           SameBut(u, v, u.bin_tail),
           v.bin[u.bin_tail].next = u.bin[u.bin_tail].next,
           v.bin[u.bin_tail].prev = u.bin[u.bin_tail].prev,
           v.bin[u.bin_tail].addr = u.bin[u.bin_tail].addr,
           v.bin[u.bin_tail].size \in Nat,
           u.bin[u.bin_tail].size <= v.bin[u.bin_tail].size
    PROVE  InRow(v)
<1> DEFINE n == u.bin_next
           t == u.bin_tail
<1>1. n \in Nat /\ 1 .. n \subseteq Header /\ t \in 1 .. n
  BY HeadersInUse DEF InRow
<1>2. \A b \in 1 .. n : /\ v.bin[b].next = u.bin[b].next /\ v.bin[b].prev = u.bin[b].prev
                        /\ v.bin[b].addr = u.bin[b].addr
                        /\ b # t => v.bin[b].size = u.bin[b].size
  <2> TAKE b \in 1 .. n
  <2>1. CASE b = t
    BY <2>1
  <2>2. CASE b # t
    <3>1. v.bin[b] = u.bin[b]
      BY <1>1, <2>2 DEF SameBut
    <3> QED BY <2>2, <3>1
  <2> QED BY <2>1, <2>2
<1>3. \A b \in 1 .. n : /\ u.bin[b].addr \in Nat /\ u.bin[b].size \in Nat \ {0}
                        /\ u.bin[b].addr + u.bin[b].size <= u.bin[t].addr + u.bin[t].size
  BY DEF InRow, BinInRow
<1>4. \A b \in 1 .. n : BinInRow(v, b)
  <2> TAKE b \in 1 .. n
  <2>1. BinInRow(u, b)
    BY DEF InRow
  <2>2. u.bin[b].next \in 0 .. n /\ u.bin[b].prev \in 0 .. n
    BY <1>1, HeadersInUse
  <2>3. /\ u.bin[b].next # 0 => u.bin[b].next \in 1 .. n
        /\ u.bin[b].prev # 0 => u.bin[b].prev \in 1 .. n
    BY <1>1, <2>2
  <2>4. v.bin_tail = t /\ v.bin_head = u.bin_head
    BY DEF SameRest
  <2>5. v.bin[b].addr \in Nat /\ v.bin[b].size \in Nat \ {0}
    BY <1>1, <1>2, <1>3
  <2>6. v.bin[b].addr + v.bin[b].size <= v.bin[t].addr + v.bin[t].size
    BY <1>1, <1>2, <1>3
  <2>7. /\ (v.bin[b].next = 0) <=> (b = v.bin_tail)
        /\ (v.bin[b].prev = 0) <=> (b = v.bin_head)
        /\ v.bin[b].prev # 0 => v.bin[v.bin[b].prev].next = b
    BY <1>2, <2>1, <2>3, <2>4 DEF BinInRow
  <2>8. v.bin[b].next # 0 => /\ v.bin[v.bin[b].next].prev = b
                             /\ v.bin[v.bin[b].next].addr = v.bin[b].addr + v.bin[b].size
    <3>1. v.bin[b].next # 0 => b # t
      BY <1>2, <2>1 DEF BinInRow
    <3> QED BY <1>2, <2>1, <2>3, <3>1 DEF BinInRow
  <2> QED BY <2>4, <2>5, <2>6, <2>7, <2>8 DEF BinInRow
<1>5. \A b, c \in 1 .. n : b # c => Disjoint(v.bin[b], v.bin[c])
  <2>1. ASSUME NEW b \in 1 .. n, b # t PROVE v.bin[b].addr + v.bin[b].size <= v.bin[t].addr
    <3>1. Disjoint(u.bin[b], u.bin[t])
      BY <1>1, <2>1 DEF InRow
    <3> QED BY <1>1, <1>2, <1>3, <2>1, <3>1 DEF Disjoint
  <2> TAKE b, c \in 1 .. n
  <2>2. CASE b = t \/ c = t
    BY <2>1, <2>2 DEF Disjoint
  <2>3. CASE b # t /\ c # t
    <3>1. b # c => Disjoint(u.bin[b], u.bin[c])
      BY DEF InRow
    <3> QED BY <1>2, <2>3, <3>1 DEF Disjoint
  <2> QED BY <2>2, <2>3
<1>6. \A b \in Header : b > n => v.bin[b] = Zero
  <2> TAKE b \in Header
  <2>1. b > n => b # t
    BY <1>1
  <2> QED BY <2>1 DEF InRow, SameBut
<1> QED BY <1>4, <1>5, <1>6 DEF InRow, SameRest

\* A header is put into the row after b, with what b gives up of its bytes or,
\* after the last bin, with new ones.
Insertion(u, v, b, z, y) ==
    LET new == u.bin_next + 1
        q   == u.bin[b].next
    IN
    /\ v.bin_head = u.bin_head /\ v.bin_tail = (IF u.bin_tail = b THEN new ELSE u.bin_tail)
    /\ v.bin_next = new /\ v.ehead = 0 /\ v.fault = "no"
    /\ v.bin[new].prev = b /\ v.bin[new].next = q
    /\ v.bin[new].addr = u.bin[b].addr + z /\ v.bin[new].size = y
    /\ v.bin[b].next = new /\ v.bin[b].prev = u.bin[b].prev
    /\ v.bin[b].addr = u.bin[b].addr /\ v.bin[b].size = z
    /\ q # 0 => /\ v.bin[q].prev = new /\ v.bin[q].next = u.bin[q].next
                /\ v.bin[q].addr = u.bin[q].addr /\ v.bin[q].size = u.bin[q].size
                /\ v.bin[q].taken = u.bin[q].taken
    /\ \A c \in Header : c \notin {new, b, q} => v.bin[c] = u.bin[c]

LEMMA InsertKeepsRow ==
    ASSUME NEW u, u \in HeapType(u.bin_next), InRow(u), u.bin_next < MAXBINS,
           NEW b \in 1 .. u.bin_next, NEW z \in Nat \ {0}, NEW y \in Nat \ {0},
           NEW v, Insertion(u, v, b, z, y),
           \/ z + y = u.bin[b].size
           \/ z = u.bin[b].size /\ b = u.bin_tail
    PROVE  InRow(v)
<1> DEFINE n == u.bin_next
           new == n + 1
           q == u.bin[b].next
           t == u.bin_tail
<1>1. n \in Nat /\ 1 .. n \subseteq Header /\ t \in 1 .. n /\ u.bin_head \in 1 .. n /\ new \in Header /\ n \in 1 .. MAXBINS
  BY HeadersInUse DEF InRow, Header
<1>2. \A c \in 1 .. n : /\ u.bin[c].addr \in Nat /\ u.bin[c].size \in Nat \ {0}
                        /\ u.bin[c].addr + u.bin[c].size <= u.bin[t].addr + u.bin[t].size
                        /\ u.bin[c].next \in 0 .. n /\ u.bin[c].prev \in 0 .. n
                        /\ BinInRow(u, c)
  BY <1>1, HeadersInUse DEF InRow, BinInRow
<1>3. q \in 0 .. n /\ q # b /\ q # new /\ b # new /\ (q # 0 => q \in 1 .. n /\ u.bin[q].prev = b)
  <2>1. q \in 0 .. n
    BY <1>2
  <2>2. q # 0 => u.bin[q].prev = b /\ u.bin[q].addr = u.bin[b].addr + u.bin[b].size
    BY <1>2 DEF BinInRow
  <2> HIDE DEF q
  <2> QED BY <1>1, <1>2, <2>1, <2>2
<1> HIDE DEF q
<1>4. \A c \in 1 .. n : c # b /\ c # q => v.bin[c] = u.bin[c]
  BY <1>1 DEF Insertion, q
<1>5. \A c \in 1 .. n : /\ v.bin[c].addr = u.bin[c].addr
                        /\ c # b => v.bin[c].size = u.bin[c].size /\ v.bin[c].next = u.bin[c].next
                        /\ c # q => v.bin[c].prev = u.bin[c].prev
  <2> TAKE c \in 1 .. n
  <2>1. CASE c = b
    BY <2>1 DEF Insertion
  <2>2. CASE c = q
    BY <1>1, <1>3, <2>2 DEF Insertion, q
  <2>3. CASE c # b /\ c # q
    BY <1>4, <2>3
  <2> QED BY <2>1, <2>2, <2>3
<1>6. /\ v.bin[b].next = new /\ v.bin[b].size = z
      /\ v.bin[new].prev = b /\ v.bin[new].next = q
      /\ v.bin[new].addr = u.bin[b].addr + z /\ v.bin[new].size = y
      /\ q # 0 => v.bin[q].prev = new
      /\ v.bin_tail = (IF t = b THEN new ELSE t) /\ v.bin_head = u.bin_head
  BY DEF Insertion, q
<1>7. z <= u.bin[b].size /\ (t # b => z + y = u.bin[b].size)
  BY <1>2
<1>8. /\ \A c \in 1 .. n : v.bin[c].addr + v.bin[c].size <= v.bin[v.bin_tail].addr + v.bin[v.bin_tail].size
      /\ v.bin[new].addr + v.bin[new].size <= v.bin[v.bin_tail].addr + v.bin[v.bin_tail].size
  <2>1. CASE t = b
    <3>1. v.bin[v.bin_tail].addr = u.bin[b].addr + z /\ v.bin[v.bin_tail].size = y
      BY <1>6, <2>1
    <3>2. u.bin[t].addr + u.bin[t].size <= (u.bin[b].addr + z) + y
      BY <1>2, <2>1
    <3>3. \A c \in 1 .. n : v.bin[c].addr + v.bin[c].size <= u.bin[t].addr + u.bin[t].size
      <4> TAKE c \in 1 .. n
      <4>1. CASE c = b
        BY <1>1, <1>2, <1>5, <1>6, <1>7, <2>1, <4>1
      <4>2. CASE c # b
        BY <1>2, <1>5, <4>2
      <4> QED BY <4>1, <4>2
    <3>4. \A c \in 1 .. n : v.bin[c].addr \in Nat /\ v.bin[c].size \in Nat
      BY <1>2, <1>5, <1>6
    <3>5. u.bin[t].addr + u.bin[t].size \in Nat /\ (u.bin[b].addr + z) + y \in Nat
      BY <1>1, <1>2
    <3>6. \A c \in 1 .. n : v.bin[c].addr + v.bin[c].size <= (u.bin[b].addr + z) + y
      BY <3>2, <3>3, <3>4, <3>5
    <3> QED BY <1>6, <3>1, <3>5, <3>6
  <2>2. CASE t # b
    <3>1. v.bin[v.bin_tail].addr = u.bin[t].addr /\ v.bin[v.bin_tail].size = u.bin[t].size
      BY <1>1, <1>5, <1>6, <2>2
    <3>2. \A c \in 1 .. n : v.bin[c].addr + v.bin[c].size <= u.bin[t].addr + u.bin[t].size
      <4> TAKE c \in 1 .. n
      <4>1. CASE c = b
        BY <1>1, <1>2, <1>5, <1>6, <1>7, <4>1
      <4>2. CASE c # b
        BY <1>2, <1>5, <4>2
      <4> QED BY <4>1, <4>2
    <3>3. v.bin[new].addr + v.bin[new].size <= u.bin[t].addr + u.bin[t].size
      BY <1>1, <1>2, <1>6, <1>7, <2>2
    <3> QED BY <3>1, <3>2, <3>3
  <2> QED BY <2>1, <2>2
<1>9. BinInRow(v, new)
  <2>1. (q = 0) <=> (b = t)
    BY <1>2 DEF BinInRow, q
  <2>2. (q = 0) <=> (new = v.bin_tail)
    BY <1>1, <1>6, <2>1
  <2>3. b # 0 /\ new # v.bin_head
    BY <1>1, <1>6
  <2>4. q # 0 => v.bin[q].addr = v.bin[new].addr + v.bin[new].size
    <3>1. q # 0 => u.bin[q].addr = u.bin[b].addr + u.bin[b].size /\ q \in 1 .. n
      BY <1>2, <1>3 DEF BinInRow, q
    <3> QED BY <1>2, <1>5, <1>6, <1>7, <2>1, <3>1
  <2>5. v.bin[new].addr \in Nat /\ v.bin[new].size \in Nat \ {0}
    BY <1>2, <1>6
  <2> QED BY <1>6, <1>8, <2>2, <2>3, <2>4, <2>5 DEF BinInRow
<1>10. BinInRow(v, b)
  <2>1. v.bin[b].addr \in Nat /\ v.bin[b].size \in Nat \ {0}
    BY <1>2, <1>5, <1>6
  <2>2. new # 0 /\ b # v.bin_tail
    BY <1>1, <1>3, <1>6
  <2>3. v.bin[b].prev = u.bin[b].prev
    BY <1>3, <1>5
  <2>4. (u.bin[b].prev = 0) <=> (b = u.bin_head)
    BY <1>2 DEF BinInRow
  <2>5. u.bin[b].prev # 0 => v.bin[u.bin[b].prev].next = b
    <3> SUFFICES ASSUME u.bin[b].prev # 0 PROVE v.bin[u.bin[b].prev].next = b
      OBVIOUS
    <3>1. u.bin[b].prev \in 1 .. n /\ u.bin[u.bin[b].prev].next = b
      <4>1. u.bin[b].prev \in 0 .. n
        BY <1>2
      <4>2. u.bin[u.bin[b].prev].next = b
        BY <1>2 DEF BinInRow
      <4> QED BY <1>1, <4>1, <4>2
    <3>2. u.bin[b].prev # b
      BY <1>3, <3>1 DEF q
    <3> QED BY <1>5, <3>1, <3>2
  <2>6. v.bin[new].addr = v.bin[b].addr + v.bin[b].size
    BY <1>5, <1>6
  <2> QED BY <1>6, <1>8, <2>1, <2>2, <2>3, <2>4, <2>5, <2>6 DEF BinInRow
<1>11. ASSUME NEW c \in 1 .. n, c # b PROVE BinInRow(v, c)
  <2>1. BinInRow(u, c)
    BY <1>2
  <2>2. v.bin[c].addr \in Nat /\ v.bin[c].size \in Nat \ {0}
    BY <1>2, <1>5, <1>11
  <2>3. (v.bin[c].next = 0) <=> (c = v.bin_tail)
    <3>1. v.bin[c].next = u.bin[c].next /\ c # new
      BY <1>1, <1>5, <1>11
    <3> QED BY <1>6, <1>11, <2>1, <3>1 DEF BinInRow
  <2>4. (v.bin[c].prev = 0) <=> (c = v.bin_head)
    <3>1. CASE c = q
      <4>1. c # 0 /\ u.bin[c].prev = b /\ b # 0 /\ v.bin[c].prev = new /\ new # 0
        BY <1>1, <1>3, <1>6, <3>1
      <4> QED BY <1>6, <2>1, <4>1 DEF BinInRow
    <3>2. CASE c # q
      BY <1>5, <1>6, <2>1, <3>2 DEF BinInRow
    <3> QED BY <3>1, <3>2
  <2>5. v.bin[c].next # 0 => /\ v.bin[v.bin[c].next].prev = c
                             /\ v.bin[v.bin[c].next].addr = v.bin[c].addr + v.bin[c].size
    <3> SUFFICES ASSUME v.bin[c].next # 0
                 PROVE  /\ v.bin[v.bin[c].next].prev = c
                        /\ v.bin[v.bin[c].next].addr = v.bin[c].addr + v.bin[c].size
      OBVIOUS
    <3> DEFINE d == u.bin[c].next
    <3>1. v.bin[c].next = d /\ d \in 0 .. n /\ d # 0
      BY <1>2, <1>5, <1>11
    <3>2. u.bin[d].prev = c /\ u.bin[d].addr = u.bin[c].addr + u.bin[c].size
      BY <2>1, <3>1 DEF BinInRow
    <3> HIDE DEF d
    <3>3. d \in 1 .. n
      BY <1>1, <3>1
    <3>4. d # q
      BY <1>3, <1>11, <3>1, <3>2
    <3> QED BY <1>5, <1>11, <3>1, <3>2, <3>3, <3>4
  <2>6. v.bin[c].prev # 0 => v.bin[v.bin[c].prev].next = c
    <3>1. CASE c = q
      <4>1. v.bin[c].prev = new /\ v.bin[new].next = q
        BY <1>1, <1>6, <3>1
      <4> QED BY <3>1, <4>1
    <3>2. CASE c # q
      <4> SUFFICES ASSUME v.bin[c].prev # 0 PROVE v.bin[v.bin[c].prev].next = c
        OBVIOUS
      <4> DEFINE d == u.bin[c].prev
      <4>1. v.bin[c].prev = d /\ d \in 0 .. n /\ d # 0
        BY <1>2, <1>5, <3>2
      <4>2. u.bin[d].next = c
        BY <2>1, <4>1 DEF BinInRow
      <4> HIDE DEF d
      <4>3. d \in 1 .. n /\ d # b
        BY <1>1, <3>2, <4>1, <4>2 DEF q
      <4> QED BY <1>5, <4>1, <4>2, <4>3
    <3> QED BY <3>1, <3>2
  <2>7. v.bin[c].addr + v.bin[c].size <= v.bin[v.bin_tail].addr + v.bin[v.bin_tail].size
    BY <1>8
  <2> QED BY <2>2, <2>3, <2>4, <2>5, <2>6, <2>7 DEF BinInRow
<1>12. \A c, d \in 1 .. n : c # d => Disjoint(v.bin[c], v.bin[d])
  <2> TAKE c, d \in 1 .. n
  <2> HAVE c # d
  <2>1. Disjoint(u.bin[c], u.bin[d])
    BY DEF InRow
  <2>2. \A e \in 1 .. n : v.bin[e].size \in Nat /\ v.bin[e].size <= u.bin[e].size
    <3> TAKE e \in 1 .. n
    <3>1. CASE e = b
      BY <1>6, <1>7, <3>1
    <3>2. CASE e # b
      BY <1>2, <1>5, <3>2
    <3> QED BY <3>1, <3>2
  <2> QED BY <1>2, <1>5, <2>1, <2>2 DEF Disjoint
<1>13. ASSUME NEW c \in 1 .. n PROVE Disjoint(v.bin[new], v.bin[c]) /\ Disjoint(v.bin[c], v.bin[new])
  <2>1. CASE c = b
    BY <1>2, <1>5, <1>6, <2>1 DEF Disjoint
  <2>2. CASE c # b
    <3>1. Disjoint(u.bin[c], u.bin[b])
      BY <2>2 DEF InRow
    <3>2. v.bin[c].addr = u.bin[c].addr /\ v.bin[c].size = u.bin[c].size
      BY <1>5, <2>2
    <3>3. CASE z + y = u.bin[b].size
      BY <1>2, <1>6, <3>1, <3>2, <3>3 DEF Disjoint
    <3>4. CASE z = u.bin[b].size /\ b = u.bin_tail
      BY <1>2, <1>6, <3>2, <3>4 DEF Disjoint
    <3> QED BY <3>3, <3>4
  <2> QED BY <2>1, <2>2
<1>14. v.bin_next = new /\ v.ehead = 0 /\ v.fault = "no"
  BY DEF Insertion
<1>15. v.bin_head \in 1 .. new /\ v.bin_tail \in 1 .. new
  BY <1>1, <1>6
<1>16. \A c \in Header : c > new => v.bin[c] = Zero
  <2> TAKE c \in Header
  <2> HAVE c > new
  <2>1. c \notin {new, b, q} /\ c > n
    BY <1>1, <1>3 DEF Header
  <2> QED BY <2>1 DEF Insertion, InRow, q
<1>17. \A c \in 1 .. new : c \in 1 .. n \/ c = new
  BY <1>1
<1>18. \A c \in 1 .. new : BinInRow(v, c)
  BY <1>9, <1>10, <1>11, <1>17
<1>19. \A c, d \in 1 .. new : c # d => Disjoint(v.bin[c], v.bin[d])
  BY <1>12, <1>13, <1>17
<1> HIDE DEF new
<1> QED BY <1>14, <1>15, <1>16, <1>18, <1>19 DEF InRow

LEMMA SplitEffect ==
    ASSUME NEW u, u \in HeapType(u.bin_next), u.ehead # 0 \/ u.bin_next < MAXBINS,
           NEW b \in 1 .. u.bin_next, NEW s \in Nat \ {0}
    PROVE  LET v == split_bin(u, b, s) IN
           /\ v \in HeapType(v.bin_next) /\ u.bin_next <= v.bin_next
           /\ u.bin[b].size = s => v = u
           /\ InRow(u) /\ u.bin[b].size > s => Insertion(u, v, b, s, u.bin[b].size - s)
<1> DEFINE size == u.bin[b].size - s
           addr == u.bin[b].addr + s
           w == add_bin(u, b, addr, size)
           x == [w EXCEPT !.bin[b].size = s]
           v == [x EXCEPT !.bin[b].taken = FALSE]
<1>1. CASE u.bin[b].size = s
  <2>1. split_bin(u, b, s) = u
    BY <1>1 DEF split_bin
  <2>2. u.bin_next \in Nat /\ u.bin[b].size \in Int
    BY HeadersInUse
  <2> QED BY <1>1, <2>1, <2>2
<1>2. CASE u.bin[b].size # s
  <2>1. split_bin(u, b, s) = v
    BY <1>2 DEF split_bin
  <2>2. /\ b \in Header /\ u.bin_next \in Nat /\ size \in Int /\ addr \in Int
        /\ s \in Int
    <3>1. b \in Header /\ u.bin_next \in Nat
      BY HeadersInUse
    <3>2. u.bin[b].size \in Int /\ u.bin[b].addr \in Int
      BY <3>1, HeadersInUse
    <3> QED BY <3>1, <3>2
  <2> HIDE DEF size, addr
  <2> DEFINE q == u.bin[b].next
  <2>0. Added(u, w, b, addr, size)
    BY <2>2, AddBinEffect
  <2> HIDE DEF q, w
  <2>3. w \in HeapType(w.bin_next) /\ w.bin_next = Grown(u)
    BY <2>0 DEF Added
  <2>4. u.bin_next <= Grown(u)
    BY <2>2 DEF Grown
  <2>5. /\ x \in HeapType(w.bin_next) /\ SameRest(w, x) /\ SameBut(w, x, b) /\ x.bin[b].size = s
        /\ x.bin[b].next = w.bin[b].next /\ x.bin[b].prev = w.bin[b].prev /\ x.bin[b].addr = w.bin[b].addr
    BY <2>2, <2>3, PutSize
  <2> HIDE DEF x
  <2>6. /\ v \in HeapType(w.bin_next) /\ SameRest(x, v) /\ SameBut(x, v, b)
        /\ v.bin[b].size = x.bin[b].size
        /\ v.bin[b].next = x.bin[b].next /\ v.bin[b].prev = x.bin[b].prev /\ v.bin[b].addr = x.bin[b].addr
    <3> DEFINE k == w.bin_next
    <3>1. x \in HeapType(k)
      BY <2>5
    <3> HIDE DEF k
    <3>2. LET y == [x EXCEPT !.bin[b].taken = FALSE] IN
          /\ y \in HeapType(k) /\ SameRest(x, y) /\ SameBut(x, y, b)
          /\ y.bin[b].taken = FALSE
          /\ y.bin[b].next = x.bin[b].next /\ y.bin[b].prev = x.bin[b].prev
          /\ y.bin[b].addr = x.bin[b].addr /\ y.bin[b].size = x.bin[b].size
      BY <2>2, <3>1, PutFree
    <3> QED BY <3>2 DEF k
  <2> HIDE DEF v
  <2>7. ASSUME InRow(u), u.bin[b].size > s PROVE Insertion(u, v, b, s, size)
    <3> DEFINE new == u.bin_next + 1
    <3>1. u.ehead = 0 /\ u.fault = "no" /\ FreeHeader(u) = new /\ Grown(u) = new /\ new # b
      BY <2>2, <2>7 DEF InRow, FreeHeader, Grown
    <3>2. q # b /\ q # new /\ (q # 0 => q \in Header)
      <4>1. q \in 0 .. u.bin_next /\ 1 .. u.bin_next \subseteq Header
        BY <2>2, HeadersInUse DEF q
      <4>2. BinInRow(u, b)
        BY <2>7 DEF InRow
      <4>3. u.bin[b].addr \in Nat /\ u.bin[b].size \in Nat \ {0}
            /\ (q # 0 => u.bin[q].addr = u.bin[b].addr + u.bin[b].size)
        BY <4>2 DEF BinInRow, q
      <4>6. q # 0 => u.bin[b].addr < u.bin[q].addr
        BY <4>3
      <4>4. b # 0
        BY <2>2
      <4>5. q # b
        BY <4>3, <4>4, <4>6
      <4> QED BY <2>2, <4>1, <4>5
    <3>3. new \in Header
      BY <2>2, <3>1, FreeType
    <3>4. /\ w.bin_head = u.bin_head /\ w.ehead = 0
          /\ w.bin_tail = (IF u.bin_tail = b THEN new ELSE u.bin_tail)
          /\ w.fault = "no" /\ w.bin_next = new
          /\ w.bin[new].prev = b /\ w.bin[new].next = q
          /\ w.bin[new].addr = addr /\ w.bin[new].size = size
          /\ w.bin[b].next = new /\ w.bin[b].prev = u.bin[b].prev
          /\ w.bin[b].addr = u.bin[b].addr
          /\ q # 0 => /\ w.bin[q].prev = new /\ w.bin[q].next = u.bin[q].next
                      /\ w.bin[q].addr = u.bin[q].addr /\ w.bin[q].size = u.bin[q].size
                      /\ w.bin[q].taken = u.bin[q].taken
          /\ \A c \in Header : c \notin {new, b, q} => w.bin[c] = u.bin[c]
      BY <2>0, <3>1, <3>2 DEF Added, q
    <3> HIDE DEF new
    <3>5. \A c \in Header : c # b => v.bin[c] = w.bin[c]
      BY <2>5, <2>6 DEF SameBut
    <3>6. /\ v.bin_head = w.bin_head /\ v.bin_tail = w.bin_tail /\ v.bin_next = w.bin_next
          /\ v.ehead = w.ehead /\ v.fault = w.fault
      BY <2>5, <2>6 DEF SameRest
    <3>7. v.bin[new] = w.bin[new] /\ (q # 0 => v.bin[q] = w.bin[q])
      BY <3>1, <3>2, <3>3, <3>5
    <3>8. \A c \in Header : c \notin {new, b, q} => v.bin[c] = u.bin[c]
      BY <3>4, <3>5
    <3> QED BY <2>5, <2>6, <3>4, <3>6, <3>7, <3>8 DEF Insertion, new, q, addr
  <2> QED BY <1>2, <2>1, <2>3, <2>4, <2>5, <2>6, <2>7 DEF SameRest, size
<1> QED BY <1>1, <1>2

\* Marking a bin as taken.
LEMMA TakeEffect ==
    ASSUME NEW u, u \in HeapType(u.bin_next), NEW b \in 1 .. u.bin_next
    PROVE  LET v == [u EXCEPT !.bin[b].taken = TRUE] IN
           /\ v \in HeapType(v.bin_next) /\ v.bin_next = u.bin_next
           /\ SameBut(u, v, b) /\ v.bin[b].taken
           /\ v.bin[b].addr = u.bin[b].addr /\ v.bin[b].size = u.bin[b].size
           /\ InRow(u) => InRow(v)
<1> DEFINE v == [u EXCEPT !.bin[b].taken = TRUE]
           n == u.bin_next
<1>1. b \in Header /\ n \in Nat /\ 1 .. n \subseteq Header /\ u \in HeapType(n)
  BY HeadersInUse
<1> HIDE DEF n
<1>2. /\ v \in HeapType(n) /\ SameRest(u, v) /\ SameBut(u, v, b)
      /\ v.bin[b].taken = TRUE
      /\ v.bin[b].next = u.bin[b].next /\ v.bin[b].prev = u.bin[b].prev
      /\ v.bin[b].addr = u.bin[b].addr /\ v.bin[b].size = u.bin[b].size
  BY <1>1, PutTaken
<1> HIDE DEF v
<1>3. v.bin_next = n
  BY <1>2 DEF SameRest, n
<1>4. InRow(u) => InRow(v)
  <2>1. \A c \in Header : c > n => v.bin[c] = u.bin[c]
    BY <1>1, <1>2 DEF SameBut, n
  <2>2. \A c \in 1 .. n : /\ v.bin[c].next = u.bin[c].next /\ v.bin[c].prev = u.bin[c].prev
                          /\ v.bin[c].addr = u.bin[c].addr /\ v.bin[c].size = u.bin[c].size
    BY <1>1, <1>2 DEF SameBut
  <2>3. SameRow(u, v)
    BY <1>2, <2>1, <2>2 DEF SameRow, SameRest, n
  <2> QED BY <2>3, SameRowKeeps
<1> QED BY <1>2, <1>3, <1>4 DEF v, n

\* m is a heap and an address to which malloc gives s bytes in a heap u whose bins
\* are in a row: the row stays, and the bin, which was not taken, is large enough.
Given(u, m, s) ==
    /\ InRow(m.heap) /\ u.bin_next <= m.heap.bin_next
    /\ \E b \in 1 .. m.heap.bin_next :
          /\ m.heap.bin[b].taken /\ m.heap.bin[b].addr = m.addr /\ s <= m.heap.bin[b].size
          /\ b \in 1 .. u.bin_next => ~u.bin[b].taken
          /\ \A c \in 1 .. u.bin_next :
                u.bin[c].taken => /\ m.heap.bin[c].taken /\ m.heap.bin[c].addr = u.bin[c].addr
                                  /\ m.heap.bin[c].size = u.bin[c].size

\* malloc in a bin that fits.
LEMMA FitEffect ==
    ASSUME NEW u, u \in HeapType(u.bin_next), u.ehead # 0 \/ u.bin_next < MAXBINS,
           NEW s \in Nat \ {0}, NEW b \in 1 .. u.bin_next,
           ~u.bin[b].taken, u.bin[b].size >= s
    PROVE  LET done == [split_bin(u, b, s) EXCEPT !.bin[b].taken = TRUE] IN
           /\ done \in HeapType(done.bin_next)
           /\ InRow(u) => Given(u, [heap |-> done, addr |-> done.bin[b].addr], s)
<1> DEFINE n == u.bin_next
           v == split_bin(u, b, s)
           done == [v EXCEPT !.bin[b].taken = TRUE]
<1>1. n \in Nat /\ 1 .. n \subseteq Header /\ u.bin[b].size \in Int /\ b \in Header
  BY HeadersInUse
<1>2. /\ v \in HeapType(v.bin_next) /\ n <= v.bin_next
      /\ u.bin[b].size = s => v = u
      /\ InRow(u) /\ u.bin[b].size > s => Insertion(u, v, b, s, u.bin[b].size - s)
  BY SplitEffect
<1> HIDE DEF v
<1>3. v.bin_next \in Nat
  BY <1>2, HeadersInUse
<1>4. b \in 1 .. v.bin_next
  BY <1>1, <1>2, <1>3
<1>5. /\ done \in HeapType(done.bin_next) /\ done.bin_next = v.bin_next
      /\ SameBut(v, done, b) /\ done.bin[b].taken
      /\ done.bin[b].addr = v.bin[b].addr /\ done.bin[b].size = v.bin[b].size
      /\ InRow(v) => InRow(done)
  BY <1>2, <1>4, TakeEffect
<1> HIDE DEF done
<1>6. ASSUME InRow(u)
      PROVE  /\ InRow(v) /\ v.bin[b].size = s
             /\ \A c \in 1 .. n : c # b => /\ v.bin[c].taken = u.bin[c].taken
                                           /\ v.bin[c].addr = u.bin[c].addr
                                           /\ v.bin[c].size = u.bin[c].size
  <2>1. CASE u.bin[b].size = s
    BY <1>2, <1>6, <2>1
  <2>2. CASE u.bin[b].size > s
    <3> DEFINE y == u.bin[b].size - s
    <3>1. y \in Nat \ {0} /\ s + y = u.bin[b].size
      BY <1>1, <2>2
    <3>2. Insertion(u, v, b, s, y)
      BY <1>2, <1>6, <2>2
    <3> HIDE DEF y
    <3>3. n < MAXBINS
      BY <1>6 DEF InRow
    <3>4. InRow(v)
      BY <1>6, <3>1, <3>2, <3>3, InsertKeepsRow
    <3>5. v.bin[b].size = s
      BY <3>2 DEF Insertion
    <3>6. ASSUME NEW c \in 1 .. n, c # b
          PROVE  /\ v.bin[c].taken = u.bin[c].taken /\ v.bin[c].addr = u.bin[c].addr
                 /\ v.bin[c].size = u.bin[c].size
      <4>1. c \in Header /\ c # n + 1 /\ c # 0
        BY <1>1
      <4>2. CASE c = u.bin[b].next
        BY <3>2, <4>1, <4>2 DEF Insertion
      <4>3. CASE c # u.bin[b].next
        <5>1. v.bin[c] = u.bin[c]
          BY <3>2, <3>6, <4>1, <4>3 DEF Insertion
        <5> QED BY <5>1
      <4> QED BY <4>2, <4>3
    <3> QED BY <3>4, <3>5, <3>6
  <2> QED BY <1>1, <2>1, <2>2
<1>7. ASSUME InRow(u) PROVE Given(u, [heap |-> done, addr |-> done.bin[b].addr], s)
  <2>1. InRow(done) /\ n <= done.bin_next
    BY <1>2, <1>5, <1>6, <1>7
  <2>2. done.bin[b].size = s /\ s <= s
    BY <1>5, <1>6, <1>7
  <2>3. ASSUME NEW c \in 1 .. n, u.bin[c].taken
        PROVE  /\ done.bin[c].taken /\ done.bin[c].addr = u.bin[c].addr
               /\ done.bin[c].size = u.bin[c].size
    <3>1. c # b /\ c \in Header
      BY <1>1, <2>3
    <3>2. done.bin[c] = v.bin[c]
      BY <1>5, <3>1 DEF SameBut
    <3> QED BY <1>6, <1>7, <2>3, <3>1, <3>2
  <2>4. b \in 1 .. done.bin_next
    BY <1>4, <1>5
  <2> QED BY <1>5, <2>1, <2>2, <2>3, <2>4 DEF Given
<1> QED BY <1>5, <1>7 DEF done, v

\* malloc in a new bin after the last, which is taken.
LEMMA AppendEffect ==
    ASSUME NEW u, u \in HeapType(u.bin_next), u.ehead # 0 \/ u.bin_next < MAXBINS,
           NEW s \in Nat \ {0}, u.bin_tail # 0, u.bin[u.bin_tail].taken
    PROVE  LET end  == u.bin[u.bin_tail].addr + u.bin[u.bin_tail].size
               b    == FreeHeader(u)
               done == [split_bin(add_bin(u, u.bin_tail, end, s), b, s) EXCEPT !.bin[b].taken = TRUE] IN
           /\ done \in HeapType(done.bin_next)
           /\ InRow(u) => Given(u, [heap |-> done, addr |-> done.bin[b].addr], s)
<1> DEFINE n == u.bin_next
           t == u.bin_tail
           end == u.bin[t].addr + u.bin[t].size
           b == FreeHeader(u)
           v == add_bin(u, t, end, s)
           done == [v EXCEPT !.bin[b].taken = TRUE]
<1>1. n \in Nat /\ 1 .. n \subseteq Header /\ t \in 1 .. n /\ end \in Int /\ s \in Int /\ t \in Header
  <2>1. t \in 0 .. n /\ n \in Nat /\ 1 .. n \subseteq Header
    BY HeadersInUse DEF HeapType
  <2>2. t \in 1 .. n /\ t \in Header
    BY <2>1
  <2>3. u.bin[t].addr \in Int /\ u.bin[t].size \in Int
    BY <2>2, HeadersInUse
  <2> QED BY <2>1, <2>2, <2>3
<1> HIDE DEF end
<1>2. Added(u, v, t, end, s)
  BY <1>1, AddBinEffect
<1> HIDE DEF v
<1>3. v \in HeapType(v.bin_next) /\ v.bin_next = Grown(u) /\ v.bin[b].size = s
  BY <1>2 DEF Added
<1>4. b \in 1 .. v.bin_next /\ n <= v.bin_next
  BY <1>1, <1>3, FreeType DEF Grown
<1>5. split_bin(v, b, s) = v
  BY <1>3 DEF split_bin
<1> HIDE DEF b
<1>6. /\ done \in HeapType(done.bin_next) /\ done.bin_next = v.bin_next
      /\ SameBut(v, done, b) /\ done.bin[b].taken
      /\ done.bin[b].addr = v.bin[b].addr /\ done.bin[b].size = v.bin[b].size
      /\ InRow(v) => InRow(done)
  BY <1>3, <1>4, TakeEffect
<1> HIDE DEF done
<1>7. ASSUME InRow(u) PROVE Given(u, [heap |-> done, addr |-> done.bin[b].addr], s)
  <2>1. BinInRow(u, t) /\ u.ehead = 0 /\ u.fault = "no"
    BY <1>1, <1>7 DEF InRow
  <2>2. u.bin[t].next = 0 /\ u.bin[t].size \in Nat \ {0} /\ t # 0
    BY <2>1, <1>1 DEF BinInRow
  <2>3. b = n + 1 /\ Grown(u) = n + 1 /\ n < MAXBINS
    BY <2>1 DEF FreeHeader, Grown, b
  <2>4. Insertion(u, v, t, u.bin[t].size, s)
    BY <1>2, <2>1, <2>2, <2>3 DEF Added, Insertion, b, end
  <2>5. InRow(v)
    BY <1>1, <1>7, <2>2, <2>3, <2>4, InsertKeepsRow
  <2>6. ASSUME NEW c \in 1 .. n
        PROVE  /\ done.bin[c].taken = u.bin[c].taken /\ done.bin[c].addr = u.bin[c].addr
               /\ done.bin[c].size = u.bin[c].size
    <3>1. c \in Header /\ c # b /\ c # 0
      BY <1>1, <2>3
    <3>2. done.bin[c] = v.bin[c]
      BY <1>6, <3>1 DEF SameBut
    <3>3. CASE c = t
      BY <1>2, <2>1, <2>2, <3>2, <3>3 DEF Added
    <3>4. CASE c # t
      BY <1>2, <2>1, <2>2, <3>1, <3>2, <3>4 DEF Added, b
    <3> QED BY <3>3, <3>4
  <2>7. b \in 1 .. done.bin_next /\ b \notin 1 .. n /\ done.bin[b].size = s /\ s <= s /\ n <= done.bin_next
    BY <1>1, <1>3, <1>4, <1>6, <2>3
  <2> QED BY <1>6, <2>5, <2>6, <2>7 DEF Given
<1> QED BY <1>5, <1>6, <1>7 DEF done, v, b, end

\* malloc in the last bin, which is not taken and made large enough.
LEMMA StretchEffect ==
    ASSUME NEW u, u \in HeapType(u.bin_next),
           NEW s \in Nat \ {0}, u.bin_tail # 0, ~u.bin[u.bin_tail].taken,
           InRow(u) => u.bin[u.bin_tail].size < s
    PROVE  LET b    == u.bin_tail
               v    == [u EXCEPT !.bin[b].size = s, !.bin[b].taken = FALSE]
               done == [split_bin(v, b, s) EXCEPT !.bin[b].taken = TRUE] IN
           /\ done \in HeapType(done.bin_next)
           /\ InRow(u) => Given(u, [heap |-> done, addr |-> done.bin[b].addr], s)
<1> DEFINE n == u.bin_next
           b == u.bin_tail
           w == [u EXCEPT !.bin[b].size = s]
           v == [w EXCEPT !.bin[b].taken = FALSE]
           done == [v EXCEPT !.bin[b].taken = TRUE]
<1>1. /\ n \in Nat /\ 1 .. n \subseteq Header /\ b \in 1 .. n /\ b \in Header
      /\ s \in Int /\ u.bin[b].size \in Int
  <2>1. b \in 0 .. n /\ n \in Nat /\ 1 .. n \subseteq Header
    BY HeadersInUse DEF HeapType
  <2>2. b \in 1 .. n /\ b \in Header
    BY <2>1
  <2>3. u.bin[b].size \in Int
    BY <2>2, HeadersInUse
  <2> QED BY <2>1, <2>2, <2>3
<1>2. u \in HeapType(n)
  OBVIOUS
<1> HIDE DEF n
<1>3. /\ w \in HeapType(n) /\ SameRest(u, w) /\ SameBut(u, w, b) /\ w.bin[b].size = s
      /\ w.bin[b].next = u.bin[b].next /\ w.bin[b].prev = u.bin[b].prev /\ w.bin[b].addr = u.bin[b].addr
  BY <1>1, <1>2, PutSize
<1> HIDE DEF w
<1>4. LET x == [w EXCEPT !.bin[b].taken = FALSE] IN
      /\ x \in HeapType(n) /\ SameRest(w, x) /\ SameBut(w, x, b)
      /\ x.bin[b].taken = FALSE
      /\ x.bin[b].next = w.bin[b].next /\ x.bin[b].prev = w.bin[b].prev
      /\ x.bin[b].addr = w.bin[b].addr /\ x.bin[b].size = w.bin[b].size
  <2>1. w \in HeapType(n) /\ b \in Header
    BY <1>1, <1>3
  <2> HIDE DEF b
  <2> QED BY <2>1, PutFree
<1> HIDE DEF v
<1>5. /\ v \in HeapType(n) /\ SameRest(u, v) /\ SameBut(u, v, b) /\ v.bin[b].size = s
      /\ v.bin[b].next = u.bin[b].next /\ v.bin[b].prev = u.bin[b].prev /\ v.bin[b].addr = u.bin[b].addr
  BY <1>3, <1>4 DEF SameRest, SameBut, v
<1>6. split_bin(v, b, s) = v
  BY <1>5 DEF split_bin
<1>7. v \in HeapType(v.bin_next) /\ v.bin_next = n /\ b \in 1 .. v.bin_next
  BY <1>1, <1>5 DEF SameRest, n
<1>8. /\ done \in HeapType(done.bin_next) /\ done.bin_next = v.bin_next
      /\ SameBut(v, done, b) /\ done.bin[b].taken
      /\ done.bin[b].addr = v.bin[b].addr /\ done.bin[b].size = v.bin[b].size
      /\ InRow(v) => InRow(done)
  BY <1>7, TakeEffect
<1> HIDE DEF done
<1>9. ASSUME InRow(u) PROVE Given(u, [heap |-> done, addr |-> done.bin[b].addr], s)
  <2>1. u.bin[b].size <= s
    BY <1>1, <1>9
  <2>2. InRow(v)
    BY <1>5, <1>9, <2>1, GrowKeepsRow
  <2>3. ASSUME NEW c \in 1 .. n, u.bin[c].taken
        PROVE  /\ done.bin[c].taken /\ done.bin[c].addr = u.bin[c].addr
               /\ done.bin[c].size = u.bin[c].size
    <3>1. c # b /\ c \in Header
      BY <1>1, <2>3
    <3>2. done.bin[c] = u.bin[c]
      BY <1>5, <1>8, <3>1 DEF SameBut
    <3> QED BY <2>3, <3>2
  <2>4. b \in 1 .. done.bin_next /\ done.bin[b].size = s /\ s <= s /\ n <= done.bin_next
    BY <1>1, <1>5, <1>7, <1>8
  <2>5. ~u.bin[b].taken
    OBVIOUS
  <2> QED BY <1>8, <2>2, <2>3, <2>4, <2>5 DEF Given, n
<1> QED BY <1>6, <1>8, <1>9 DEF done, v, w

LEMMA MallocEffect ==
    ASSUME NEW u, u \in HeapType(u.bin_next), u.ehead # 0 \/ u.bin_next < MAXBINS,
           NEW s \in Nat \ {0}
    PROVE  LET m == Malloc(u, s) IN
           /\ m.heap \in HeapType(m.heap.bin_next)
           /\ InRow(u) => Given(u, m, s)
<1> DEFINE n == u.bin_next
           best == find_best_fit(u, s)
           tail == u.bin_tail
           end == u.bin[tail].addr + u.bin[tail].size
           Done(v, b) == [split_bin(v, b, s) EXCEPT !.bin[b].taken = TRUE]
           Out(h, b) == [heap |-> h, addr |-> h.bin[b].addr]
           stretched == [u EXCEPT !.bin[tail].size = s, !.bin[tail].taken = FALSE]
<1>1. n \in 1 .. MAXBINS
  BY HeadersInUse
<1>2. \/ best = 0 /\ \A k \in Chain(u, u.bin_head) :
                         LET bin == u.bin[After(u, u.bin_head, k)] IN ~(~bin.taken /\ bin.size >= s)
      \/ best \in 1 .. n /\ best \in Header /\ ~u.bin[best].taken /\ u.bin[best].size >= s
  BY <1>1, BestFits
<1>3. CASE Endless(u, u.bin_head)
  <2>1. Malloc(u, s) = [heap |-> Fault(u, "hang"), addr |-> 0]
    BY <1>3 DEF Malloc
  <2>2. Malloc(u, s).heap = Fault(u, "hang")
    BY <2>1
  <2>3. Fault(u, "hang") \in HeapType(n) /\ Fault(u, "hang").bin_next = n
    BY DEF Fault, HeapType
  <2>4. ~InRow(u)
    BY <1>3, RowLast
  <2> QED BY <2>2, <2>3, <2>4
<1>4. CASE ~Endless(u, u.bin_head) /\ best = 0 /\ tail = 0
  <2>1. Malloc(u, s) = [heap |-> Fault(u, "crash"), addr |-> 0]
    BY <1>4 DEF Malloc
  <2>2. Malloc(u, s).heap = Fault(u, "crash")
    BY <2>1
  <2>3. Fault(u, "crash") \in HeapType(n) /\ Fault(u, "crash").bin_next = n
    BY DEF Fault, HeapType
  <2>4. ~InRow(u)
    BY <1>1, <1>4 DEF InRow
  <2> QED BY <2>2, <2>3, <2>4
<1>5. CASE ~Endless(u, u.bin_head) /\ best # 0
  <2>1. Malloc(u, s) = Out(Done(u, best), best)
    BY <1>5 DEF Malloc
  <2>2. best \in 1 .. n /\ ~u.bin[best].taken /\ u.bin[best].size >= s
    BY <1>2, <1>5
  <2> HIDE DEF best
  <2>3. /\ Done(u, best) \in HeapType(Done(u, best).bin_next)
        /\ InRow(u) => Given(u, Out(Done(u, best), best), s)
    BY <2>2, FitEffect
  <2> HIDE DEF Done
  <2>4. Malloc(u, s).heap = Done(u, best)
    BY <2>1
  <2> QED BY <2>1, <2>3, <2>4
<1>6. CASE ~Endless(u, u.bin_head) /\ best = 0 /\ tail # 0 /\ u.bin[tail].taken
  <2> DEFINE h == Done(add_bin(u, tail, end, s), FreeHeader(u))
  <2>1. Malloc(u, s) = Out(h, FreeHeader(u))
    BY <1>6 DEF Malloc
  <2>2. h \in HeapType(h.bin_next) /\ (InRow(u) => Given(u, Out(h, FreeHeader(u)), s))
    BY <1>6, AppendEffect
  <2> HIDE DEF h
  <2>3. Malloc(u, s).heap = h
    BY <2>1
  <2> QED BY <2>1, <2>2, <2>3
<1>7. CASE ~Endless(u, u.bin_head) /\ best = 0 /\ tail # 0 /\ ~u.bin[tail].taken
  <2> DEFINE h == Done(stretched, tail)
  <2>1. Malloc(u, s) = Out(h, tail)
    BY <1>7 DEF Malloc
  <2>2. InRow(u) => u.bin[tail].size < s
    <3> SUFFICES ASSUME InRow(u) PROVE u.bin[tail].size < s
      OBVIOUS
    <3>1. tail \in 1 .. n
      BY DEF InRow
    <3>2. PICK k \in Chain(u, u.bin_head) : After(u, u.bin_head, k) = tail
      BY <3>1, RowReached
    <3>3. ~(u.bin[tail].size >= s)
      BY <1>1, <1>2, <1>7, <3>2
    <3>4. u.bin[tail].size \in Int
      BY <3>1, HeadersInUse
    <3> QED BY <3>3, <3>4
  <2>3. h \in HeapType(h.bin_next) /\ (InRow(u) => Given(u, Out(h, tail), s))
    BY <1>7, <2>2, StretchEffect
  <2> HIDE DEF h
  <2>4. Malloc(u, s).heap = h
    BY <2>1
  <2> QED BY <2>1, <2>3, <2>4
<1> QED BY <1>3, <1>4, <1>5, <1>6, <1>7

\* A block that malloc gives joins those in use.
LEMMA GivenHoused ==
    ASSUME NEW u, u \in HeapType(u.bin_next), InRow(u), NEW blocks, Housed(u, blocks),
           NEW m, m.heap \in HeapType(m.heap.bin_next), NEW s \in Nat, NEW z \in Nat, z <= s,
           Given(u, m, s)
    PROVE  /\ Housed(m.heap, blocks \cup {Handed(m.addr, z, FALSE)})
           /\ \A x \in blocks : x.addr # m.addr
<1> DEFINE n == u.bin_next
           h == m.heap
           l == h.bin_next
           new == Handed(m.addr, z, FALSE)
<1>1. n \in Nat /\ l \in Nat /\ n <= l /\ InRow(h)
  BY HeadersInUse DEF Given
<1>2. PICK b \in 1 .. l :
          /\ h.bin[b].taken /\ h.bin[b].addr = m.addr /\ s <= h.bin[b].size
          /\ b \in 1 .. n => ~u.bin[b].taken
          /\ \A c \in 1 .. n :
                u.bin[c].taken => /\ h.bin[c].taken /\ h.bin[c].addr = u.bin[c].addr
                                  /\ h.bin[c].size = u.bin[c].size
  BY DEF Given
<1>3. h.bin[b].addr \in Nat /\ h.bin[b].size \in Nat
  BY <1>1, <1>2 DEF InRow, BinInRow
<1>4. ASSUME NEW x \in blocks
      PROVE  /\ x.addr \in Nat /\ x.size \in Nat /\ x.addr # m.addr
             /\ \E c \in 1 .. l : /\ h.bin[c].taken /\ h.bin[c].addr = x.addr
                                  /\ ~x.kept => x.size <= h.bin[c].size
  <2>1. x.addr \in Nat /\ x.size \in Nat
    BY DEF Housed
  <2>2. PICK c \in 1 .. n : /\ u.bin[c].taken /\ u.bin[c].addr = x.addr
                            /\ ~x.kept => x.size <= u.bin[c].size
    BY DEF Housed
  <2>3. /\ c \in 1 .. l /\ c # b
        /\ h.bin[c].taken /\ h.bin[c].addr = x.addr
        /\ ~x.kept => x.size <= h.bin[c].size
    BY <1>1, <1>2, <2>2
  <2>4. Disjoint(h.bin[b], h.bin[c]) /\ h.bin[c].size \in Nat \ {0} /\ h.bin[b].size \in Nat \ {0}
    BY <1>1, <1>2, <2>3 DEF InRow, BinInRow
  <2>5. x.addr # m.addr
    BY <1>2, <1>3, <2>1, <2>3, <2>4 DEF Disjoint
  <2> QED BY <2>1, <2>3, <2>5
<1>5. new.addr = m.addr /\ new.size = z
  BY DEF Handed
<1> HIDE DEF new, h
<1>6. /\ new.addr \in Nat /\ new.size \in Nat
      /\ h.bin[b].taken /\ h.bin[b].addr = new.addr /\ new.size <= h.bin[b].size
  BY <1>2, <1>3, <1>5
<1>7. \A x, y \in blocks : x # y => x.addr # y.addr
  BY DEF Housed
<1>8. Housed(h, blocks \cup {new})
  BY <1>4, <1>5, <1>6, <1>7 DEF Housed
<1> QED BY <1>4, <1>8 DEF new, h

\* free, unless it merges, leaves the row, and the other blocks where they are.
LEMMA FreeKeeps ==
    ASSUME NEW u, u \in HeapType(u.bin_next), InRow(u), NEW blocks, Housed(u, blocks),
           NEW x \in blocks, NEW h, h = Free(u, x.addr), h.ehead = u.ehead, h.fault = "no"
    PROVE  InRow(h) /\ Housed(h, blocks \ {x})
<1> DEFINE n == u.bin_next
<1>1. n \in 1 .. MAXBINS /\ n \in Nat /\ 1 .. n \subseteq Header
  BY HeadersInUse
<1>2. PICK c \in 1 .. n : u.bin[c].taken /\ u.bin[c].addr = x.addr
  BY DEF Housed
<1>3. PICK k \in Chain(u, u.bin_head) : After(u, u.bin_head, k) = c
  BY RowReached
<1>4. PICK b \in 1 .. n : /\ u.bin[b].addr = x.addr
                          /\ Free(u, x.addr) = merge_bin(Released(u, b), b)
  <2>1. u.bin[After(u, u.bin_head, k)].addr = x.addr
    BY <1>2, <1>3
  <2> DEFINE p == x.addr
  <2>2. u \in HeapType(n)
    OBVIOUS
  <2> HIDE DEF n, p
  <2>3. \/ /\ \A j \in Chain(u, u.bin_head) : u.bin[After(u, u.bin_head, j)].addr # p
           /\ Free(u, p) \in HeapType(n) /\ Free(u, p).bin_next = u.bin_next
        \/ \E b \in 1 .. n : /\ u.bin[b].addr = p
                             /\ Free(u, p) = merge_bin(Released(u, b), b)
    BY <1>1, <2>2, FreeEffect
  <2> QED BY <1>3, <2>1, <2>3 DEF p
<1> DEFINE v == Released(u, b)
<1>5. LET y == [u EXCEPT !.bin[b].taken = FALSE] IN
      /\ y \in HeapType(n) /\ SameRest(u, y) /\ SameBut(u, y, b)
      /\ y.bin[b].taken = FALSE
      /\ y.bin[b].next = u.bin[b].next /\ y.bin[b].prev = u.bin[b].prev
      /\ y.bin[b].addr = u.bin[b].addr /\ y.bin[b].size = u.bin[b].size
  <2>1. u \in HeapType(n) /\ b \in Header
    BY <1>1
  <2> HIDE DEF n
  <2> QED BY <2>1, PutFree
<1>6. /\ v \in HeapType(n) /\ SameRest(u, v) /\ SameBut(u, v, b)
      /\ v.bin[b].next = u.bin[b].next /\ v.bin[b].prev = u.bin[b].prev
      /\ v.bin[b].addr = u.bin[b].addr /\ v.bin[b].size = u.bin[b].size
  BY <1>5 DEF Released
<1> HIDE DEF v
<1>7. h = merge_bin(v, b)
  BY <1>4 DEF v
<1>8. v.bin[b].next # b /\ v.bin[b].prev # b
  <2>1. \A d \in 1 .. n : /\ u.bin[d].addr \in Nat /\ u.bin[d].size \in Nat \ {0}
                          /\ u.bin[d].next # 0 => u.bin[u.bin[d].next].addr = u.bin[d].addr + u.bin[d].size
                          /\ u.bin[d].prev # 0 => u.bin[u.bin[d].prev].next = d
    BY DEF InRow, BinInRow
  <2>2. u.bin[b].next # 0 => u.bin[u.bin[b].next].addr > u.bin[b].addr
    BY <2>1
  <2>3. b # 0 /\ u.bin[b].addr \in Nat
    BY <1>1, <2>1
  <2>4. u.bin[b].next # b
    BY <2>2, <2>3
  <2>5. u.bin[b].prev # b
    BY <2>1, <2>3, <2>4
  <2> QED BY <1>6, <2>4, <2>5
<1>9. h = v
  <2>1. h = v \/ h.ehead # 0 \/ h.fault # "no"
    <3>1. /\ merge_bin(v, b) \in HeapType(n) /\ merge_bin(v, b).bin_next = v.bin_next
          /\ v.bin[b].next # b /\ v.bin[b].prev # b =>
                \/ merge_bin(v, b) = v \/ merge_bin(v, b).ehead # 0
                \/ merge_bin(v, b).fault # "no"
      <4> HIDE DEF n
      <4> QED BY <1>1, <1>6, MergeEffect
    <3> QED BY <1>7, <1>8, <3>1
  <2>2. u.ehead = 0
    BY DEF InRow
  <2> QED BY <2>1, <2>2
<1>10. InRow(v)
  <2>1. \A d \in Header : d > n => v.bin[d] = u.bin[d]
    BY <1>1, <1>6 DEF SameBut
  <2>2. \A d \in 1 .. n : /\ v.bin[d].next = u.bin[d].next /\ v.bin[d].prev = u.bin[d].prev
                          /\ v.bin[d].addr = u.bin[d].addr /\ v.bin[d].size = u.bin[d].size
    BY <1>1, <1>6 DEF SameBut
  <2>3. SameRow(u, v)
    BY <1>6, <2>1, <2>2 DEF SameRow, SameRest
  <2> QED BY <2>3, SameRowKeeps
<1>11. Housed(v, blocks \ {x})
  <2>1. ASSUME NEW y \in blocks \ {x}
        PROVE  /\ y.addr \in Nat /\ y.size \in Nat
               /\ \E d \in 1 .. v.bin_next : /\ v.bin[d].taken /\ v.bin[d].addr = y.addr
                                             /\ ~y.kept => y.size <= v.bin[d].size
    <3>1. y.addr \in Nat /\ y.size \in Nat /\ y.addr # x.addr
      BY DEF Housed
    <3>2. PICK d \in 1 .. n : /\ u.bin[d].taken /\ u.bin[d].addr = y.addr
                              /\ ~y.kept => y.size <= u.bin[d].size
      BY DEF Housed
    <3>3. d # b /\ d \in Header
      BY <1>1, <1>4, <3>1, <3>2
    <3>4. v.bin[d] = u.bin[d] /\ v.bin_next = n
      BY <1>6, <3>3 DEF SameBut, SameRest
    <3> QED BY <3>1, <3>2, <3>4
  <2>2. \A y, z \in blocks \ {x} : y # z => y.addr # z.addr
    BY DEF Housed
  <2> QED BY <2>1, <2>2 DEF Housed
<1> QED BY <1>9, <1>10, <1>11

LEMMA HeapStarts == HeapInit => HeapInv
<1> SUFFICES ASSUME HeapInit PROVE HeapInv
  OBVIOUS
<1> DEFINE r == [Zero EXCEPT !.size = INITIAL]
           f == [b \in Header |-> IF b = 1 THEN r ELSE Zero]
<1>1. INITIAL \in Nat \ {0} /\ MAXBINS \in Nat \ {0} /\ 1 \in Header /\ 1 \in Nat
  BY InitialAssumption DEF Header
<1>2. Zero \in BinType(1)
  BY <1>1, ZeroType
<1>3. /\ r \in BinType(1) /\ r.size = INITIAL /\ r.next = 0 /\ r.prev = 0 /\ r.addr = 0
  <2>1. Zero.next = 0 /\ Zero.prev = 0 /\ Zero.addr = 0
    BY DEF Zero
  <2>2. /\ r \in BinType(1) /\ r.size = INITIAL
        /\ r.next = Zero.next /\ r.prev = Zero.prev /\ r.addr = Zero.addr
    BY <1>1, <1>2 DEF BinType
  <2> HIDE DEF r
  <2> QED BY <2>1, <2>2
<1> HIDE DEF r
<1>4. f \in [Header -> BinType(1)]
  BY <1>2, <1>3
<1>5. /\ heap = [bin |-> f, bin_head |-> 1, bin_tail |-> 1, bin_next |-> 1, ehead |-> 0, fault |-> "no"]
      /\ live = {} /\ merged = FALSE
  BY DEF HeapInit, __heap_setup, r
<1>6. f[1] = r /\ \A b \in Header : b > 1 => f[b] = Zero
  BY <1>1
<1> HIDE DEF f
<1>7. /\ heap.bin = f /\ heap.bin_head = 1 /\ heap.bin_tail = 1 /\ heap.bin_next = 1
      /\ heap.ehead = 0 /\ heap.fault = "no"
  BY <1>5
<1>8. heap \in HeapType(heap.bin_next)
  <2>1. 1 \in 0 .. 1 /\ 0 \in 0 .. 1
    OBVIOUS
  <2>2. heap \in HeapType(1)
    BY <1>1, <1>4, <1>5, <2>1 DEF HeapType
  <2> QED BY <1>7, <2>2
<1>9. InRow(heap)
  <2>1. BinInRow(heap, 1)
    BY <1>1, <1>3, <1>6, <1>7 DEF BinInRow
  <2>2. \A b \in 1 .. 1 : b = 1
    OBVIOUS
  <2> QED BY <1>6, <1>7, <2>1, <2>2 DEF InRow
<1>10. Housed(heap, live)
  BY <1>5 DEF Housed
<1> QED BY <1>5, <1>8, <1>9, <1>10 DEF HeapInv

LEMMA EvenFact == \A s \in Sizes : Even(s) \in Nat \ {0} /\ s \in Nat /\ s <= Even(s)
  BY SizesAssumption DEF Even

LEMMA MallocKeeps == HeapInv /\ malloc => HeapInv'
<1> SUFFICES ASSUME HeapInv, malloc PROVE HeapInv'
  OBVIOUS
<1>1. PICK z \in Sizes : /\ Room(heap) /\ heap' = Malloc(heap, Even(z)).heap
                         /\ live' = IF Malloc(heap, Even(z)).heap.fault # "no" THEN live
                                    ELSE live \cup {Handed(Malloc(heap, Even(z)).addr, z, FALSE)}
                         /\ merged' = merged
  BY DEF malloc
<1> DEFINE s == Even(z)
           m == Malloc(heap, s)
<1>2. s \in Nat \ {0} /\ z \in Nat /\ z <= s
  BY EvenFact
<1> HIDE DEF s
<1>3. heap \in HeapType(heap.bin_next) /\ (heap.ehead # 0 \/ heap.bin_next < MAXBINS) /\ merged \in BOOLEAN
  BY <1>1 DEF HeapInv, Room, InBounds
<1>4. /\ m.heap \in HeapType(m.heap.bin_next)
      /\ InRow(heap) => Given(heap, m, s)
  BY <1>2, <1>3, MallocEffect
<1> HIDE DEF m
<1>5. heap' = m.heap
  BY <1>1 DEF m, s
<1>6. ASSUME ~merged PROVE InRow(heap') /\ Housed(heap', live')
  <2>1. InRow(heap) /\ Housed(heap, live)
    BY <1>1, <1>6 DEF HeapInv, Room
  <2>2. Given(heap, m, s) /\ InRow(m.heap) /\ m.heap.fault = "no"
    BY <1>4, <2>1 DEF Given, InRow
  <2>3. live' = live \cup {Handed(m.addr, z, FALSE)}
    BY <1>1, <2>2 DEF m, s
  <2>4. Housed(m.heap, live \cup {Handed(m.addr, z, FALSE)})
    BY <1>2, <1>3, <1>4, <2>1, <2>2, GivenHoused
  <2> QED BY <1>5, <2>2, <2>3, <2>4
<1>7. heap' \in HeapType(heap'.bin_next)
  BY <1>4, <1>5
<1> QED BY <1>1, <1>3, <1>6, <1>7 DEF HeapInv

LEMMA ReleaseKeeps == ASSUME NEW x \in live, HeapInv, Release(x) PROVE HeapInv'
<1>1. /\ heap.fault = "no" /\ heap' = Free(heap, x.addr) /\ live' = live \ {x}
      /\ merged' = (merged \/ heap'.ehead # heap.ehead \/ heap'.fault # "no")
  BY DEF Release
<1>2. heap \in HeapType(heap.bin_next) /\ heap.bin_next \in 1 .. MAXBINS
  <2>1. heap \in HeapType(heap.bin_next)
    BY DEF HeapInv
  <2> QED BY <2>1, HeadersInUse
<1>3. heap' \in HeapType(heap.bin_next) /\ heap'.bin_next = heap.bin_next
  BY <1>1, <1>2, FreedType
<1>4. ASSUME ~merged' PROVE InRow(heap') /\ Housed(heap', live')
  <2>1. ~merged /\ heap'.ehead = heap.ehead /\ heap'.fault = "no"
    BY <1>1, <1>4
  <2>2. InRow(heap) /\ Housed(heap, live)
    BY <1>1, <2>1 DEF HeapInv
  <2>3. InRow(heap') /\ Housed(heap', live \ {x})
    BY <1>1, <1>2, <2>1, <2>2, FreeKeeps
  <2> QED BY <1>1, <2>3
<1>5. merged' \in BOOLEAN
  BY <1>1
<1>6. heap' \in HeapType(heap'.bin_next)
  BY <1>3
<1> QED BY <1>4, <1>5, <1>6 DEF HeapInv

\* A program that realloc sends through an unset pointer may fault.
LEMMA FaultKeeps ==
    ASSUME HeapInv, NEW u, u \in HeapType(u.bin_next), Faults(Fault(u, "unset")) PROVE HeapInv'
<1> DEFINE n == u.bin_next
           v == Fault(u, "unset")
<1>1. v \in HeapType(n) /\ v.bin_next = n /\ v.fault = "unset"
  <2>1. u \in HeapType(n) /\ "unset" \in {"no", "crash", "hang", "unset"}
    OBVIOUS
  <2>2. v \in HeapType(n)
    <3> HIDE DEF n
    <3> QED BY <2>1, HeapSet
  <2> QED BY <2>1, <2>2 DEF Fault, HeapType
<1>2. heap' = v /\ merged' = merged
  BY DEF Faults
<1> HIDE DEF v
<1> QED BY <1>1, <1>2 DEF HeapInv

\* A block that realloc lets stand has its bin and its address still.
LEMMA KeptKeeps ==
    ASSUME HeapInv, NEW x \in live, NEW z \in Sizes, Kept(x, z) PROVE HeapInv'
<1> DEFINE new == Handed(x.addr, z, TRUE)
<1>1. heap' = heap /\ merged' = merged /\ live' = (live \ {x}) \cup {new}
  BY DEF Kept
<1>2. new.addr = x.addr /\ new.size = z /\ new.kept /\ z \in Nat
  BY EvenFact DEF Handed
<1> HIDE DEF new
<1>3. ASSUME Housed(heap, live) PROVE Housed(heap, (live \ {x}) \cup {new})
  <2>1. \A y \in live \ {x} : y.addr # new.addr
    BY <1>2, <1>3 DEF Housed
  <2> QED BY <1>2, <1>3, <2>1 DEF Housed
<1> QED BY <1>1, <1>3 DEF HeapInv

\* A block that realloc moves.
LEMMA MovedKeeps ==
    ASSUME HeapInv, NEW x \in live, NEW z \in Sizes, Room(heap),
           Malloc(heap, Even(z)).heap.fault = "no", Moved(x, z, Malloc(heap, Even(z)))
    PROVE  HeapInv'
<1> DEFINE s == Even(z)
           m == Malloc(heap, s)
           h == m.heap
           new == Handed(m.addr, z, FALSE)
<1>1. s \in Nat \ {0} /\ z \in Nat /\ z <= s
  BY EvenFact
<1> HIDE DEF s
<1>2. heap \in HeapType(heap.bin_next) /\ (heap.ehead # 0 \/ heap.bin_next < MAXBINS)
      /\ heap.fault = "no"
  BY DEF HeapInv, Room, InBounds
<1>3. /\ h \in HeapType(h.bin_next)
      /\ InRow(heap) => Given(heap, m, s)
  BY <1>1, <1>2, MallocEffect
<1>4. heap' = Free(h, x.addr) /\ live' = (live \ {x}) \cup {new}
      /\ merged' = (merged \/ heap'.ehead # h.ehead \/ heap'.fault # "no")
  BY DEF s, Moved
<1> HIDE DEF m
<1>5. heap' \in HeapType(heap'.bin_next)
  <2> HIDE DEF h
  <2>1. h.bin_next \in 1 .. MAXBINS
    BY <1>3, HeadersInUse
  <2>2. Free(h, x.addr) \in HeapType(h.bin_next) /\ Free(h, x.addr).bin_next = h.bin_next
    BY <1>3, <2>1, FreedType
  <2> QED BY <1>4, <2>2
<1>6. ASSUME ~merged' PROVE InRow(heap') /\ Housed(heap', live')
  <2>1. ~merged /\ heap'.ehead = h.ehead /\ heap'.fault = "no"
    BY <1>4, <1>6
  <2>2. InRow(heap) /\ Housed(heap, live)
    BY <1>2, <2>1 DEF HeapInv
  <2>3. Given(heap, m, s) /\ InRow(h)
    BY <1>3, <2>2 DEF Given
  <2>4. Housed(h, live \cup {new}) /\ \A y \in live : y.addr # m.addr
    BY <1>1, <1>2, <1>3, <2>2, <2>3, GivenHoused
  <2>5. x # new
    <3>1. new.addr = m.addr
      BY DEF Handed
    <3> HIDE DEF new
    <3> QED BY <2>4, <3>1
  <2> HIDE DEF h, new
  <2>6. InRow(heap') /\ Housed(heap', (live \cup {new}) \ {x})
    BY <1>3, <1>4, <2>1, <2>3, <2>4, FreeKeeps
  <2>7. live' = (live \cup {new}) \ {x}
    BY <1>4, <2>5
  <2> QED BY <2>6, <2>7
<1>7. merged' \in BOOLEAN
  BY <1>4
<1> QED BY <1>5, <1>6, <1>7 DEF HeapInv

\* realloc: until bins are merged its search ends, and the malloc in it does not fault.
LEMMA ResizeKeeps ==
    ASSUME HeapInv, NEW x \in live, NEW z \in Sizes, Room(heap), Resize(x, z) PROVE HeapInv'
<1> DEFINE s == Even(z)
           m == Malloc(heap, s)
<1>1. s \in Nat \ {0}
  BY EvenFact
<1>2. /\ heap \in HeapType(heap.bin_next) /\ (heap.ehead # 0 \/ heap.bin_next < MAXBINS)
      /\ heap.fault = "no"
  BY DEF HeapInv, Room, InBounds
<1>3. /\ m.heap \in HeapType(m.heap.bin_next)
      /\ InRow(heap) => m.heap.fault = "no" /\ ~Endless(heap, heap.bin_head)
  <2> HIDE DEF s
  <2>1. /\ m.heap \in HeapType(m.heap.bin_next)
        /\ InRow(heap) => Given(heap, m, s)
    BY <1>1, <1>2, MallocEffect
  <2> HIDE DEF m
  <2>2. InRow(heap) => m.heap.fault = "no"
    BY <2>1 DEF Given, InRow
  <2> QED BY <1>2, <2>1, <2>2, RowLast
<1>4. ASSUME NEW u, u \in HeapType(u.bin_next), Faults(u), merged PROVE HeapInv'
  BY <1>4 DEF HeapInv, Faults
<1>5. ASSUME Astray(heap, x.addr), Faults(Fault(heap, "hang")) PROVE HeapInv'
  <2> DEFINE n == heap.bin_next
             v == Fault(heap, "hang")
  <2>1. merged
    BY <1>2, <1>3, <1>5 DEF HeapInv, Astray
  <2>2. v \in HeapType(n)
    <3>1. heap \in HeapType(n) /\ "hang" \in {"no", "crash", "hang", "unset"}
      BY <1>2
    <3> HIDE DEF n
    <3> QED BY <3>1, HeapSet
  <2>3. v.bin_next = n
    BY <1>2 DEF Fault, HeapType
  <2>4. Faults(v)
    BY <1>5
  <2> HIDE DEF v
  <2> QED BY <1>4, <2>1, <2>2, <2>3, <2>4
<1>6. CASE UNCHANGED heapVars
  BY <1>6 DEF HeapInv, heapVars
<1>7. CASE Faults(Fault(heap, "unset"))
  BY <1>2, <1>7, FaultKeeps
<1>8. CASE Kept(x, z)
  BY <1>8, KeptKeeps
<1>9. ASSUME m.heap.fault # "no", Faults(m.heap) PROVE HeapInv'
  <2>1. merged
    BY <1>2, <1>3, <1>9 DEF HeapInv
  <2> HIDE DEF m
  <2> QED BY <1>3, <1>4, <1>9, <2>1
<1>10. CASE Faults(Fault(m.heap, "unset"))
  <2> HIDE DEF m
  <2> QED BY <1>3, <1>10, FaultKeeps
<1>11. ASSUME m.heap.fault = "no", Moved(x, z, m) PROVE HeapInv'
  BY <1>11, MovedKeeps
<1>12. \/ Astray(heap, x.addr) /\ Faults(Fault(heap, "hang"))
       \/ UNCHANGED heapVars
       \/ Faults(Fault(heap, "unset"))
       \/ Kept(x, z)
       \/ m.heap.fault # "no" /\ Faults(m.heap)
       \/ Faults(Fault(m.heap, "unset"))
       \/ m.heap.fault = "no" /\ Moved(x, z, m)
  BY DEF Resize
<1> HIDE DEF m
<1> QED BY <1>5, <1>6, <1>7, <1>8, <1>9, <1>10, <1>11, <1>12

LEMMA HeapGoesOn == HeapInv /\ [HeapNext]_heapVars => HeapInv'
<1> SUFFICES ASSUME HeapInv, [HeapNext]_heapVars PROVE HeapInv'
  OBVIOUS
<1>1. CASE UNCHANGED heapVars
  BY <1>1 DEF HeapInv, heapVars
<1>2. CASE Stopped
  BY <1>2 DEF HeapInv, heapVars, Stopped
<1>3. CASE free
  BY <1>3, ReleaseKeeps DEF free
<1>4. CASE realloc
  BY <1>4, ReleaseKeeps, ResizeKeeps DEF realloc
<1> QED BY <1>1, <1>2, <1>3, <1>4, MallocKeeps DEF HeapNext

LEMMA HeapSound == HeapInv => SoundUntilMerge
<1> SUFFICES ASSUME HeapInv PROVE SoundUntilMerge
  OBVIOUS
<1> DEFINE n == heap.bin_next
<1>1. heap \in HeapType(n)
  BY DEF HeapInv
<1>2. /\ n \in 1 .. MAXBINS /\ n \in Nat /\ 1 .. n \subseteq Header
      /\ \A b \in Header : heap.bin[b].prev \in 0 .. n /\ heap.bin[b].next \in 0 .. n
  BY <1>1, HeadersInUse
<1>3. HeapTypeOK
  BY <1>1, <1>2 DEF HeapTypeOK, HeapType
<1>4. ASSUME ~merged, heap.fault # "unset"
      PROVE  /\ heap.fault = "no"
             /\ \A x, y \in live : x # y /\ ~x.kept /\ ~y.kept => Disjoint(x, y)
             /\ \A x \in live : \E k \in Chain(heap, heap.bin_head) :
                    LET bin == heap.bin[After(heap, heap.bin_head, k)]
                    IN  bin.taken /\ bin.addr = x.addr /\ (~x.kept => bin.size >= x.size)
             /\ ~Endless(heap, heap.bin_head) /\ LastOf(heap, heap.bin_head) = heap.bin_tail
             /\ \A b \in Header :
                    LET c == heap.bin[b].next IN
                    c # 0 => /\ heap.bin[c].prev = b
                             /\ heap.bin[c].addr = heap.bin[b].addr + heap.bin[b].size
  <2>1. InRow(heap) /\ Housed(heap, live)
    BY <1>4 DEF HeapInv
  <2>2. heap.fault = "no"
    BY <2>1 DEF InRow
  <2>3. ~Endless(heap, heap.bin_head) /\ LastOf(heap, heap.bin_head) = heap.bin_tail
    BY <1>1, <2>1, RowLast
  <2>4. ASSUME NEW x \in live, NEW y \in live, x # y, ~x.kept, ~y.kept PROVE Disjoint(x, y)
    <3>1. PICK b \in 1 .. n : heap.bin[b].addr = x.addr /\ x.size <= heap.bin[b].size
      BY <2>1, <2>4 DEF Housed
    <3>2. PICK c \in 1 .. n : heap.bin[c].addr = y.addr /\ y.size <= heap.bin[c].size
      BY <2>1, <2>4 DEF Housed
    <3>3. x.addr \in Nat /\ y.addr \in Nat /\ x.size \in Nat /\ y.size \in Nat /\ x.addr # y.addr
      BY <2>1, <2>4 DEF Housed
    <3>4. b # c
      BY <3>1, <3>2, <3>3
    <3>5. Disjoint(heap.bin[b], heap.bin[c]) /\ heap.bin[b].size \in Nat /\ heap.bin[c].size \in Nat
      BY <2>1, <3>1, <3>2, <3>4 DEF InRow, BinInRow
    <3> QED BY <3>1, <3>2, <3>3, <3>5 DEF Disjoint
  <2>5. ASSUME NEW x \in live
        PROVE  \E k \in Chain(heap, heap.bin_head) :
                   LET bin == heap.bin[After(heap, heap.bin_head, k)]
                   IN  bin.taken /\ bin.addr = x.addr /\ (~x.kept => bin.size >= x.size)
    <3>1. PICK b \in 1 .. n : /\ heap.bin[b].taken /\ heap.bin[b].addr = x.addr
                              /\ ~x.kept => x.size <= heap.bin[b].size
      BY <2>1 DEF Housed
    <3>2. PICK k \in Chain(heap, heap.bin_head) : After(heap, heap.bin_head, k) = b
      BY <1>1, <2>1, RowReached
    <3>3. x.size \in Nat /\ heap.bin[b].size \in Nat
      BY <2>1, <3>1 DEF Housed, InRow, BinInRow
    <3>4. ~x.kept => heap.bin[b].size >= x.size
      BY <3>1, <3>3
    <3> QED BY <3>1, <3>2, <3>4
  <2>6. ASSUME NEW b \in Header, heap.bin[b].next # 0
        PROVE  /\ heap.bin[heap.bin[b].next].prev = b
               /\ heap.bin[heap.bin[b].next].addr = heap.bin[b].addr + heap.bin[b].size
    <3>1. b \in 1 .. n
      <4>1. b \in Nat /\ b >= 1
        BY InitialAssumption DEF Header
      <4> SUFFICES ASSUME b > n PROVE FALSE
        BY <1>2, <4>1
      <4>2. heap.bin[b] = Zero
        BY <2>1 DEF InRow
      <4>3. Zero.next = 0
        BY DEF Zero
      <4> QED BY <2>6, <4>2, <4>3
    <3> QED BY <2>1, <2>6, <3>1 DEF InRow, BinInRow
  <2> QED BY <2>2, <2>3, <2>4, <2>5, <2>6
<1> QED BY <1>3, <1>4 DEF SoundUntilMerge

\* Through any calls of malloc, free and realloc, whatever realloc reads through the
\* pointer it never set, pointers have their type, and until bins are merged for the
\* first time nothing else faults, each block is found from bin_head in a bin of its
\* own, which holds it unless realloc vouched for its size, blocks that malloc sized
\* do not overlap, and the list of bins runs from end to end through to bin_tail.
THEOREM HeapSoundUntilMerge == HeapSpec => []SoundUntilMerge
<1>1. HeapSpec => []HeapInv
  BY HeapStarts, HeapGoesOn, PTL DEF HeapSpec
<1> QED BY <1>1, HeapSound, PTL
=============================================================================
