----------------------------- MODULE TimerHooks -----------------------------
(***************************************************************************)
(* timer_interrupt of module/timer/main.c across task switches.  One of    *)
(* the hooks it calls is tasking_tick, which leaves for another task in    *)
(* the middle of the loop over the hooks; the loop goes on when the task   *)
(* is switched to again, with the two global variables of the loop as      *)
(* other tasks' interrupts left them.                                      *)
(*                                                                         *)
(* Time is in milliseconds.  The branch with the APIC is modelled, where   *)
(* timer_read gives the interval the timer was set to.                     *)
(***************************************************************************)
EXTENDS Integers, Sequences

CONSTANTS
    ONE_TICK,           \* period of one_tick, 1000.f in timer_init
    TIME_SLICE_MAX,     \* period of tasking_tick
    LATER,              \* periods of clocks added after it
    ms_1ms,             \* 1000 with the APIC
    MAXCLOCKS,          \* bound: clocks
    MAXTASKS,           \* bound: tasks
    MAXDRIFT            \* bound: how far ms_left may drift from 0

ASSUME PeriodAssumption ==
    /\ ONE_TICK \in Nat \ {0} /\ TIME_SLICE_MAX \in Nat \ {0}
    /\ LATER \subseteq Nat \ {0} /\ ms_1ms \in Nat \ {0}
    /\ TIME_SLICE_MAX <= ONE_TICK       \* 5 and 1000
ASSUME BoundAssumption ==
    /\ MAXCLOCKS \in Nat \ {0, 1}        \* two from the start
    /\ MAXTASKS \in Nat \ {0} /\ MAXDRIFT \in Nat

NULL == 0
TICK == 2               \* tasking_init adds the second clock
Task == 1 .. MAXTASKS   \* in the order of task_order; task 1 is the bootstrap task

VARIABLES
    timer,      \* clock_hooks, count, timer_shortest, shortest_clock, hook_node, hook_clock
    ntasks,     \* tasks in task_order
    current_task,
    blocked,
    at,         \* "user", or where the task was left: "hook", "syscall", "new"
    passed,     \* ms_passed of the interrupt a task was left in
    fault,      \* a null pointer was followed
    \* history
    elapsed     \* per clock, the time since its hook was called, at most two periods

taskVars == <<ntasks, current_task, blocked, at>>
vars == <<timer, taskVars, passed, fault, elapsed>>

-----------------------------------------------------------------------------
(* Clocks.  A place in clock_hooks stands for the node and for its clock.  *)

timer_add_clock(u, ms) ==
    LET sooner  == u.timer_shortest * ms_1ms - u.count > ms * ms_1ms
        shorter == u.timer_shortest > ms \/ u.shortest_clock = NULL
    IN  [u EXCEPT !.clock_hooks    = Append(@, [ms |-> ms, ms_left |-> ms]),
                  !.count          = IF sooner \/ u.shortest_clock = NULL THEN ms ELSE @,
                  !.timer_shortest = IF shorter THEN ms ELSE @,
                  !.shortest_clock = IF shorter THEN Len(u.clock_hooks) + 1 ELSE @]

NoClocks == [clock_hooks |-> <<>>, count |-> 0, timer_shortest |-> 0, shortest_clock |-> NULL,
             hook_node |-> NULL, hook_clock |-> NULL]

\* After timer_init and tasking_init.
Init ==
    /\ timer = timer_add_clock(timer_add_clock(NoClocks, ONE_TICK), TIME_SLICE_MAX)
    /\ ntasks = 1
    /\ current_task = 1
    /\ blocked = [t \in Task |-> FALSE]
    /\ at = [t \in Task |-> IF t = 1 THEN "user" ELSE "new"]
    /\ passed = [t \in Task |-> 0]
    /\ fault = FALSE
    /\ elapsed = [c \in 1 .. MAXCLOCKS |-> 0]

-----------------------------------------------------------------------------
(* The loop.  A state of it has the timer, the history and whether it has  *)
(* come to an end or to a switch in tasking_tick.                          *)

\* The node after i, or NULL.
NextNode(u, i) == IF i < Len(u.clock_hooks) THEN i + 1 ELSE NULL

\* Mutant: the period is added twice.
Bug_Repeat(u) ==
    [u EXCEPT !.clock_hooks[u.hook_clock].ms_left = @ + 2 * u.clock_hooks[u.hook_clock].ms]

\* ms_left += ms, on the clock hook_clock points to by then.
Repeat(u) ==
    [u EXCEPT !.clock_hooks[u.hook_clock].ms_left = @ + u.clock_hooks[u.hook_clock].ms]

\* Mutant: no test of hook_node after the hook.
Bug_Advance(s) ==
    IF s.timer.hook_node = NULL THEN [s EXCEPT !.stop = "fault"]
    ELSE [s EXCEPT !.timer.hook_node = NextNode(s.timer, @)]

\* The test of hook_node, and the step to the next node.
Advance(s) ==
    IF s.timer.hook_node = NULL THEN s
    ELSE [s EXCEPT !.timer.hook_node = NextNode(s.timer, @)]

\* One turn, at hook_node, which is not null; ms is ms_passed.
Turn(s, ms, switches) ==
    LET i   == s.timer.hook_node
        u   == [s.timer EXCEPT !.hook_clock = i, !.clock_hooks[i].ms_left = @ - ms]
        due == u.clock_hooks[i].ms_left <= 0
    IN  IF ~due THEN Advance([s EXCEPT !.timer = u])
        ELSE IF i = TICK /\ switches
        THEN [s EXCEPT !.timer = u, !.elapsed[i] = 0, !.stop = "switch"]
        ELSE Advance([s EXCEPT !.timer = Repeat(u), !.elapsed[i] = 0])

\* Turns until the end of the list, a switch or a fault.
Loop(s, ms, switches) ==
    LET turn[k \in 0 .. MAXCLOCKS] ==
            IF k = 0 THEN s
            ELSE LET v == turn[k - 1]
                 IN  IF v.stop # "no" \/ v.timer.hook_node = NULL THEN v
                     ELSE Turn(v, ms, switches)
    IN  turn[MAXCLOCKS]

\* A task left in tasking_tick called from the loop: what the loop does next.
ResumeLoop(s, ms) == Loop(Advance([s EXCEPT !.timer = Repeat(@)]), ms, TRUE)

State == [timer |-> timer, elapsed |-> elapsed, stop |-> "no"]

\* Nodes passed from task i to task j in the round list, one turn at most.
Hops(i, j) == IF j > i THEN j - i ELSE j + ntasks - i

\* The task that task_switch goes to.
Chosen(isBlocked) ==
    CHOOSE j \in 1 .. ntasks :
        /\ ~isBlocked[j]
        /\ \A k \in 1 .. ntasks : Hops(current_task, k) < Hops(current_task, j) => isBlocked[k]

\* The current task is left in place, with loop state s, and the chosen one
\* goes on from where it was left.
SwitchFrom(s, place, isBlocked) ==
    LET j   == Chosen(isBlocked)
        was == IF j = current_task THEN place ELSE at[j]
        r   == IF was = "hook" THEN ResumeLoop([s EXCEPT !.stop = "no"], passed'[j]) ELSE s
    IN  /\ current_task' = j
        /\ at' = [at EXCEPT ![current_task] = place, ![j] = "user"]
        /\ timer' = r.timer
        /\ elapsed' = r.elapsed
        /\ fault' = (r.stop = "fault")

-----------------------------------------------------------------------------
(* Actions.                                                                *)

\* The bound on time: ms_left of a clock behind tasking_tick, and of that one
\* when there are such clocks, may go on drifting for ever.
WithinDrift ==
    \A c \in 1 .. Len(timer.clock_hooks) :
        timer.clock_hooks[c].ms_left \in -MAXDRIFT .. MAXDRIFT

DriftBound == ~WithinDrift /\ UNCHANGED vars

\* elapsed of clock c when ms have passed; two periods stand for more.
Later(c, ms) ==
    IF c > Len(timer.clock_hooks) THEN 0
    ELSE LET e == elapsed[c] + ms IN
         IF e < 2 * timer.clock_hooks[c].ms THEN e ELSE 2 * timer.clock_hooks[c].ms

\* timer_interrupt.  switches: tasking_tick does not return at once; while a
\* process is created _enabled is off and it does.
timer_interrupt(switches) ==
    LET ms      == timer.count
        started == [State EXCEPT !.timer.count     = timer.timer_shortest,
                                 !.timer.hook_node = 1,
                                 !.elapsed         = [c \in DOMAIN elapsed |-> Later(c, ms)]]
        s       == Loop(started, ms, switches)
    IN  /\ ~fault /\ WithinDrift
        /\ switches => ntasks > 1
        /\ UNCHANGED <<ntasks, blocked>>
        /\ IF s.stop = "switch"
           THEN /\ passed' = [passed EXCEPT ![current_task] = ms]
                /\ SwitchFrom(s, "hook", blocked)
           ELSE /\ timer' = s.timer
                /\ elapsed' = s.elapsed
                /\ fault' = (s.stop = "fault")
                /\ UNCHANGED <<current_task, at, passed>>

\* A system call blocks its process and calls tasking_tick.
Block ==
    /\ ~fault
    /\ current_task # 1
    /\ blocked' = [blocked EXCEPT ![current_task] = TRUE]
    /\ UNCHANGED <<ntasks, passed>>
    /\ SwitchFrom(State, "syscall", blocked')

\* A send awakes its receiver.
Awake(t) ==
    /\ ~fault
    /\ blocked[t]
    /\ blocked' = [blocked EXCEPT ![t] = FALSE]
    /\ UNCHANGED <<timer, ntasks, current_task, at, passed, fault, elapsed>>

\* task_newtask.
NewTask ==
    /\ ~fault
    /\ ntasks < MAXTASKS
    /\ ntasks' = ntasks + 1
    /\ UNCHANGED <<timer, current_task, blocked, at, passed, fault, elapsed>>

\* A module adds a clock.
AddClock(ms) ==
    /\ ~fault
    /\ Len(timer.clock_hooks) < MAXCLOCKS
    /\ timer' = timer_add_clock(timer, ms)
    /\ UNCHANGED <<taskVars, passed, fault, elapsed>>

Next ==
    \/ \E switches \in BOOLEAN : timer_interrupt(switches)
    \/ Block
    \/ \E t \in Task : Awake(t)
    \/ NewTask
    \/ \E ms \in LATER : AddClock(ms)
    \/ DriftBound

Spec == Init /\ [][Next]_vars

-----------------------------------------------------------------------------
(* Properties.                                                             *)

\* Type invariant.  hook_node rests at the hook of the scheduler or at the end
\* of the list, whatever task is left inside the loop.
TypeOK ==
    /\ ntasks \in Task /\ current_task \in 1 .. ntasks
    /\ at \in [Task -> {"user", "hook", "syscall", "new"}]
    /\ \A t \in Task : at[t] = "user" => t = current_task
    /\ timer.hook_node \in {NULL, TICK}
    /\ timer.hook_clock \in 0 .. Len(timer.clock_hooks)

\* The loop never follows a null hook_node, although the hook_node a task finds
\* when it is switched to again may have been set to null by other interrupts,
\* and between interrupts it rests where the type invariant says.
NullNeverFollowed == TypeOK /\ ~fault

\* In every interrupt, tasking_tick and the clocks before it are called if their
\* period is over: preemption does not stop although the period is added to
\* ms_left only when the task that was preempted runs again, perhaps to another
\* clock.
Punctual == \A c \in 1 .. TICK : elapsed[c] < timer.clock_hooks[c].ms

\* timer.h, timer_add_clock: "Adds a clock hook to be called every [ns]
\* nanoseconds": no clock goes without a call for two of its periods.
NoPeriodMissed == \A c \in 1 .. Len(timer.clock_hooks) : elapsed[c] < 2 * timer.clock_hooks[c].ms
=============================================================================
