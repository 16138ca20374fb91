------------------------------ MODULE Startup ------------------------------
(***************************************************************************)
(* The start of the system: the load functions of the modules that set up  *)
(* the processor, its interrupts and the timer, on any machine the code    *)
(* distinguishes, with interrupts arriving from irq_init on.               *)
(*                                                                         *)
(* The loader is part of the core kernel and external: it runs the load    *)
(* function of a module once those of its module_depends have returned, in *)
(* some such order.  Modules that touch nothing of this state are left     *)
(* out; what depends on them is ordered by the modules they depend on.     *)
(***************************************************************************)
EXTENDS Naturals, Sequences, FiniteSetsExt, SequencesExt

CONSTANTS
    PAGE,       \* size of a page, in the unit in which tables are placed
    Rsdt        \* root tables: sequences of [sig, at, len, valid, seen]

ASSUME PageAssumption == PAGE \in Nat \ {0}
ASSUME RsdtAssumption ==
    Rsdt \subseteq Seq([sig : STRING, at : Nat, len : Nat \ {0}, valid : BOOLEAN, seen : BOOLEAN])

\* module_depends of each module.
depends ==
    [gdt     |-> {},
     panic   |-> {},
     idt     |-> {"gdt"},
     isr     |-> {"idt", "panic"},
     irq     |-> {"idt"},
     paging  |-> {"panic", "idt", "isr"},
     cpu     |-> {"paging", "idt", "isr"},
     acpi    |-> {"paging", "idt", "isr"},
     apic    |-> {"acpi", "isr", "irq", "cpu", "paging"},
     pit     |-> {"irq"},
     timer   |-> {"pit", "apic", "irq"},
     tasking |-> {"gdt", "timer", "irq"},
     syscall |-> {"tasking", "irq", "idt"},
     init    |-> {"syscall", "panic"}]

Module == DOMAIN depends

\* A machine.  The root table lists tables with their signature, place, length and
\* checksum; seen tells whether the entry lies in the page in which the root table
\* begins, the only one load_rsdt maps.  cpuid tells whether the instruction works,
\* and wrmsr how many of the two writes of apic_enable do: they fault without an
\* APIC, and also if what the compiler has in the registers cpu_write_msr does not
\* load is refused.
Machine ==
    {h \in [cpuid : BOOLEAN, msr : BOOLEAN, apic : BOOLEAN, wrmsr : 0 .. 2,
            rsdp : {"none", "bad", "ok"}, rsdt : Rsdt] :
        (h.wrmsr > 0 => h.msr /\ h.apic) /\ (h.msr \/ h.apic => h.cpuid)}

UD == 6
GP == 13
PF == 14
SYSCALL == 77
Vector == {UD, GP, PF, 32, 33, 40, SYSCALL, 255}
Device == {1, 8}                \* interrupt requests that no module handles
SPURIOUS == 223

VARIABLES
    hw,             \* the machine
    loaded,         \* modules whose load function has returned
    at,             \* the step a load function has reached, or "idle"
    state,          \* "running", "panic", or "reset" for a fault without a gate
    idt,            \* per vector, the stub it enters: "none", "isr", "irq", "syscall"
    handlers,       \* of isr/main.c: vectors that have one
    timer_hooked,   \* _handlers[0] of irq/main.c is timer_interrupt
    intr,           \* the interrupt flag and interrupt_disable_depth
    dev,            \* requests in service at the PIC and the APIC, timer armed
    lint0,          \* the APIC lets the PIC through
    tables,         \* rsdt_ptrs: signature and checksum of what is found there
    cpuid_supported, msr_supported, apic_registry, apic_enabled,
    apic,           \* the timer uses the APIC
    clocks          \* clock_hooks

load  == <<loaded, at>>
cpu   == <<cpuid_supported, msr_supported>>
lapic == <<apic_registry, apic_enabled, lint0>>
tick  == <<timer_hooked, dev, apic, clocks>>
vars  == <<hw, load, state, idt, handlers, intr, tables, cpu, lapic, tick>>

\* The firmware leaves the PIT ticking and the kernel keeps interrupts off.
Init ==
    /\ hw \in Machine
    /\ loaded = {} /\ at = "idle" /\ state = "running"
    /\ idt = [v \in Vector |-> "none"]
    /\ handlers = {}
    /\ timer_hooked = FALSE
    /\ intr = [on |-> FALSE, depth |-> 0]
    /\ dev = [pic |-> {}, apic |-> FALSE, armed |-> TRUE]
    /\ lint0 = TRUE
    /\ tables = <<>>
    /\ cpuid_supported = TRUE /\ msr_supported = TRUE
    /\ apic_registry = FALSE /\ apic_enabled = TRUE
    /\ apic = FALSE /\ clocks = 0

CanLoad(m) == state = "running" /\ at = "idle" /\ m \notin loaded /\ depends[m] \subseteq loaded
In(step)   == state = "running" /\ at = step
Done(m)    == loaded' = loaded \cup {m} /\ at' = "idle"
Goto(step) == at' = step /\ UNCHANGED loaded

\* An exception no handler takes care of ends in __panic, as does pfHandler.
Fault(v) == state' = IF idt[v] = "none" THEN "reset" ELSE "panic"

-----------------------------------------------------------------------------
(* Processor tables and interrupts.                                        *)

\* The segments and the task state of gdt_init are module Contexts'.
Plain(m) ==
    /\ CanLoad(m) /\ Done(m)
    /\ UNCHANGED <<hw, state, idt, handlers, intr, tables, cpu, lapic, tick>>

gdt_init   == Plain("gdt")
panic_init == Plain("panic")

\* idt_createEntry for the vectors of a set.
idt_createEntry(vectors, stub) == [v \in Vector |-> IF v \in vectors THEN stub ELSE idt[v]]

idt_init ==
    /\ CanLoad("idt") /\ Done("idt")
    /\ idt' = idt_createEntry(Vector, "none")
    /\ UNCHANGED <<hw, state, handlers, intr, tables, cpu, lapic, tick>>

isr_init ==
    /\ CanLoad("isr") /\ Done("isr")
    /\ idt' = idt_createEntry({v \in Vector : v < 32}, "isr")
    /\ UNCHANGED <<hw, state, handlers, intr, tables, cpu, lapic, tick>>

disable_interrupts(i) == [on |-> i.depth >= 1 /\ i.on, depth |-> i.depth + 1]

enable_interrupts(i) ==
    [on |-> i.depth <= 1 \/ i.on, depth |-> IF i.depth > 0 THEN i.depth - 1 ELSE 0]

\* Mutant: gates for one PIC.
Bug_IrqGates == idt_createEntry({v \in Vector : v >= 32 /\ v < 40}, "irq")

\* irq_init has a gate for every vector from 32, the one of system calls too.
IrqGates == idt_createEntry({v \in Vector : v >= 32}, "irq")

\* The command words start both PICs with nothing in service.
irq_init ==
    /\ CanLoad("irq") /\ Done("irq")
    /\ idt' = IrqGates
    /\ dev' = [dev EXCEPT !.pic = {}]
    /\ intr' = enable_interrupts(intr)
    /\ UNCHANGED <<hw, state, handlers, tables, cpu, lapic, timer_hooked, apic, clocks>>

\* isr_addHandler with a function, and with 0.
isr_addHandler(v)    == handlers \cup {v}
isr_removeHandler(v) == handlers \ {v}

paging_init ==
    /\ CanLoad("paging") /\ Done("paging")
    /\ handlers' = isr_addHandler(PF)
    /\ UNCHANGED <<hw, state, idt, intr, tables, cpu, lapic, tick>>

\* The gate of system calls replaces one of irq_init.
syscall_init ==
    /\ CanLoad("syscall") /\ Done("syscall")
    /\ idt' = idt_createEntry({SYSCALL}, "syscall")
    /\ UNCHANGED <<hw, state, handlers, intr, tables, cpu, lapic, tick>>

-----------------------------------------------------------------------------
(* Processor, ACPI and APIC.                                               *)

\* cpu_init up to cpuid.  Without the instruction _invl_opcode_hook returns to it.
cpu_init ==
    /\ CanLoad("cpu") /\ Goto("cpuid")
    /\ handlers' = isr_addHandler(UD)
    /\ UNCHANGED <<hw, state, idt, intr, tables, cpu, lapic, tick>>

_invl_opcode_hook ==
    /\ In("cpuid") /\ ~hw.cpuid
    /\ cpuid_supported' = FALSE
    /\ UNCHANGED <<hw, load, state, idt, handlers, intr, tables, msr_supported, lapic, tick>>

\* The rest of cpu_init, with cpu_chk_msr.
cpu_chk_msr ==
    /\ In("cpuid") /\ hw.cpuid
    /\ Done("cpu")
    /\ handlers' = isr_removeHandler(UD)
    /\ msr_supported' = hw.msr
    /\ UNCHANGED <<hw, state, idt, intr, tables, cpuid_supported, lapic, tick>>

\* load_rsdp finds the descriptor and its checksum is right.
load_rsdp == hw.rsdp = "ok"

\* The addresses load_rsdt maps: whole pages from the lowest table to the page in
\* which the highest begins, as far as it sees their entries.
RsdtMapped ==
    LET starts == {hw.rsdt[i].at : i \in {j \in DOMAIN hw.rsdt : hw.rsdt[j].seen}}
        min_range == (Min(starts) \div PAGE) * PAGE
    IN  min_range .. (Max(starts) \div PAGE + 1) * PAGE - 1

\* validate_acpi_table reads the whole table.
Cut(t) == ~(t.at .. t.at + t.len - 1 \subseteq RsdtMapped)

\* A table load_rsdt cannot read whole, or does not see the entry of.
Missed(t) == t.seen => Cut(t)

\* The rest of load_rsdt.  What lies behind the mapped pages in the heap is not a
\* table with a checksum, and as the rest of the root table it points to none, but
\* may make the range that is mapped wider.
load_rsdt(wide) ==
    [i \in DOMAIN hw.rsdt |->
        LET t == hw.rsdt[i]
        IN  [sig   |-> IF t.seen THEN t.sig ELSE "",
             valid |-> t.valid /\ t.seen /\ (wide \/ ~Cut(t))]]

\* acpi_init.  Behind the mapped pages there may also be nothing mapped at all.
acpi_init ==
    /\ CanLoad("acpi")
    /\ \/ /\ load_rsdp /\ \E i \in DOMAIN hw.rsdt : Missed(hw.rsdt[i])
          /\ Fault(PF)
          /\ UNCHANGED <<load, tables>>
       \/ /\ Done("acpi")
          /\ \E wide \in BOOLEAN :
                /\ wide => \E i \in DOMAIN hw.rsdt : ~hw.rsdt[i].seen
                /\ tables' = IF load_rsdp THEN load_rsdt(wide) ELSE <<>>
          /\ UNCHANGED state
    /\ UNCHANGED <<hw, idt, handlers, intr, cpu, lapic, tick>>

\* rsdt_find_table and the test of the checksum in acpi_find_madt.
acpi_find_madt ==
    LET i == SelectInSeq(tables, LAMBDA t : t.sig = "APIC") IN i # 0 /\ tables[i].valid

\* Without a MADT apic_init returns at once.  apic_setup maps the registers of an
\* APIC the processor has.
apic_init ==
    /\ CanLoad("apic")
    /\ IF ~acpi_find_madt THEN Done("apic") /\ UNCHANGED apic_registry
       ELSE Goto("apic_enable") /\ apic_registry' = hw.apic
    /\ UNCHANGED <<hw, state, idt, handlers, intr, tables, cpu, apic_enabled, lint0, tick>>

\* Mutant: the PIC is shut out before the register is written.
Bug_apic_enable ==
    /\ In("apic_enable")
    /\ IF ~hw.msr THEN Fault(UD) /\ UNCHANGED <<load, handlers, apic_enabled>>
       ELSE /\ Done("apic")
            /\ handlers' = isr_removeHandler(GP)
            /\ apic_enabled' = (apic_enabled /\ hw.wrmsr = 2)
            /\ UNCHANGED state
    /\ lint0' = FALSE
    /\ UNCHANGED <<hw, idt, intr, tables, cpu, apic_registry, tick>>

\* Mutant: _gpf_apic_chk returns to the instruction.
Stuck_apic_enable ==
    /\ In("apic_enable")
    /\ IF ~hw.msr THEN Fault(UD) /\ UNCHANGED <<load, apic_enabled, lint0>>
       ELSE /\ IF hw.wrmsr = 2 THEN Done("apic") ELSE UNCHANGED load
            /\ apic_enabled' = (apic_enabled /\ hw.wrmsr = 2)
            /\ lint0' = (hw.wrmsr = 0)
            /\ UNCHANGED state
    /\ UNCHANGED <<hw, idt, handlers, intr, tables, cpu, apic_registry, tick>>

\* A general protection fault in apic_enable is _gpf_apic_chk's, which goes on
\* behind the instruction; a processor without such registers knows no wrmsr.
\* Between the two writes the APIC is set up, which shuts out the PIC.
apic_enable ==
    /\ In("apic_enable")
    /\ IF ~hw.msr THEN Fault(UD) /\ UNCHANGED <<load, handlers, apic_enabled, lint0>>
       ELSE /\ Done("apic")
            /\ handlers' = isr_removeHandler(GP)
            /\ apic_enabled' = (apic_enabled /\ hw.wrmsr = 2)
            /\ lint0' = (hw.wrmsr = 0)
            /\ UNCHANGED state
    /\ UNCHANGED <<hw, idt, intr, tables, cpu, apic_registry, tick>>

-----------------------------------------------------------------------------
(* Timer.                                                                  *)

\* Interrupts are off while the two bytes of the count are written.
pit_init ==
    /\ CanLoad("pit") /\ Done("pit")
    /\ intr' = enable_interrupts(disable_interrupts(intr))
    /\ UNCHANGED <<hw, state, idt, handlers, tables, cpu, lapic, tick>>

\* timer_set: a count of 0 stops the APIC and is the largest count of the PIT.
timer_set(d, count) == [d EXCEPT !.armed = count > 0 \/ ~apic]

\* timer_init up to clock_hooks: the APIC is measured, with a count that takes too
\* long to end, or the PIT is given its mode, which stops it.
timer_init ==
    /\ CanLoad("timer")
    /\ IF apic_enabled /\ ~apic_registry THEN Fault(PF) /\ UNCHANGED <<load, dev, apic>>
       ELSE /\ Goto("clock_hooks")
            /\ apic' = apic_enabled
            /\ dev' = [dev EXCEPT !.armed = FALSE]
            /\ UNCHANGED state
    /\ UNCHANGED <<hw, idt, handlers, intr, tables, cpu, lapic, timer_hooked, clocks>>

irq_addHandler ==
    /\ In("clock_hooks") /\ Goto("one_tick")
    /\ timer_hooked' = TRUE
    /\ UNCHANGED <<hw, state, idt, handlers, intr, tables, cpu, lapic, dev, apic, clocks>>

\* timer_add_clock; the periods are those of module TimerHooks.
timer_add_clock ==
    /\ clocks' = clocks + 1
    /\ dev' = timer_set(dev, clocks + 1)

one_tick ==
    /\ In("one_tick") /\ Done("timer")
    /\ timer_add_clock
    /\ UNCHANGED <<hw, state, idt, handlers, intr, tables, cpu, lapic, timer_hooked, apic>>

tasking_init ==
    /\ CanLoad("tasking") /\ Done("tasking")
    /\ timer_add_clock
    /\ UNCHANGED <<hw, state, idt, handlers, intr, tables, cpu, lapic, timer_hooked, apic>>

\* The first process is spawned; what follows is module Ipc.
init_init == Plain("init")

-----------------------------------------------------------------------------
(* Interrupts.                                                             *)

\* An end of interrupt to the slave, or to the master, takes the request of highest
\* priority there.
EOI(pic, port) ==
    LET there == IF port = 160 THEN {n \in pic : n >= 8} ELSE {n \in pic : n < 8}
    IN  IF there = {} THEN pic ELSE pic \ {Min(there)}

\* Mutant: always to the PIC.
Bug_timer_ack(d) == [d EXCEPT !.pic = EOI(@, 32)]

timer_ack(d) == IF apic THEN [d EXCEPT !.apic = FALSE] ELSE [d EXCEPT !.pic = EOI(@, 32)]

\* _irq_handler on request n; the hooks of timer_interrupt are module TimerHooks'.
_irq_handler(d, n) ==
    IF n = 0 /\ timer_hooked THEN timer_ack(timer_set(d, clocks))
    ELSE IF n >= 16 THEN d
    ELSE [d EXCEPT !.pic = EOI(IF n >= 8 THEN EOI(@, 160) ELSE @, 32)]

\* A request enters the gate of its vector; the handler runs with interrupts off.
Interrupt(n, d) ==
    /\ state = "running" /\ intr.on
    /\ IF idt[n + 32] = "none" THEN state' = "reset" /\ UNCHANGED dev
       ELSE dev' = _irq_handler(d, n) /\ UNCHANGED state
    /\ UNCHANGED <<hw, load, idt, handlers, intr, tables, cpu, lapic, timer_hooked, apic, clocks>>

\* The PIC raises n if nothing of its priority is in service; the slave is request 2
\* of the master.
PicRaises(n) ==
    LET serving == IF n >= 8 THEN {2, n} ELSE {n}
    IN  /\ lint0
        /\ \A k \in dev.pic : k > Min(serving)
        /\ n = 0 => dev.armed
        /\ Interrupt(n, [dev EXCEPT !.pic   = @ \cup serving,
                                    !.armed = @ /\ ~(n = 0 /\ timer_hooked)])

ApicTimer ==
    /\ apic /\ dev.armed /\ ~dev.apic
    /\ Interrupt(0, [dev EXCEPT !.apic = TRUE, !.armed = FALSE])

\* A spurious interrupt of the APIC is not in service anywhere.
ApicSpurious == ~lint0 /\ Interrupt(SPURIOUS, dev)

-----------------------------------------------------------------------------
Load ==
    \/ gdt_init \/ panic_init \/ idt_init \/ isr_init \/ irq_init \/ paging_init
    \/ cpu_init \/ cpu_chk_msr \/ acpi_init \/ apic_init \/ apic_enable
    \/ pit_init \/ timer_init \/ irq_addHandler \/ one_tick
    \/ tasking_init \/ syscall_init \/ init_init

\* The machine stands still, or only its interrupts go on.
Rest == (state # "running" \/ loaded = Module) /\ UNCHANGED vars

Next ==
    \/ Load
    \/ _invl_opcode_hook
    \/ \E n \in {0} \cup Device : PicRaises(n)
    \/ ApicTimer
    \/ ApicSpurious
    \/ Rest

Spec == Init /\ [][Next]_vars

\* The loader goes on: interrupts come, but the processor is not kept busy by them.
LiveSpec == Spec /\ WF_vars(Load)

-----------------------------------------------------------------------------
(* Properties.                                                             *)

\* Type invariant.
TypeOK ==
    /\ hw \in Machine
    /\ loaded \subseteq Module
    /\ at \in {"idle", "cpuid", "apic_enable", "clock_hooks", "one_tick"}
    /\ idt \in [Vector -> {"none", "isr", "irq", "syscall"}]
    /\ handlers \subseteq {UD, PF}
    /\ dev.pic \subseteq {0, 2} \cup Device
    /\ clocks \in 0 .. 2

\* The processor has what the modules need, the firmware describes the APIC, and
\* neither the root table nor one it lists reaches past the pages load_rsdt maps.
\* The APIC itself may be refused: then the PIC and the PIT serve.
Supported ==
    /\ hw.cpuid /\ hw.msr /\ load_rsdp
    /\ \A i \in DOMAIN hw.rsdt : ~Missed(hw.rsdt[i])
    /\ LET i == SelectInSeq(hw.rsdt, LAMBDA t : t.sig = "APIC") IN i # 0 /\ hw.rsdt[i].valid

\* On a supported machine no order of loading and no interrupt in between ends in a
\* panic or a fault without a gate.
SupportedRuns == Supported => state = "running"

\* Between interrupts no request is left in service, at the PIC or at the APIC,
\* whichever the timer uses and whether the timer has been hooked yet: a request
\* left there would keep out all later ones.  And every value has its type.
NoneInService == TypeOK /\ dev.pic = {} /\ ~dev.apic

\* Once the timer module is loaded its next interrupt is set and can get through,
\* from the APIC or, if that was refused at once, from the PIT through the PIC.
TimerGetsThrough ==
    "timer" \in loaded /\ state = "running" /\ hw.wrmsr # 1 =>
        dev.armed /\ intr.on /\ (apic \/ lint0)

\* A supported machine starts the first process.
SystemStarts == Supported ~> "init" \in loaded

\* apic/main.c: "ACPI does not have MADT. Reverting to normal PIC".  A processor
\* with all that is needed comes up without the APIC when the firmware has no
\* table for it.
RevertsToPic == (hw.cpuid /\ hw.msr /\ hw.rsdp = "none") => state = "running"

\* _gpf_apic_chk: "Modules do not support this specific APIC setup": then the timer
\* has the PIT, and whenever it finds out the PIT gets through.
RefusedIsUndone == "timer" \in loaded /\ state = "running" => apic \/ lint0

\* cpu/main.c: "CPU does not support instruction CPUID!": the start goes on.
GoesOnWithoutCpuid == ~hw.cpuid ~> at # "cpuid"
=============================================================================
