--------------------------- MODULE StartupProofs ---------------------------
(***************************************************************************)
(* Safety of the start of the system, for every machine and every set of   *)
(* root tables.  The invariant follows the order in which modules may load:*)
(* what has been loaded determines which gates exist, whether interrupts   *)
(* are on, who serves the timer and whether its next interrupt is set.     *)
(***************************************************************************)
EXTENDS Startup, TLAPS, WellFoundedInduction

\* The devices between interrupts and, with a request in service, during one.
DevType == [pic : SUBSET Nat, apic : BOOLEAN, armed : BOOLEAN]

\* Every value has its type; nothing is in service; interrupts are on from irq_init on.
Types ==
    /\ TypeOK
    /\ dev \in DevType /\ dev.pic = {} /\ dev.apic = FALSE
    /\ intr.on <=> "irq" \in loaded
    /\ intr.depth = 0
    /\ lint0 \in BOOLEAN /\ apic \in BOOLEAN /\ timer_hooked \in BOOLEAN
    /\ apic_registry \in BOOLEAN /\ apic_enabled \in BOOLEAN

\* Modules are loaded after the ones they depend on.
Order ==
    /\ \A m \in loaded : depends[m] \subseteq loaded
    /\ at = "cpuid" => depends["cpu"] \subseteq loaded /\ "cpu" \notin loaded
    /\ at = "apic_enable" => depends["apic"] \subseteq loaded /\ "apic" \notin loaded
    /\ at \in {"clock_hooks", "one_tick"} => depends["timer"] \subseteq loaded /\ "timer" \notin loaded

\* An exception has a gate once isr is loaded, a request once irq is.
Gates ==
    /\ "isr" \in loaded => \A v \in {UD, GP, PF} : idt[v] # "none"
    /\ "irq" \in loaded => \A v \in {32, 33, 40, 255} : idt[v] # "none"

\* What apic_init and apic_enable leave: with a MADT the APIC is used, and the PIC
\* shut out, as far as the machine let the registers be written; without one the
\* APIC counts as enabled, is not mapped, and the PIC gets through.
ApicState ==
    /\ "apic" \notin loaded => lint0 /\ apic_enabled /\ ~apic
    /\ at = "apic_enable" => acpi_find_madt /\ (apic_registry <=> hw.apic)
    /\ "apic" \notin loaded /\ at # "apic_enable" => ~apic_registry
    /\ "apic" \in loaded =>
          \/ acpi_find_madt /\ (apic_registry <=> hw.apic)
             /\ (apic_enabled <=> hw.wrmsr = 2) /\ (lint0 <=> hw.wrmsr = 0)
          \/ ~acpi_find_madt /\ ~apic_registry /\ apic_enabled /\ lint0
    /\ apic => apic_enabled /\ apic_registry

\* The timer is hooked before it is armed by the APIC, and stays armed once loaded.
TimerState ==
    /\ timer_hooked <=> at = "one_tick" \/ "timer" \in loaded
    /\ apic /\ ~timer_hooked => ~dev.armed
    /\ at \in {"clock_hooks", "one_tick"} \/ "timer" \in loaded => (apic <=> apic_enabled)
    /\ "timer" \in loaded => dev.armed /\ clocks > 0
    /\ "timer" \notin loaded => clocks = 0
    /\ "tasking" \notin loaded => clocks < 2

\* A supported machine runs and finds its MADT.
Running ==
    /\ Supported => state = "running"
    /\ Supported /\ "acpi" \in loaded => acpi_find_madt

IInv == Types /\ Order /\ Gates /\ ApicState /\ TimerState /\ Running

-----------------------------------------------------------------------------
\* The entries of depends.
LEMMA Depends ==
    /\ depends["gdt"] = {} /\ depends["panic"] = {} /\ depends["idt"] = {"gdt"}
    /\ depends["isr"] = {"idt", "panic"} /\ depends["irq"] = {"idt"}
    /\ depends["paging"] = {"panic", "idt", "isr"}
    /\ depends["cpu"] = {"paging", "idt", "isr"}
    /\ depends["acpi"] = {"paging", "idt", "isr"}
    /\ depends["apic"] = {"acpi", "isr", "irq", "cpu", "paging"}
    /\ depends["pit"] = {"irq"} /\ depends["timer"] = {"pit", "apic", "irq"}
    /\ depends["tasking"] = {"gdt", "timer", "irq"}
    /\ depends["syscall"] = {"tasking", "irq", "idt"}
    /\ depends["init"] = {"syscall", "panic"}
  BY DEF depends

\* The names of the modules.
LEMMA Modules ==
    Module = {"gdt", "panic", "idt", "isr", "irq", "paging", "cpu", "acpi", "apic",
              "pit", "timer", "tasking", "syscall", "init"}
  BY DEF Module, depends

\* The least element of a set of one.
LEMMA MinSingle == \A x \in Nat : Min({x}) = x
  BY DEF Min

\* A set of naturals that is not empty has a least element, which Min selects.
LEMMA LeastNat ==
    ASSUME NEW S \in SUBSET Nat, S # {}
    PROVE  Min(S) \in S
<1> DEFINE R == OpToRel(<, Nat)
<1>1. IsWellFoundedOn(R, Nat)
  BY NatLessThanWellFounded
<1> HIDE DEF R
<1>2. \E x \in S : \A y \in S : ~ (<<y, x>> \in R)
  BY <1>1, WFMin, Zenon
<1>3. PICK x \in S : \A y \in S : ~ (<<y, x>> \in R)
  BY <1>2
<1>4. \A y \in S : y < x => <<y, x>> \in R
  BY DEF R, OpToRel
<1>5. \A y \in S : ~(y < x)
  BY <1>3, <1>4
<1>6. \A y \in S : y \in Nat
  OBVIOUS
<1>7. \A y \in S : x <= y
  BY <1>5, <1>6
<1> QED BY <1>7 DEF Min

\* The ends of interrupt of _irq_handler clear what one request put in service.
LEMMA EoiOne ==
    /\ EOI({0}, 32) = {} /\ EOI({1}, 32) = {} /\ EOI(EOI({2, 8}, 160), 32) = {}
<1>1. EOI({0}, 32) = {}
  <2>1. {k \in {0} : k < 8} = {0}
    OBVIOUS
  <2> QED BY <2>1, MinSingle DEF EOI
<1>2. EOI({1}, 32) = {}
  <2>1. {k \in {1} : k < 8} = {1}
    OBVIOUS
  <2> QED BY <2>1, MinSingle DEF EOI
<1>3. EOI({2, 8}, 160) = {2}
  <2>1. {k \in {2, 8} : k >= 8} = {8}
    OBVIOUS
  <2> QED BY <2>1, MinSingle DEF EOI
<1>4. EOI({2}, 32) = {}
  <2>1. {k \in {2} : k < 8} = {2}
    OBVIOUS
  <2> QED BY <2>1, MinSingle DEF EOI
<1> QED BY <1>1, <1>2, <1>3, <1>4

\* The invariant holds at the start.
LEMMA InitInv == Init => IInv
<1> SUFFICES ASSUME Init PROVE IInv
  OBVIOUS
<1> USE DEF Init
<1>1. Types
  <2>1. TypeOK
    BY DEF TypeOK
  <2>2. dev \in DevType /\ dev.pic = {} /\ dev.apic = FALSE
    BY DEF DevType
  <2> QED BY <2>1, <2>2 DEF Types
<1>2. Order
  BY DEF Order
<1>3. Gates
  BY DEF Gates
<1>4. ApicState
  BY DEF ApicState
<1>5. TimerState
  BY DEF TimerState
<1>6. Running
  BY DEF Running
<1> QED BY <1>1, <1>2, <1>3, <1>4, <1>5, <1>6 DEF IInv

\* acpi_find_madt reads only the tables.
LEMMA SameTables ==
    ASSUME tables' = tables PROVE acpi_find_madt' = acpi_find_madt
  BY DEF acpi_find_madt, SelectInSeq

\* Supported reads only the machine.
LEMMA SameMachine ==
    ASSUME hw' = hw PROVE Supported' = Supported
  BY DEF Supported, load_rsdp, Missed, Cut, RsdtMapped, SelectInSeq


\* At depth 0, enable_interrupts and a nested pair leave interrupts on at depth 0.
LEMMA EnableOn ==
    ASSUME NEW i, i.depth = 0
    PROVE  /\ enable_interrupts(i).on /\ enable_interrupts(i).depth = 0
           /\ enable_interrupts(disable_interrupts(i)).on
           /\ enable_interrupts(disable_interrupts(i)).depth = 0
<1>1. enable_interrupts(i).on = (i.depth <= 1 \/ i.on)
  BY Zenon DEF enable_interrupts
<1>2. enable_interrupts(i).on
  <2>1. i.depth <= 1
    OBVIOUS
  <2> QED BY <1>1, <2>1, Zenon
<1>3. enable_interrupts(i).depth = 0
  BY DEF enable_interrupts
<1>4. disable_interrupts(i).depth = 1
  BY DEF disable_interrupts
<1> DEFINE j == disable_interrupts(i)
<1> HIDE DEF j
<1>5. enable_interrupts(j).on = (j.depth <= 1 \/ j.on)
  BY Zenon DEF enable_interrupts
<1>6. enable_interrupts(j).depth = 0
  BY <1>4 DEF enable_interrupts, j
<1>7. enable_interrupts(j).on
  <2>1. j.depth <= 1
    BY <1>4 DEF j
  <2> QED BY <1>5, <2>1, Zenon
<1> QED BY <1>2, <1>3, <1>6, <1>7, Zenon DEF j

\* An assignment to pic leaves the other fields of the devices alone.
LEMMA DevPic ==
    ASSUME NEW d \in DevType, NEW p \in SUBSET Nat
    PROVE  LET e == [d EXCEPT !.pic = p]
           IN  e \in DevType /\ e.pic = p /\ e.apic = d.apic /\ e.armed = d.armed
  BY DEF DevType

\* The same for armed.
LEMMA DevArmed ==
    ASSUME NEW d \in DevType, NEW b \in BOOLEAN
    PROVE  LET e == [d EXCEPT !.armed = b]
           IN  e \in DevType /\ e.pic = d.pic /\ e.apic = d.apic /\ e.armed = b
  BY DEF DevType

\* The same for apic.
LEMMA DevApic ==
    ASSUME NEW d \in DevType, NEW b \in BOOLEAN
    PROVE  LET e == [d EXCEPT !.apic = b]
           IN  e \in DevType /\ e.pic = d.pic /\ e.apic = b /\ e.armed = d.armed
  BY DEF DevType

\* The fields of a machine.
LEMMA MachineFacts ==
    ASSUME hw \in Machine
    PROVE  /\ hw.apic \in BOOLEAN /\ hw.msr \in BOOLEAN
           /\ hw.wrmsr \in 0 .. 2 /\ (hw.wrmsr > 0 => hw.msr /\ hw.apic)
           /\ hw.rsdt \in Rsdt
  BY DEF Machine

\* On a supported machine load_rsdt finds every table as it is.
LEMMA ReadsAll ==
    ASSUME hw \in Machine, Supported, NEW wide \in BOOLEAN
    PROVE  load_rsdt(wide) = [i \in DOMAIN hw.rsdt |->
                                 [sig |-> hw.rsdt[i].sig, valid |-> hw.rsdt[i].valid]]
<1> DEFINE T == [sig : STRING, at : Nat, len : Nat \ {0}, valid : BOOLEAN, seen : BOOLEAN]
<1>1. hw.rsdt \in Seq(T)
  BY RsdtAssumption, MachineFacts
<1>2. \A i \in DOMAIN hw.rsdt : hw.rsdt[i].valid \in BOOLEAN
  <2>1. \A i \in DOMAIN hw.rsdt : hw.rsdt[i] \in T
    <3> HIDE DEF T
    <3> QED BY <1>1
  <2>2. \A t \in T : t.valid \in BOOLEAN
    OBVIOUS
  <2> HIDE DEF T
  <2> QED BY <2>1, <2>2
<1>3. \A i \in DOMAIN hw.rsdt : hw.rsdt[i].seen /\ ~Cut(hw.rsdt[i])
  BY DEF Supported, Missed
<1>4. \A i \in DOMAIN hw.rsdt :
          /\ (hw.rsdt[i].valid /\ hw.rsdt[i].seen /\ (wide \/ ~Cut(hw.rsdt[i]))) = hw.rsdt[i].valid
          /\ (IF hw.rsdt[i].seen THEN hw.rsdt[i].sig ELSE "") = hw.rsdt[i].sig
  BY <1>2, <1>3, Zenon
<1> QED BY <1>4, Zenon DEF load_rsdt

\* On a supported machine the tables acpi_init keeps have a MADT that is valid.
LEMMA FindsMadt ==
    ASSUME hw \in Machine, Supported,
           tables' = [i \in DOMAIN hw.rsdt |->
                         [sig |-> hw.rsdt[i].sig, valid |-> hw.rsdt[i].valid]]
    PROVE  acpi_find_madt'
<1> DEFINE T == [sig : STRING, at : Nat, len : Nat \ {0}, valid : BOOLEAN, seen : BOOLEAN]
           I == {i \in 1 .. Len(hw.rsdt) : hw.rsdt[i].sig = "APIC"}
<1>1. hw.rsdt \in Seq(T)
  BY RsdtAssumption, MachineFacts
<1>2. DOMAIN hw.rsdt = 1 .. Len(hw.rsdt) /\ Len(hw.rsdt) \in Nat
  BY <1>1
<1>3. I # {} /\ hw.rsdt[Min(I)].valid
  BY <1>2 DEF Supported, SelectInSeq
<1>4. Min(I) \in I
  <2>1. I \in SUBSET Nat /\ I # {}
    BY <1>2, <1>3
  <2> HIDE DEF I
  <2> QED BY <2>1, LeastNat
<1>5. DOMAIN (tables') = 1 .. Len(hw.rsdt)
  BY <1>2
<1>6. Len(tables') = Len(hw.rsdt)
  BY <1>2, <1>5
<1>7. \A i \in 1 .. Len(hw.rsdt) : tables'[i].sig = hw.rsdt[i].sig
  BY <1>2
<1>8. {i \in 1 .. Len(tables') : tables'[i].sig = "APIC"} = I
  BY <1>6, <1>7
<1>9. tables'[Min(I)].valid = hw.rsdt[Min(I)].valid
  BY <1>2, <1>4, Zenon
<1>10. tables'[Min(I)].valid
  BY <1>3, <1>4, <1>9, Zenon
<1>11. Min(I) # 0
  BY <1>4
<1> HIDE DEF I
<1> QED BY <1>3, <1>8, <1>10, <1>11 DEF acpi_find_madt, SelectInSeq
\* _irq_handler on a request of the PIC leaves nothing in service.
LEMMA HandlerServes ==
    ASSUME IInv, NEW n \in {0, 1, 8}, lint0,
           NEW d \in DevType, d.apic = FALSE,
           d.pic = IF n >= 8 THEN {2, n} ELSE {n}
    PROVE  LET e == _irq_handler(d, n)
           IN  /\ e \in DevType /\ e.pic = {} /\ e.apic = FALSE
               /\ e.armed = IF n = 0 /\ timer_hooked THEN clocks > 0 \/ ~apic ELSE d.armed
<1>1. ~apic
  <2>1. hw \in Machine /\ ApicState
    BY DEF IInv, Types, TypeOK
  <2> QED BY <2>1, MachineFacts DEF ApicState
<1>2. CASE n = 0 /\ timer_hooked
  <2> DEFINE f == timer_set(d, clocks)
  <2>1. f = [d EXCEPT !.armed = clocks > 0 \/ ~apic]
    BY DEF timer_set
  <2>2. f \in DevType /\ f.pic = {0} /\ f.apic = FALSE /\ f.armed = (clocks > 0 \/ ~apic)
    <3> DEFINE b == clocks > 0 \/ ~apic
    <3>1. b \in BOOLEAN
      OBVIOUS
    <3>2. d.pic = {0}
      BY <1>2
    <3> HIDE DEF b
    <3>3. f = [d EXCEPT !.armed = b]
      BY <2>1 DEF b
    <3>4. f \in DevType /\ f.pic = {0} /\ f.apic = FALSE /\ f.armed = b
      BY <3>1, <3>2, <3>3, DevArmed
    <3> QED BY <3>4 DEF b
  <2> HIDE DEF f
  <2>3. _irq_handler(d, n) = [f EXCEPT !.pic = {}]
    BY <1>1, <1>2, <2>2, EoiOne DEF _irq_handler, timer_ack, f
  <2>4. LET e == _irq_handler(d, n)
        IN  e \in DevType /\ e.pic = {} /\ e.apic = FALSE /\ e.armed = f.armed
    BY <2>2, <2>3, DevPic
  <2> QED BY <1>2, <2>2, <2>4
<1>3. CASE ~(n = 0 /\ timer_hooked)
  <2>1. _irq_handler(d, n) = [d EXCEPT !.pic = {}]
    <3>1. CASE n = 8
      BY <3>1, <1>3, EoiOne DEF _irq_handler
    <3>2. CASE n = 1
      BY <3>2, <1>3, EoiOne DEF _irq_handler
    <3>3. CASE n = 0
      BY <3>3, <1>3, EoiOne DEF _irq_handler
    <3> QED BY <3>1, <3>2, <3>3
  <2> QED BY <1>3, <2>1, DevPic
<1> QED BY <1>2, <1>3

\* All but the devices is left alone.
Quiet ==
    UNCHANGED <<hw, loaded, at, state, idt, handlers, intr, tables, apic_registry, apic_enabled,
                lint0, timer_hooked, apic, clocks>>

\* A request that is served, or no request, keeps the invariant.
LEMMA ServedInv ==
    ASSUME IInv, Quiet,
           dev' \in DevType, dev'.pic = {}, dev'.apic = FALSE,
           dev'.armed = dev.armed \/ (timer_hooked /\ dev'.armed = (clocks > 0 \/ ~apic))
    PROVE  IInv'
<1>1. acpi_find_madt' = acpi_find_madt /\ Supported' = Supported
  BY SameTables, SameMachine DEF Quiet
<1> USE DEF IInv, Quiet
<1>2. Types'
  BY DEF Types, TypeOK
<1>3. Order' /\ Gates'
  BY DEF Order, Gates
<1>4. ApicState' /\ Running'
  BY <1>1 DEF ApicState, Running
<1>5. TimerState'
  BY DEF TimerState, Types, TypeOK
<1> QED BY <1>2, <1>3, <1>4, <1>5

\* Every step keeps the invariant.
LEMMA StepInv == IInv /\ [Next]_vars => IInv'
<1> SUFFICES ASSUME IInv, [Next]_vars PROVE IInv'
  OBVIOUS
<1>0. Types /\ Order /\ Gates /\ ApicState /\ TimerState /\ Running
  BY DEF IInv
<1>1. tables' = tables => acpi_find_madt' = acpi_find_madt
  BY SameTables
<1>2. hw' = hw => Supported' = Supported
  BY SameMachine
<1>3. hw \in Machine /\ loaded \subseteq Module
  BY <1>0 DEF Types, TypeOK
<1>4. hw.apic \in BOOLEAN /\ hw.wrmsr \in 0 .. 2 /\ (hw.wrmsr > 0 => hw.apic)
  BY <1>3, MachineFacts
<1> USE <1>0
<1> USE DEF CanLoad, In, Done, Goto, load, cpu, lapic, tick
<1>5. CASE gdt_init \/ panic_init \/ init_init
  <2> USE <1>5 DEF gdt_init, panic_init, init_init, Plain
  <2>1. Types'
    BY Depends, Modules, ZenonT(40) DEF Types, TypeOK, Order
  <2>2. Order' /\ Gates' /\ ApicState' /\ TimerState' /\ Running'
    BY Depends, <1>1, <1>2, <1>4 DEF Order, Gates, ApicState, TimerState, Running
  <2> QED BY <2>1, <2>2 DEF IInv
<1>6. CASE idt_init \/ isr_init \/ syscall_init
  <2> USE <1>6 DEF idt_init, isr_init, syscall_init
  <2>0. idt' \in [Vector -> {"none", "isr", "irq", "syscall"}]
    BY DEF Types, TypeOK, idt_createEntry
  <2>1. Types'
    BY <2>0, Depends, Modules, ZenonT(40) DEF Types, TypeOK, Order
  <2>2. Gates'
    BY Depends DEF Types, TypeOK, Order, Gates, idt_createEntry, Vector, UD, GP, PF, SYSCALL
  <2>3. Order' /\ ApicState' /\ TimerState' /\ Running'
    BY Depends, <1>1, <1>2, <1>4 DEF Order, ApicState, TimerState, Running
  <2> QED BY <2>1, <2>2, <2>3 DEF IInv
<1>7. CASE irq_init
  <2> USE <1>7 DEF irq_init
  <2>1. dev' \in DevType /\ dev'.pic = {} /\ dev'.apic = dev.apic /\ dev'.armed = dev.armed
    BY DevPic DEF Types
  <2>2. intr'.on /\ intr'.depth = 0
    BY EnableOn DEF Types
  <2>3. idt' \in [Vector -> {"none", "isr", "irq", "syscall"}]
    BY DEF IrqGates, idt_createEntry, Types, TypeOK
  <2>4. Types'
    BY <2>1, <2>2, <2>3, Modules DEF Types, TypeOK
  <2>5. Gates'
    BY Depends DEF Types, TypeOK, Order, Gates, IrqGates, idt_createEntry, Vector, UD, GP, PF, SYSCALL
  <2>6. Order' /\ ApicState' /\ Running'
    BY Depends, <1>1, <1>2, <1>4 DEF Order, ApicState, Running
  <2>7. TimerState'
    BY <2>1 DEF TimerState
  <2> QED BY <2>4, <2>5, <2>6, <2>7 DEF IInv
<1>8. CASE paging_init
  <2> USE <1>8 DEF paging_init
  <2>1. Types'
    BY Depends, Modules DEF Types, TypeOK, Order, isr_addHandler
  <2>2. Order' /\ Gates' /\ ApicState' /\ TimerState' /\ Running'
    BY Depends, <1>1, <1>2, <1>4 DEF Order, Gates, ApicState, TimerState, Running
  <2> QED BY <2>1, <2>2 DEF IInv
<1>9. CASE cpu_init \/ _invl_opcode_hook \/ cpu_chk_msr
  <2> USE <1>9 DEF cpu_init, _invl_opcode_hook, cpu_chk_msr
  <2>1. Types'
    BY Depends, Modules, ZenonT(40) DEF Types, TypeOK, Order, isr_addHandler, isr_removeHandler
  <2>2. Order'
    BY Depends DEF Order
  <2>3. Gates' /\ ApicState' /\ TimerState' /\ Running'
    BY <1>1, <1>2, <1>4 DEF Gates, ApicState, TimerState, Running
  <2> QED BY <2>1, <2>2, <2>3 DEF IInv
<1>10. CASE acpi_init
  <2> USE <1>10 DEF acpi_init
  <2>1. Types'
    BY Depends, Modules DEF Types, TypeOK, Order
  <2>2. Order' /\ Gates'
    BY Depends DEF Order, Gates
  <2>3. ApicState' /\ TimerState'
    BY Depends, <1>1, <1>2, <1>4 DEF Order, ApicState, TimerState
  <2>4. Running'
    <3>0. SUFFICES ASSUME Supported PROVE state' = "running" /\ ("acpi" \in loaded' => acpi_find_madt')
      BY <1>2 DEF Running
    <3>1. ~ \E i \in DOMAIN hw.rsdt : Missed(hw.rsdt[i])
      BY <3>0 DEF Supported
    <3>2. load_rsdp
      BY <3>0 DEF Supported
    <3>3. PICK wide \in BOOLEAN : tables' = load_rsdt(wide)
      BY <3>1, <3>2
    <3>4. tables' = [i \in DOMAIN hw.rsdt |->
                        [sig |-> hw.rsdt[i].sig, valid |-> hw.rsdt[i].valid]]
      BY <1>3, <3>0, <3>3, ReadsAll
    <3>5. acpi_find_madt'
      BY <1>3, <3>0, <3>4, FindsMadt
    <3> QED BY <3>0, <3>1, <3>2, <3>5 DEF Running
  <2> QED BY <2>1, <2>2, <2>3, <2>4 DEF IInv
<1>11. CASE apic_init
  <2> USE <1>11 DEF apic_init
  <2>2. Types'
    <3>0. at' \in {"idle", "apic_enable"} /\ loaded' \subseteq loaded \cup {"apic"}
      OBVIOUS
    <3>1. loaded' \in SUBSET Module /\ ("irq" \in loaded' <=> "irq" \in loaded)
      BY <3>0, Modules DEF Types, TypeOK
    <3>2. apic_registry' \in BOOLEAN
      BY <1>4 DEF Types
    <3> QED BY <3>0, <3>1, <3>2 DEF Types, TypeOK
  <2>3. Order' /\ Gates'
    BY Depends DEF Order, Gates
  <2>4. ApicState'
    BY Depends, <1>1, <1>2, <1>4 DEF Order, ApicState
  <2>5. TimerState' /\ Running'
    BY Depends, <1>1, <1>2 DEF Order, TimerState, Running, ApicState
  <2> QED BY <2>2, <2>3, <2>4, <2>5 DEF IInv
<1>12. CASE apic_enable
  <2> USE <1>12 DEF apic_enable
  <2>1. Types'
    <3>0. at' \in {"idle", "apic_enable"} /\ loaded' \subseteq loaded \cup {"apic"}
      OBVIOUS
    <3>1. loaded' \in SUBSET Module /\ ("irq" \in loaded' <=> "irq" \in loaded)
      BY <3>0, Modules DEF Types, TypeOK
    <3>2. apic_enabled' \in BOOLEAN /\ lint0' \in BOOLEAN /\ handlers' \subseteq handlers
      BY DEF Types, isr_removeHandler
    <3> QED BY <3>0, <3>1, <3>2 DEF Types, TypeOK
  <2>2. Order' /\ Gates'
    BY Depends DEF Order, Gates
  <2>3. ApicState'
    BY Depends, <1>1, <1>2, <1>4 DEF Order, ApicState, Types
  <2>4. TimerState'
    <3>1. ~(at' \in {"clock_hooks", "one_tick"} \/ "timer" \in loaded')
      BY Depends DEF Order
    <3>2. UNCHANGED <<timer_hooked, dev, clocks, apic>>
      OBVIOUS
    <3>3. "timer" \notin loaded /\ at # "one_tick" /\ ("tasking" \in loaded' <=> "tasking" \in loaded)
      BY Depends DEF Order
    <3> QED BY <3>1, <3>2, <3>3 DEF TimerState
  <2>5. Running'
    BY <1>1, <1>2 DEF Running, Supported
  <2> QED BY <2>1, <2>2, <2>3, <2>4, <2>5 DEF IInv
<1>13. CASE pit_init
  <2> USE <1>13 DEF pit_init
  <2>1. intr'.on /\ intr'.depth = 0
    BY EnableOn DEF Types
  <2>2. Types'
    BY <2>1, Depends, Modules DEF Types, TypeOK, Order
  <2>3. Order' /\ Gates' /\ ApicState' /\ TimerState' /\ Running'
    BY Depends, <1>1, <1>2, <1>4 DEF Order, Gates, ApicState, TimerState, Running
  <2> QED BY <2>2, <2>3 DEF IInv
<1>14. CASE timer_init
  <2> USE <1>14 DEF timer_init
  <2>1. /\ dev' \in DevType /\ dev'.pic = dev.pic /\ dev'.apic = dev.apic
        /\ dev'.armed = dev.armed \/ dev'.armed = FALSE
    BY DevArmed DEF Types
  <2>2. Types'
    BY <2>1, Modules DEF Types, TypeOK
  <2>3. Order' /\ Gates'
    BY Depends DEF Order, Gates
  <2>4. ApicState'
    BY Depends, <1>1, <1>2, <1>4 DEF Order, ApicState, Types
  <2>5. TimerState'
    BY DevArmed, Depends, ZenonT(40) DEF Order, TimerState, Types
  <2>6. Running'
    BY <1>4, Depends, <1>1, <1>2 DEF Running, ApicState, Types, Order
  <2> QED BY <2>2, <2>3, <2>4, <2>5, <2>6 DEF IInv
<1>15. CASE irq_addHandler
  <2> USE <1>15 DEF irq_addHandler
  <2>1. Types'
    BY Modules DEF Types, TypeOK
  <2>2. Order' /\ Gates' /\ ApicState' /\ Running'
    BY Depends, <1>1, <1>2, <1>4 DEF Order, Gates, ApicState, Running
  <2>3. TimerState'
    BY Depends DEF TimerState, Order
  <2> QED BY <2>1, <2>2, <2>3 DEF IInv
<1>16. CASE one_tick \/ tasking_init
  <2> USE <1>16 DEF one_tick, tasking_init, timer_add_clock
  <2>1. clocks \in {0, 1} /\ clocks' = clocks + 1
    BY Depends DEF Types, TypeOK, TimerState, Order
  <2>2. /\ dev' \in DevType /\ dev'.pic = dev.pic /\ dev'.apic = dev.apic
        /\ dev'.armed = TRUE
    <3>1. dev' = [dev EXCEPT !.armed = clocks + 1 > 0 \/ ~apic]
      BY DEF timer_set
    <3>2. (clocks + 1 > 0 \/ ~apic) = TRUE
      BY <2>1
    <3> QED BY <3>1, <3>2, DevArmed DEF Types
  <2>3. Types'
    <3>1. /\ loaded' \in SUBSET Module /\ at' = "idle"
          /\ "irq" \in loaded' <=> "irq" \in loaded
      BY Modules DEF Types, TypeOK
    <3>2. dev'.pic = {} /\ dev'.apic = FALSE /\ clocks' \in 0 .. 2
      BY <2>1, <2>2 DEF Types
    <3> QED BY <2>2, <3>1, <3>2 DEF Types, TypeOK
  <2>4. Order' /\ Gates' /\ ApicState' /\ Running'
    BY Depends, <1>1, <1>2, <1>4 DEF Order, Gates, ApicState, Running
  <2>5. TimerState'
    BY <2>1, <2>2, Depends DEF TimerState, Order
  <2> QED BY <2>3, <2>4, <2>5 DEF IInv
<1>17. ASSUME NEW n \in {0} \cup Device, PicRaises(n) PROVE IInv'
  <2>1. n \in {0, 1, 8}
    BY DEF Device
  <2>2. lint0 /\ idt[n + 32] # "none"
    BY <1>17, <2>1 DEF PicRaises, Interrupt, Types, Gates
  <2> DEFINE serving == IF n >= 8 THEN {2, n} ELSE {n}
             pic == dev.pic \cup serving
             armed == dev.armed /\ ~(n = 0 /\ timer_hooked)
             d == [dev EXCEPT !.pic = pic, !.armed = armed]
  <2>3. dev' = _irq_handler(d, n)
    BY <1>17, <2>2 DEF PicRaises, Interrupt
  <2>4. d \in DevType /\ d.pic = serving /\ d.apic = FALSE /\ d.armed = armed
    <3>1. dev \in DevType /\ dev.pic = {} /\ dev.apic = FALSE
      BY DEF Types
    <3>2. pic = serving /\ pic \in SUBSET Nat
      BY <2>1, <3>1
    <3>3. armed \in BOOLEAN
      OBVIOUS
    <3> HIDE DEF pic, armed, serving
    <3>4. d = [[dev EXCEPT !.pic = pic] EXCEPT !.armed = armed]
      BY <3>1 DEF DevType
    <3> DEFINE e == [dev EXCEPT !.pic = pic]
    <3>5. e \in DevType /\ e.pic = serving /\ e.apic = FALSE
      BY <3>1, <3>2, DevPic
    <3> HIDE DEF e
    <3>6. d = [e EXCEPT !.armed = armed]
      BY <3>4 DEF e
    <3> HIDE DEF d
    <3>7. d \in DevType /\ d.pic = e.pic /\ d.apic = e.apic /\ d.armed = armed
      BY <3>3, <3>5, <3>6, DevArmed
    <3> QED BY <3>5, <3>7
  <2> HIDE DEF d
  <2>5. /\ dev' \in DevType /\ dev'.pic = {} /\ dev'.apic = FALSE
        /\ dev'.armed = IF n = 0 /\ timer_hooked THEN clocks > 0 \/ ~apic ELSE d.armed
    BY <2>1, <2>2, <2>3, <2>4, HandlerServes
  <2>6. ~(n = 0 /\ timer_hooked) => armed = dev.armed
    BY DEF Types, DevType
  <2>7. dev'.armed = dev.armed \/ (timer_hooked /\ dev'.armed = (clocks > 0 \/ ~apic))
    <3> HIDE DEF armed
    <3>1. CASE n = 0 /\ timer_hooked
      BY <2>5, <3>1
    <3>2. CASE ~(n = 0 /\ timer_hooked)
      <4>1. dev'.armed = d.armed
        BY <2>5, <3>2
      <4>2. armed = dev.armed
        BY <2>6, <3>2
      <4>3. d.armed = armed
        BY <2>4
      <4> QED BY <4>1, <4>2, <4>3, Zenon
    <3> QED BY <3>1, <3>2
  <2>8. Quiet
    BY <1>17, <2>2 DEF PicRaises, Interrupt, Quiet
  <2> QED BY <2>5, <2>7, <2>8, ServedInv
<1>18. CASE ApicTimer
  <2>1. apic /\ timer_hooked /\ idt[32] # "none"
    BY <1>18 DEF ApicTimer, Interrupt, TimerState, Types, Gates
  <2> DEFINE d == [dev EXCEPT !.apic = TRUE, !.armed = FALSE]
             f == [d EXCEPT !.armed = clocks > 0 \/ ~apic]
  <2>2. dev' = _irq_handler(d, 0)
    BY <1>18, <2>1 DEF ApicTimer, Interrupt
  <2>3. d \in DevType /\ d.pic = {}
    BY DEF DevType, Types
  <2> HIDE DEF d
  <2>4. f \in DevType /\ f.pic = {} /\ f.armed = (clocks > 0 \/ ~apic)
    BY <2>3, DevArmed
  <2>5. dev' = [f EXCEPT !.apic = FALSE]
    BY <2>1, <2>2 DEF _irq_handler, timer_ack, timer_set
  <2> HIDE DEF f
  <2>6. dev' \in DevType /\ dev'.pic = {} /\ dev'.apic = FALSE /\ dev'.armed = (clocks > 0 \/ ~apic)
    BY <2>4, <2>5, DevApic
  <2>7. Quiet
    BY <1>18, <2>1 DEF ApicTimer, Interrupt, Quiet
  <2> QED BY <2>1, <2>6, <2>7, ServedInv
<1>19. CASE ApicSpurious
  <2>1. idt[SPURIOUS + 32] # "none"
    BY <1>19 DEF ApicSpurious, Interrupt, Types, Gates, SPURIOUS
  <2>2. dev' = dev
    BY <1>19, <2>1 DEF ApicSpurious, Interrupt, _irq_handler, SPURIOUS
  <2>3. dev \in DevType /\ dev.pic = {} /\ dev.apic = FALSE
    BY DEF Types
  <2>4. Quiet
    BY <1>19, <2>1 DEF ApicSpurious, Interrupt, Quiet
  <2>5. dev' \in DevType /\ dev'.pic = {} /\ dev'.apic = FALSE /\ dev'.armed = dev.armed
    BY <2>2, <2>3
  <2>6. dev'.armed = dev.armed \/ (timer_hooked /\ dev'.armed = (clocks > 0 \/ ~apic))
    BY <2>5, Zenon
  <2> QED BY <2>4, <2>5, <2>6, ServedInv
<1>20. CASE UNCHANGED vars
  <2>1. dev \in DevType /\ dev.pic = {} /\ dev.apic = FALSE
    BY DEF Types
  <2>2. dev' = dev /\ Quiet
    BY <1>20 DEF vars, Quiet
  <2>3. dev' \in DevType /\ dev'.pic = {} /\ dev'.apic = FALSE /\ dev'.armed = dev.armed
    BY <2>1, <2>2
  <2>4. dev'.armed = dev.armed \/ (timer_hooked /\ dev'.armed = (clocks > 0 \/ ~apic))
    BY <2>3, Zenon
  <2> QED BY <2>2, <2>3, <2>4, ServedInv
<1> QED
  BY <1>5, <1>6, <1>7, <1>8, <1>9, <1>10, <1>11, <1>12, <1>13, <1>14, <1>15, <1>16,
     <1>17, <1>18, <1>19, <1>20
  DEF Next, Load, Rest

-----------------------------------------------------------------------------
\* IInv is an invariant.
LEMMA Invariant == Spec => []IInv
<1>1. Init => IInv
  BY InitInv
<1>2. IInv /\ [Next]_vars => IInv'
  BY StepInv
<1> QED BY <1>1, <1>2, PTL DEF Spec

\* Whatever the order of loading and the machine, no request is left in service
\* between interrupts, at the PIC or at the APIC.
THEOREM ServedThroughout == Spec => []NoneInService
<1>1. IInv => NoneInService
  BY DEF IInv, Types, NoneInService
<1> QED BY <1>1, Invariant, PTL

\* A machine that has what the modules need, and whose root table and tables lie in
\* the pages load_rsdt maps, never panics and never meets a vector
\* without a gate while it starts.
THEOREM SupportedNeverPanics == Spec => []SupportedRuns
<1>1. IInv => SupportedRuns
  BY DEF IInv, Running, SupportedRuns
<1> QED BY <1>1, Invariant, PTL

\* Once loaded, the timer always has its next interrupt set and a way for it to
\* arrive, unless the APIC refused the second write only.
THEOREM TimerKeepsTicking == Spec => []TimerGetsThrough
<1>1. IInv => TimerGetsThrough
  <2> SUFFICES ASSUME IInv, "timer" \in loaded, hw.wrmsr # 1
               PROVE  dev.armed /\ intr.on /\ (apic \/ lint0)
    BY DEF TimerGetsThrough
  <2>1. {"apic", "irq"} \subseteq loaded
    BY Depends DEF IInv, Order
  <2>2. dev.armed /\ intr.on /\ (apic <=> apic_enabled)
    BY <2>1 DEF IInv, Types, TimerState
  <2>3. hw.wrmsr \in 0 .. 2
    BY MachineFacts DEF IInv, Types, TypeOK
  <2>4. apic_enabled \/ lint0
    BY <2>1, <2>3 DEF IInv, ApicState
  <2> QED BY <2>2, <2>4
<1> QED BY <1>1, Invariant, PTL
=============================================================================
