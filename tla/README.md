# Verification of modit-micro

modit-micro is a small 32-bit x86 microkernel operating system: kernel modules
(`module/`), a C library and a support library for programs (`lib/`), and a few
programs (`apps/`).  The core kernel that loads the modules (`kernel/`) is a
submodule whose source is not part of the repository; what it provides
(`LOCK`/`UNLOCK`, the module loader, the initial ramdisk, the console, `getphys`)
is taken as the modules use it.

This directory holds TLA+ models of its parts, TLC configurations that check
them on small instances, and TLAPS proofs.  Paths below are relative to the
repository.

## The system

| part | state | operations | interacts with |
|---|---|---|---|
| message rings, `module/message/main.c` | per process `message_buffer_t`: array, write index, `int16_t` read index, count | `message_push`, `message_pop` | message passing |
| message passing, `module/message`, `module/syscall` | per process the ring `recvbuf` and the list `sendbuf`, kernel copies of messages | `msg_req`, `msg_free`, `msg_send`, `msg_recv`, `msg_poll` | blocks and wakes processes, switches tasks, kernel heap, paging |
| scheduler, `module/tasking` | round list `task_order`, `current_task`, `_enabled`, `task_lock`, `blocked` per task | `task_switch`, `tasking_tick`, `task_newtask`, `tasking_enable`, `tasking_disable` | called by the timer, by message passing and by process creation |
| processes, `module/user` | process list `utsk_list`, `next_pid`, `utsk_lock` | `user_spawn`, `user_fork`, `user_block`, `user_awake`, `user_find`, `user_exec` (never called) | scheduler, paging, heap |
| system calls, `module/syscall` | none of its own | 20 entries of `scalls` | everything above |
| kernel heap, `module/heap` | list of bins, list of empty headers, mapped pages, `heap_lock` | `kalloc`, `kalloc_a`, `kfree` | paging |
| linked lists, `module/dthelper` | `list_t` | push, insert, find, delete | heap |
| physical memory, `module/bmpmm` | bitmap, three counters, a search hint | get, free, reserve | paging |
| paging, `module/paging` | page directories | map, remap, alloc, free, clone, swap | physical memory, heap |
| processor tables, `module/gdt` | task state segment: kernel stack, map of I/O ports | `update_kstack`, `update_iobm` | scheduler |
| ACPI and APIC, `module/acpi`, `module/apic`, `module/cpu` | tables found, `apic_registry`, `apic_enabled` | discovery and set-up at start | paging, exceptions, timer |
| timer, `module/timer`, `module/pit` | hook list, remaining time per hook, the loop variables `hook_node` and `hook_clock` | add, adjust, remove, interrupt | scheduler |
| interrupts, `module/irq`, `isr`, `idt`, `panic` | gates, handler tables, depth of disabling | dispatch, end of interrupt, panic | timer, system calls |
| user heap, `lib/libc/stdlib/heap.c` | list of bins | `malloc`, `free`, `realloc` | |
| process server, `apps/procsvr`, `lib/libc/sys` | tree of names and pids | register, look up, by message to pid 1 | message passing |
| logger, `libc` and `libmicro` stubs | text | | |

**Hard behaviours.**  There is one processor.  A system call runs with
interrupts off (`isr_77_syscall` is an interrupt gate), so most kernel code is
atomic; what is not:

* a system call that blocks gives up the processor in the middle and continues,
  with what it read before, when it is scheduled again;
* `task_newtask` ends in `enable_interrupts()`, so from there on `user_spawn`
  and `user_fork` can be interrupted in the middle of a system call, with
  `utsk_lock` held and the child half made, and only `_enabled` keeps the timer
  from switching;
* the bootstrap task spawns the first process with interrupts on;
* the hook loop of the timer interrupt is left for another task in the middle, and
  keeps its position in global variables;
* programs are preempted anywhere: between spawning a child and registering it,
  and, in the process server, between releasing a message and reading it again;
* interrupts come from `irq_init` on, while the other modules are still being loaded
  and the machine is found to lack this or that;
* the body of a message moves between address spaces, always at the same address,
  while the program may have further messages there;
* indices and counters meet their limits: a full ring, the end of the array, the
  overflow of an `int16_t`; in the heap, alignment and page boundaries; in the
  physical allocator, the end of memory;
* the two heaps and the lists are relinked pointer by pointer, where a mistake
  shows only many calls later.

**What makes it correct.**  No wakeup is lost and none is spurious; messages
arrive once, in order; no lock is held by a task that is switched out (any other
task would spin with interrupts off); no half-made task runs; a woken or created
process gets to run; a task runs with its own directory, stack and ports; a message
is seen by the process that has it and by no other; every supported machine starts
and its timer gets through; heap blocks never overlap; a physical page has one use; the
scheduler is called in every time slice; a lookup is answered, and rightly.  `PROJECT.json` lists the hazards
line by line with the properties aimed at them.

## The modules

| module | models |
|---|---|
| `MessageBuffer` | the ring and its two functions, as operators |
| `MessageRing` | one ring under any pushes and pops |
| `Fifo` | abstract: a bounded queue |
| `Ipc` | scheduler, process creation and message passing together |
| `Mailbox` | abstract: how many messages wait, who sleeps for what |
| `IpcMailbox`, `IpcRefinement` | the mappings from `Ipc` to `Mailbox` and to one `MessageRing` per process |
| `KHeap` | the kernel heap |
| `Allocator` | abstract: live blocks that never overlap |
| `MCKHeap` | requests for the runs of `KHeap` |
| `UserHeap` | `malloc`, `realloc`, `free` of the C library, header by header |
| `List` | the linked lists, pointer by pointer |
| `Paging` | the physical allocator and page tables under the paging calls |
| `TimerHooks` | the hook loop of the timer interrupt across task switches |
| `Contexts` | directory, kernel stack, I/O ports and message bodies of tasks |
| `MCContexts` | symmetry of the bodies for the runs of `Contexts` |
| `Startup`, `MCStartup` | the load functions under interrupts; root tables for the run |
| `ProcServer`, `MCProcServer` | the process server and the library calls that talk to it; paths of programs for the runs |
| `*Proofs` | theorems and their proofs |

### Rings

`message_push` writes at the write index and wraps it; `message_pop` reads at
`head`, increments it and resets it only when it has become negative.  So `head`
walks past the array.  `ReadSlot` gives what is found there: the fields of
`user_task_t` that follow the array, as `STRAY` or, where they may be zero,
`NULL`.  `INT16_MAX` stands for 32767 and is a constant, so that a small instance
goes through the overflow.  `pushed`, `popped` and `overrun` are history.

### Ipc

One action is one stretch of kernel code that nothing can interrupt.

* `Timer` is the timer interrupt with `tasking_tick` and `task_switch`;
  `TimerIgnored` its early returns.  `task_switch` follows the round list to the
  first task that is not blocked.
* `SpawnEnter`, `NewTaskLock`, `NewTaskPush`, `SpawnLink`, `SpawnUnlock`,
  `SpawnEnable` are `user_spawn` and `user_fork`, which take the same steps,
  with `task_newtask` inside.  In the bootstrap task interrupts are on, so the
  timer may come between any two; in a system call from `NewTaskPush` on.
  `Start` is the first run of the child.
* `MsgSend`, `MsgSendBlock`, `MsgSendNobody`, `MsgRecv`, `MsgRecvBlock`,
  `MsgPoll` are the system calls with their whole effect (the `user_awake` after
  the push, the `tasking_enable` at the end of `user_block` and `user_awake`);
  `SendResume` and `RecvResume` are what a blocked call does when it runs again.
* A receive that got a word that is no message reads through it: the machine may
  panic (`halted`) or go on.
* `nowhere` is the history of messages sent to a pid nobody has.

Messages are numbers in the order of their allocation.  Their bodies are module
`Contexts`'; permissions are left out.

### KHeap

Addresses count bytes from `BIN_START`.  `heap` holds the list of bins in link
order, the list of empty headers, the highest header used and the mapped pages.
The helpers keep their names.  `merge_bin` is one turn of its loop: a second turn
would find something to merge only if two neighbours were free, which
`Coalesced` excludes after every call.  `kfree` frees a block in use, whoever
asks; `kfree_stale` is a free of any other pointer, which `syscall_msg_free` lets
a process ask for.  Physical memory does not run out in this model.  Every call
holds `heap_lock` throughout, so it is one action.

### UserHeap

The code has the shape of the kernel heap, but a removed header keeps its links,
so the list of bins and the list of empty headers may become one.  The model
therefore keeps `prev` and `next` of every header and follows the assignments of
`add_bin`, `remove_bin` and `merge_bin` in their order.  A walk along a list that
has become a cycle is a `hang`, a walk through a null `bin_tail` a `crash`.
`realloc` of nothing is `malloc`, and of size 0 `free`.  Otherwise it searches with one
variable and goes on with another of the same name that was never set (`Astray`): it may
be null, so that 0 is returned; point to what reads as a bin large enough, so that the block
stays as it is (`Kept`), or as a smaller one, so that the block is moved, with as many bytes
as it says (`Moved`); or point nowhere, or to a size that runs off the pages (`Faults`, the
fault `unset`).  A
block that stayed is remembered as `kept`, with the size that was asked for.
`SoundUntilMerge` says what holds until the first merge or that fault, and that pointers
stay among the headers handed out even after it.

### List

Nodes are cells with `prev`, `next` and data; `list.rnd` tells a round list and 0 is the
null pointer, as in the code.  `list_push`, `list_insert`, `list_delete` and `list_remove`
are actions, `list_find` and `_seek_node` operators; `Hung` is a search that never ends.  A
freed node is not reused: what it held stays readable.  The history `content` says
which nodes the list should hold, in order; `broken` remembers a deletion at an end or
an insertion before the head of a round list, after which the links are not right any
more.

### Paging

One address space; `LIMIT` is the first page of 0xD8000000, below which the calls must
stay.  `syscall_mappg` compares with it the argument that reaches `mappg` as the
physical page (the library passes the two in this order), the others their virtual one.
The bitmap has `TOTAL` pages and the word of bits past them
that a search may reach; `Inc` and `Dec` are the wrapping counters.  The helpers
keep their names (`bm_get_free`, `bm_getpg`, `remappg`, `allocpg`, ...), and the four
system calls are the actions, with `modit_elf_load` for a segment of a program, which
may begin inside a page.  A page table itself takes a page.  A write to page
tables that are not there is a page fault in the kernel, `Halted`.

### TimerHooks

`timer_interrupt` runs the loop up to the hook of the scheduler, where it leaves
for the task `task_switch` chooses; a task that was left inside the loop continues
with `ResumeLoop`, from `hook_node` and `hook_clock` as they are by then.  `Block`
is a system call that gives up the processor, `Awake` a send, `NewTask` a process
creation, `AddClock` a `timer_add_clock` after start-up.  `elapsed` is history.  The period
of `one_tick` is not shorter than that of `tasking_tick`, as in the code.

### Contexts

`task_switch` sets `cr3` (`swpdir`) and the task state segment (`update_kstack`,
`update_iobm`) and gives a task its map of ports in its first turn.  `syscall_reqio` and
`syscall_blkio` change the map of the task and not that of the processor.  A body is a
block of the heap; `pages[t][i]` is the body that page `i` from 0x1000 on shows to task
`t`.  `syscall_msg_req` and `syscall_msg_recv` (which is `syscall_msg_poll` too) map,
`syscall_msg_send` unmaps what is there, `syscall_msg_free` leaves it.  `clonedir` gives
a child pages of its own (`ALIEN`).  Where its parent has none, in a table the parent has,
it skips the entry, and the frame of the new table is not cleared: there the child sees
anything, the body of a message included (`stray`).  `tabled` tells who has the table.
Programs are the environment: they give up what they send or release, and send no more
than they have.  After `fork` the parent alone uses its messages.  `lost`, `old`, `stray`, `last`,
`asked` and `changed` are history.

### Startup

An action is a load function, or a part of one that ends where an exception or an
interrupt makes a difference.  The loader is external: any order in which the
`module_depends` of a module come before it.  `hw` is the machine, chosen once: CPUID,
model-specific registers and APIC present or not, how many of the two writes of the
APIC's register succeed (`cpu_write_msr` does not load the registers it writes from, so
the compiler decides), and the tables the firmware has.  An entry of the root table may lie
behind the one page that `load_rsdt` maps for it (not `seen`): then it is read from what
the heap has there, or faults.  `idt` and `handlers` are the gates
and the exception handlers, `dev` what is in service at the two controllers and whether
the timer is set, `lint0` whether the PIC gets through the APIC.  `PicRaises`, `ApicTimer`
and `ApicSpurious` are interrupts with the whole of `_irq_handler`; `EOI` is the
controller's part.  Counts and periods are module `TimerHooks`'.

### ProcServer

Queues are those of `Mailbox`; a message is its sender and its buffer, and `body`
is what each buffer holds.  `msg_free` gives the buffer back but leaves it mapped in
the process, so `HandleReg` (registration and release) and `HandleReleased` (the
second test of the same message) are two actions between which others may take the
buffer.  `spawnv` and `__send_preg` are two as well: the child may run in between.
The tree is the sequence of its nodes in the order a traversal meets them, with
depths.  A name is a string, and `parse_procreg` puts a mark behind it, none if the mark
is 0; `NONAME`, the empty one, stands for bytes that are no name.
Programs are any users of the library; `init` spawns the server first.

## The runs

| run | bounds | shows |
|---|---|---|
| `ring` | capacity 2, read index up to 5, 7 pushes | type, FIFO until the array is used up, count is the backlog until an overrun, the slots spell out a bounded queue step by step; through the overflow of the read index |
| `ipc` | 3 processes, capacity 2, 4 messages | the eight invariants of `Ipc`, one fate of every message among them; woken receivers and created processes run; `Ipc` implements `Mailbox` and drives each ring only by pushes and pops |
| `kheap` | pages of two grains, heap of three pages, sizes 9, 48, and 32 at alignment 32 | bins tile the heap, free ones are merged, headers are conserved, blocks never overlap |
| `userheap` | five headers, a first bin of 12 bytes, 16 bytes, sizes 3 and 10 | blocks are apart and found and only `realloc` faults, until the first merge; pointers stay among the headers |
| `list` | 4 nodes | links, head and tail spell out what was put in |
| `paging` | 5 pages, two of devices, one of them past the limit of the calls, 3 addresses in tables of 2, one past the limit | one use per page, every page in use is marked, counters agree until they are made to drift |
| `timerhooks` | 3 tasks, 3 clocks, periods 7, 2 and 1 or 6, drift up to 8 | preemption in every slice, no null `hook_node` followed |
| `procserver` | 4 processes, 2 programs, the path of one being that of the other and a mark, 3 buffers, 3 messages, bytes of 3 values | the tree, the names and the answers until a released message is answered; a lookup ends |
| `procserver_stale` | as `procserver`, 2 buffers, 5 messages | **violated**: a process that registered a name is told it does not exist |
| `ipc_unread` | as `ipc` | **violated**: a sender that waited overwrites an unread message |
| `startup` | 19 root tables on every processor: tables before, between and after each other, crossing a page or not, valid or not, with their entry in the page mapped for the root table or behind it; two devices besides the timer | a supported machine loads everything, in every order, with interrupts at any point from `irq_init` on; the timer gets through; no request stays in service |
| `contexts` | bootstrap task and 2 processes, 2 bodies of up to 2 pages, one as good as the other, sizes below, at and above the limit, 1 port to grant | a task runs as itself, one message per body, nobody else sees it, the last one obtained is mapped |

The type invariant `TypeOK` is a run's own invariant where it is proved (`ring`, `ipc`);
elsewhere it is a conjunct of one of the run's invariants.

Why the bounds are enough: two processes show every pair of sender and receiver,
the third is a bystander that is preempted, sends to both, or is created
meanwhile; with capacity 2 and 4 messages a ring fills, a sender blocks and is
woken, and the read index leaves the array.  The refinement and the proofs do not
depend on these numbers.  The heap of six grains splits, stretches, pads to
alignment, merges on either side and on both, and reuses headers.

Five headers and two sizes make the user heap split, stretch, append, merge on either side
and reuse a header; four nodes give a list a first, a last and two inner places. Five
physical pages are used up by two page tables and what they map, and the search then runs
over the end. Three tasks let one be left in the hook loop while a second ends its own
loop and blocks. Two buffers, one of them just released, are what the race in the process
server needs, and there are three; a third process of one name needs three registrations.
Two processes make every pair of owner and bystander of a body, and a body can come back
to a process that had it; two bodies are the one a process has mapped and the one it had
before. A send to the process that does not exist yet is a send to nobody. Where the
bounds of a model end a run, an action that changes nothing says so (`Stopped`,
`DriftBound`, `Idle`).

`ring` does not check deadlock: with the pushes used up
and the ring empty the bounded model stops.

**Fairness** (`LiveSpec`).  `Timer` is weakly fair: the hardware timer is
reprogrammed in every interrupt and keeps ticking.  The rest of a kernel path
(`KernelStep`) is weakly fair for each task: the processor executes the running
task.  System calls have no fairness: a program may compute forever.  In
`ProcServer` the server and a process inside `find_process` are weakly fair: both
are in loops of the code, and by `ipc` a process with mail gets to run.  In `Startup`
loading as a whole is weakly fair: the loader goes on, and interrupts, whose handlers
end, do not take the processor for good.

## The findings

What a comment, a header or a message of the repository says and the code does not keep
is stated next to the properties.  Two of these statements are refuted by runs:
`procserver_stale` (1, at `sys/proc.h:80`) and `ipc_unread` (3, at
`module/syscall/main.c:106`).  Each of the others has a configuration of its own, in which
TLC finds it violated within seconds: `tlc -config X.cfg M`, where `M` is the module
before the `!` or, for `KHeap`, `Contexts`, `Startup` and `ProcServer`, its `MC` module.

| refuted | configuration | what the code does |
|---|---|---|
| `ProcServer!FindsOwnSpawn` | `ProcServerStale.cfg` | 1. `handle_message` reads a message it has released (`apps/procsvr/main.c:14`).  `init` and the server as they start are enough: `init` may look up the server it has registered and be told that there is none |
| `MessageRing!PopReturnsMessages` | `MessageRingWrap.cfg` | 2. `message_pop` never wraps `head` at `MSG_MAXCOUNT` and returns the words behind the array (`module/message/main.c:25`) |
| `Ipc!UnreadSurvives` | `IpcUnread.cfg` | 3. `message_async_send` does not test for room again after its wait and overwrites an unread message (`module/message/main.c:55`) |
| `Ipc!BlockedSenderResumes` | `IpcBlocked.cfg` | 4. nothing wakes a sender that waits for room; `sendbuf` is never read (`module/message/main.c:49`) |
| `KHeap!BlocksMapped` | `KHeapMapped.cfg` | 6. `kalloc` maps too little when it stretches the free last bin (`module/heap/main.c:202`) |
| `UserHeap!BlocksDisjoint` | `UserHeapBlocks.cfg` | 7. `merge_bin` keeps the wrong address when it joins a bin with the one before (`lib/libc/stdlib/heap.c:107`) |
| `UserHeap!BlocksFound` | `UserHeapFree.cfg` | 8. it moves `bin_head` to the header it removes (`lib/libc/stdlib/heap.c:101`) |
| `List!RemovedIsGone` | `ListDelete.cfg` | 9. `list_delete` leaves `head`, `tail` and `elements` as they were (`module/dthelper/list.c:156`) |
| `List!AddedIsFound` | `ListInsert.cfg` | 10. `list_insert` before the head of a round list relies on a `prev` that `list_push` does not set (`module/dthelper/list.c:104`) |
| `Paging!GivenPagesExist` | `PagingPast.cfg` | 11. `bm_get_free` does not compare its hint with the number of pages (`module/bmpmm/main.c:32`) |
| `Paging!FreedComesBack` | `PagingFree.cfg` | 12. `freepg` frees exactly when nothing was mapped (`module/paging/main.c:98`) |
| `Paging!LoadFits` | `PagingLoad.cfg` | 14. the loader allocates by the size of a segment and copies to its address: one that begins inside a page may miss its last page (`module/user/elf.c:29`) |
| `Contexts!FreedIsUnmapped` | `ContextsFree.cfg` | 16. `syscall_msg_free` leaves the body mapped, so its next owner is read by the last (`module/syscall/main.c:97`); the race of 1 rests on it |
| `Contexts!NothingLost` | `ContextsLost.cfg` | 18. `syscall_msg_send` drops the result of `message_async_send`: a message to nobody is accepted, and its body is never freed (`module/syscall/main.c:131`) |
| `Startup!RevertsToPic` | `StartupRevert.cfg` | 20. without a table of the APIC `apic_init` announces the PIC but leaves `apic_enabled` set, and `timer_init` writes through a null pointer (`module/apic/main.c:123`) |
| `Startup!GoesOnWithoutCpuid` | `StartupCpuid.cfg` | 21. `_invl_opcode_hook` returns to the instruction it should skip (`module/cpu/main.c:41`) |
| `Startup!RefusedIsUndone` | `StartupRefused.cfg` | 22. if only the second write of the APIC's register is refused, the timer uses the PIT, which the APIC keeps out (`module/apic/main.c:94`) |
| `Contexts!ForkDuplicates` | `ContextsFork.cfg` | 23. the frame of a cloned table is not cleared, and where the parent has no page the child has what the frame held (`module/paging/main.c:133`) |
| `ProcServer!NamesUnique` | `ProcServerNames.cfg` | 24. the mark behind a name may spell the path of another program, so that two processes have one name (`apps/procsvr/process.c:12`) |
| `UserHeap!ReallocGrows` | `UserHeapRealloc.cfg` | 25. `realloc` goes on with a `bin` that was never set, as its loop declares another (`lib/libc/stdlib/heap.c:176`) |

Five more have no configuration of their own: no line of the repository promises them, or
one above shows the same.  To see the counterexample, put the definition as the only
property into the configuration named.

| definition | configuration | what the code does |
|---|---|---|
| `Ipc!AcceptedIsQueued` | `Ipc.cfg` | 5. the send of 18, seen from the rings: it is accepted and pushed nowhere (`module/syscall/main.c:131`) |
| `TimerHooks!NoPeriodMissed` | `TimerHooks.cfg` | 13. the hook loop adds the period to whatever `hook_clock` points to when the preempted task runs again (`module/timer/main.c:119`); the repository adds no clock after the scheduler's, so this shows only with a further module |
| `Contexts!GrantTakesEffect` | `Contexts.cfg` | 15. `reqio` and `blkio` return with the processor still using the old map, until the task has its next turn (`module/syscall/main.c:48`) |
| `Contexts!HeldIsMapped` | `Contexts.cfg` | 17. a second message takes the address of the first, and sending either unmaps whatever is there (`module/syscall/main.c:80`) |
| `Contexts!HeldCanBeSent` | `Contexts.cfg` | 19. `msg_req` allows `MSG_MAXSZ` bytes, `msg_send` does not (`module/syscall/main.c:116`) |

The passing properties of rings say where 2 and 3 begin to matter: they hold
until an overrun or until `MSG_MAXCOUNT` pops.  Likewise `SoundUntilMerge`,
`CountersUntilDrift` and the `~stale` of `ProcServer` say where 7, 8 and 25, 11 and 12, and 1
begin to matter, and the hypotheses of `RunsAsItself` (`changed`), `SeenByOwner` (`old`,
`stray`), `LastIsMapped` (`last`), `NamesDistinct` (`Twofold`), `Supported` and
`TimerGetsThrough` say it for 15, 16 and 23, 17, 24, 20 and 21, and 22.  Such a property is no
evidence about what its hypothesis leaves out; that is what the statements above are for.

## The proofs

All are for every value of the constants, from the assumptions named in the
modules: a positive capacity below `INT16_MAX`, at least one process, and
`NULL` and `STRAY` that are no messages; positive sizes of pages and messages, and
`NONE` and `ALIEN` that are neither bodies nor maps of ports; a memory of at least one
page, whose number the counters can hold, and boot and device pages inside it; root
tables that are sequences of records of their type; a page of whole grains, and requests
of at least one byte whose alignment is 1 or a multiple of the grain; a positive period of
every clock, that of `one_tick` not the shorter (1000 and 5 in the code), and room for the
two clocks of the start; programs whose paths are strings without a 0 and not empty, the
server's among them and the name `init` not, and at least the two processes of the start; positive sizes, a positive first bin and at least one header of
the user heap.

* `MessageRingProofs`: first the lemmas on push and pop.  `RingInv` relates a ring to its
  history: until an overrun, count is the backlog, the write index is the number
  of pushes modulo the capacity, the read index the number of pops, and the slots
  of the unread messages hold them.  A push preserves it because with room the
  slot written is none of those.  Then `RingTypeCorrect`, `RingFifo`, `RingCount`, and
  `RingImplementsFifo`, the refinement of `Fifo` until the ring wraps: the slots from the
  read index on, counted modulo the capacity, spell the queue; a push adds the slot one
  past the last and a pop drops the first (`PushEnqueues`, `PopDequeues`).
* `IpcRefinementProofs`: the inductive invariant `IInv` and from it the theorems for every
  invariant of `Ipc`.  Its parts:
  `ModeInv` (tasking is off exactly while the running task creates a process, and
  no other task is doing so), `LockInv` (who holds which lock at which step),
  `ChildInv` (the only task that is not ready is the one being made), `WaitInv` (a
  receiver is blocked exactly when its ring is empty), `MailInv` (`RingInv` of
  every ring).  None of the properties is inductive alone: that a lock is not held
  by a switched-out task needs that the timer does not switch while one is held,
  which is `ModeInv`, which needs that no other task is half way through a
  creation; that a receiver finds a message when it runs again needs that only a
  push unblocks it and only it pops.  `OneFate` needs `OnceInv`, that no
  message number is twice on a ring or with a sender, and none is larger than the number
  sent, and `FateInv`, that it is somewhere, and if it was sent to nobody nowhere else.
  From the same invariant, `Ipc` implements `Mailbox`, and one `MessageRing` per process.
  The lemmas on rings are those of `MessageRingProofs`, instantiated for every process.
  That the history of a ring stays within the bound of `MessageRing` is a pigeonhole:
  by `OnceInv` distinct pushes carry distinct messages (`Room`).
* `ContextsProofs`: all properties of `Contexts`.
  `RunsAsItself` needs that every map of ports, also of the tasks
  that do not run, holds only what its task was granted, and that a process has a map
  whenever it runs: else a switch could bring in too large a map, and `reqio` would set
  bits through a null pointer.
  `SeenByOwner` sets apart the pages that are left over, from a message released since or in
  a cloned table that was not cleared, and is not inductive: that a
  request maps a body nobody else sees needs that a page which shows a free body is known to
  be one of those (`OldInv`); that a send or a release touches no other message needs that a
  body has one message (`BodyInv`, which compares messages under way by their places in
  the rings); that a receiver is the only one to see it needs that the bootstrap task has
  none (`BootInv`); and that a message cut short stays unseen, that pages are monotone in
  bytes.  `LastIsMapped` needs besides that a new task is none of those alive.
  `OneMessagePerBody` adds that every allocated body is owned, if only by a message to nobody
  (`HeapInv`); the count then
  follows from three one-to-one maps onto disjoint parts of the heap.
* `StartupProofs`: `NoneInService`, `SupportedRuns` and `TimerGetsThrough`.  The invariant
  follows the order of loading: modules are loaded after those they depend on (`Order`), so
  an exception or a request finds its gate (`Gates`); what `apic_init` and `apic_enable`
  leave in each stage (`ApicState`); the timer is hooked before the APIC arms it
  (`TimerState`), else its first interrupt would stay in service; a supported machine runs
  and finds its MADT (`Running`).
* `PagingProofs`: `FramesExclusive`, `InUseIsMarked` and `CountersUntilDrift`.  `Uses` says
  of a memory that each page in use is marked and has one use, `Tabled` that a mapped page
  has a table (else a release would make one that is not present, and count its page),
  `Counted` that the counters agree.  `Kept` is what one page of an allocation keeps; it is
  transitive, so a call of any length keeps it, wherever it stops.  The loops are recursive
  functions: that they exist, and induction on the number of turns, rest on the least
  element of a set of naturals.
* `KHeapProofs`: all properties of `KHeap`, and that it implements `Allocator`.  `IInv` says
  that headers are conserved (`Numbered`), that the bins tile the heap in whole grains
  (`Tiles`), that no neighbours are free (`FreePairs`) and that the blocks handed out are the
  taken bins (`Blocks`); all are needed at once.  That the block which `kfree` clears is the
  one its caller had needs that bins are in the order of their addresses; that one turn of
  `merge_bin` is enough needs that before the call at most the bins on either side were free;
  and the padding of `kalloc_a`, a free bin or the last one resized, keeps whole grains and
  ends at the alignment only because addresses and alignments are multiples of a grain, and
  is no neighbour of a free bin because the bin appended after it is claimed.  Each helper is described by what it does to the
  sequence of bins place by place (`Added`, `Dropped`, `Edited`, then `Cut` for a split and
  `Merged` for a merge), and a call by the state it leaves a bin to claim in (`Ready`).
* `ProcServerProofs`: the three invariants of `ProcServer`.  The types, and that `init` is
  the root (`TreeInv`), hold always.  `NameInv`, until a mark is 0, adds to the names being
  different that the next mark for a path is larger than those given out for it: else a
  registration could repeat one.  Names are strings, so a path with a mark may be another
  path (`Ambiguous`); such names and those made from them (`Twofold`) may be given twice, and
  no others.  The rest, `Sound`, holds until the server answers a
  message it had released.  That a process is registered once needs that it is registered,
  or asked for by one message, or about to be asked for by its creator (`RegInv`), and that
  no two messages share a body, which a sender could overwrite (`MailInv`).  `PlaceInv` says
  where a node is in the tree by the depths between it and the one above it, which an
  insertion further on does not change.  `FindsOwnUntilStale` rests on an order of messages:
  what a process registered reaches the server before its lookup (`OwnInv`, `ReqInv`), one
  lookup is under way at a time (`AskInv`), and nodes stay, so that an answer is still right
  when it is read (`AnsInv`).
* `LinkedListsProofs`: first both invariants of `TimerHooks`.  `OnTime` says of the two clocks of
  the start that the time left and the time gone by are together no more than the period.  The
  loop is left after the time has been taken off and before the period is added; a task
  that goes on in it adds the period of whatever `hook_clock` is by then.  So `OnTime` also
  counts the tasks left inside the loop: as long as `hook_clock` can be that of
  `tasking_tick`, each of them may still add a period.  After a switch `hook_node` is at
  `tasking_tick`, whose time is up, and the first that goes on moves it.  The assumption that
  `one_tick` has the longer period is needed: with periods 1 and 2 TLC violates `Punctual` in
  11 states, because tasks that come back to the loop after blocking each add 2.  That the
  loop, a recursive function, exists and ends is proved with the least element of a set of
  naturals.  Next is `LinksKeepOrder`, the invariant of `List`, of which
  `clock_hooks` is one: `Spells` adds to it that the nodes differ, that `elements` counts
  them at least and is 0 only for an empty list (else `list_push` would start a new one and
  `_seek_node` stop too early), and that a plain head has no predecessor; `Within` that links
  stay among the allocated nodes, also of a broken list.  `Follow` then meets the content in
  order (`FollowPlain`) or again and again (`FollowRound`).

  Last is `SoundUntilMerge` of `UserHeap`.  Types are kept always: `remove_bin` may walk a
  list that has become a cycle, and still ends at a header that was handed out.  Until the
  first merge, `InRow` says that no header was put away, that `next` and `prev` undo each
  other, that each bin ends where the next begins, and that bins have sizes and do not
  overlap; `Housed` that each block has an address of its own and a taken bin there.  `InRow`
  states no order of the bins.  It follows: addresses increase along the links, so a walk
  from `bin_head` meets the bins by their addresses, all of them, and by a pigeonhole ends
  within the headers in use; hence there is no `hang`, and `find_best_fit` and `free` see
  every bin.  A new header changes only its neighbours (`Insertion`), be it the rest of a
  split or a bin past the last.  A `free` that leaves `ehead` and `fault` as they were has
  merged nothing: with no header put away yet, the first `remove_bin` sets `ehead`.

Only model-checked: liveness (fairness and ENABLED are outside the prover's reach).

## Not modelled

Text output and library stubs, and the core kernel that is not in the repository.  What
depends on it is left open: the deadlock that `heap_lock` would allow if the bootstrap
task allocated after the first process runs, and whether all kernel page tables exist
before the first directory is cloned (one made later is seen by one process only).

Of the modelled parts: `timer_adjust_clock`, `timer_remove_clock`, `delete_list`,
`message_peep`, `user_exec`, and the `addblock` and `rmblock` of the physical
allocator, which nothing calls; the counts of the PIT as time source; the pages under the
user heap; the calls that read the initial ramdisk and the console, which keep no state;
permissions, because `init_init` gives the first process all of them and every call
passes on the caller's; the flags of pages (a polled message is mapped read-only).
Memory does not run out while a directory is cloned.

## Plan

Several directories in `Paging`, with cloning when memory runs out.
