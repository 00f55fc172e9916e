# A verification project for practOS

practOS is a small operating system for the ARMv7 processor of a Raspberry Pi:
one processor, a round-robin scheduler for up to 32 threads in separate
address spaces, five system calls, a serial line and a system timer. This
directory models its kernel in TLA+, checks the models with TLC on small
instances and proves some of the results with TLAPS for every instance.

## The system

| component | state it keeps | operations | correct when |
|---|---|---|---|
| thread scheduler, `Kernel/thread.c` | `tcbs[]`, `runqueue` (ring of runnable threads), `sleepqueue`, `char_thread`, `L2_Tables`, `L2_Table_references` | create, terminate, sleep, wait for a character, deliver a character, wake, dispatch, set the timer | the ring holds exactly the runnable threads, no waiting thread is forgotten, every ready thread runs, memory is counted exactly, handlers return |
| system calls, `Kernel/syscalls.c`, `User/sys.c` | none | exit, create, sleep, read, write | the call acts on the thread that made it |
| exception dispatch, `arch/CPU/exceptions.c` | `enable_intr_regdump` | faults, `svc`, `irq` | a user fault ends that thread only, its report names the cause, a source that is not served stays pending |
| UART driver, `arch/OS basics/uart.c` | `uart_input_buffer` | receive interrupt, available, get, put | characters are read once, in order, and a reader waits only if there are none |
| timer driver, `arch/OS basics/timer.c`, `useful_libraries/time.c` | compare registers, `c_user_values`, callbacks | set up, interrupt, read the counter | the scheduler is called when it asked to be |
| interrupt controller, `arch/OS basics/intr.c` | enable bits | enable, disable, pending | no match is lost when another source is served first |
| MMU, `arch/OS basics/mmu.c` | the first-level table, second-level entries, TLB | initialise, map, unmap, switch the user section | the instructions of a process reach neither another one nor the kernel, text is not writable, stacks have guards, no stale translation |
| contexts, `arch/CPU/entry.S`, `arm_asm.S` | the stacked registers | trampolines | a thread continues with the registers it had (apart from the condition flags) |
| boot, `Kernel/start.c` | - | start | interrupts find initialised state |
| printf, `Kernel/kprintf.c`, with `math.c` and `primfunc.c` | none | format | a number reads back as that number, in its field and in the buffer |
| assertions, register checker, demo | none that the kernel reads | self tests, user code | - |

**Interaction.** A thread enters the kernel by `svc` or a fault; the timer and
the UART enter it by `irq`. Every handler runs to its end with interrupts
masked (the processor masks IRQs on each of these exceptions, and nothing in a
handler unmasks them), so handlers never overlap. They interact through the
shared globals: each leaves the ring, the queues, `char_thread` and the ring
buffer to the next. The hard behaviours come from the *order* of handlers and
from `scheduler()`, which wakes sleepers, dispatches and re-arms the timer at
the end of most of them, while `runqueue` serves both as a place in the ring
and as "the current thread".

## Modules

| module | what it is |
|---|---|
| `UartBuffer` | the receive ring buffer as pure operators, with the C indices and flag |
| `Fifo` | the abstract promise of the serial input: a queue with one waiter |
| `Uart` | interrupt handler, buffer and reader with the characters themselves; implements `Fifo` (`Promise == INSTANCE Fifo WITH ...`, property `InOrder`) |
| `Threads` | the scheduler core and every handler that reaches it; extends `UartBuffer` |
| `Processes` | the abstract promise of the scheduler to the threads: no queues, only who is ready, asleep or reading, who has the processor and which space each thread lives in |
| `ThreadsProps` | the properties of `Threads` and the specifications they are checked under; `Threads` as an implementation of `Processes` (`Served == INSTANCE Processes WITH ...`, property `ThreadsServed`) |
| `Contexts` | the saved registers; extends `Threads`, every action together with what it does to the registers |
| `AddressSpace` | the linker's layout, the section map, the bits of entries, the tables of processes, and what the processor makes of them; pure operators |
| `Memory` | `Threads` with `AddressSpace`: what every thread and the kernel can reach in every state |
| `Tlb` | `Memory` with the translations the processor may still hold |
| `Clock` | the 64 bit counter, the 32 bit arithmetic of `sleep` and of the idle timer, read by read, with the four timers and the interrupt controller |
| `Kprintf` | the formatted output of the kernel as functions |
| `Console` | the serial line from power-on: boot, the test characters of the driver, exceptions and their reports; extends `Uart`, `Kprintf`, `AddressSpace` |
| `MCThreads`, `MCContexts`, `MCMemory`, `MCTlb`, `MCConsole` | workloads and instances for TLC |
| `ThreadsProofs` | theorems: types and pointers |
| `SchedulerProofs` | theorems: ring, waiting threads, sleepqueue, wake loop, idle timer, tables, stacks, allocation, the loaded table; which executions are calm |
| `LayoutProofs` | lemmas: the memory map and what an address leads to, in arithmetic; extends `AddressSpace` |
| `AddressSpaceProofs` | theorems: isolation, text, guard pages, stale translations, stack pointers, the kernel's addresses |
| `ContextsProofs` | theorems: the registers of the threads, the results of calls, exit, the refinement of `Processes` |
| `ClockProofs` | theorems: matches, sleep times, the idle timer |
| `KprintfProofs` | lemmas: what the formatting functions compute, for every number, base and width; extends `Kprintf` |
| `ConsoleProofs` | theorems: the ring buffer implements the queue, protection of the kernel, numbers, reports |

### State and steps of `Threads`

Pointers to thread control blocks and to their list elements are indices
(`NO` is the null pointer); each field of `struct tcb_t` is a function on the
threads. `running` and `L1` are what the processor has really loaded: which
thread's registers and which page table. The code has no such variable; it
takes `runqueue` for it, and the two differ after a character was delivered.

* One action per handler: `Exit`, `Fault`, `CreateProcess`, `CreateThread`,
  `Sleep`, `ReadBuffered`, `ReadAstray`, `ReadWait`, `UartStore`,
  `UartDeliver`, `DeliverAstray`, `UartFatal`, `TimerIrq`. Calls that change nothing (sleep of 0 ms, a second reader, no
  free thread control block, `write_char`, a character for a full buffer) are
  stuttering.
* A handler that calls `scheduler()` ends in `EnterScheduler` (`kpc = "wake"`).
  Each iteration of the loop of `wake_threads` is one step (`WakeTcb`,
  `SkipTcb`, with the rebuilding of the queue in `Advance`), because the loop
  need not end. `Dispatch` is the rest of `scheduler()`. No other step is
  possible in between.
* `Tick` is the clock. Wake times are kept relative to now, and the compare
  register as a countdown; a sleep time that is not in the future sets it
  around the counter (`TIMER_WRAP`). Ticks happen in user mode only: a handler
  takes no time in the model.
* An L2 index of -1 used as an array index is C's undefined behaviour
  (`kpc = "undefined"`); `AllocationOK` shows that it does not happen.
* The kernel stores a character (`syscalls.c:68`, `thread.c:389`) and copies
  arguments (`thread.c:258`) through pointers and sizes it gets from a thread,
  and looks at none of them. With `"astray"` in `Calls` such a pointer may lead
  out of the thread's memory (`GoesAstray`): the access is refused, a fault in
  kernel mode that halts the system (`kpc = "halted"`), or it goes through and
  memory of the kernel or of another process is changed
  (`kpc = "overwritten"`). The model ends in both cases, with everything the
  handler has done up to the access; `MemoryOK` and `AllocationOK` leave out
  their bookkeeping part for a creation that was stopped halfway (`Stopped`).
  What a kernel with overwritten memory does next is not modelled.

### The gap, and `CalmSpec`

`remove_tcb_from_runqueue` leaves `runqueue` pointing at the removed thread
(unless it was alone); the ring is whole again only after the next dispatch.
Before that dispatch `wake_threads` runs, and a thread it wakes is linked
*behind the removed one*: the ring then contains an unlinked thread and skips
others. `GapWake` says that this is about to happen. Three of the violations
below are its consequences. `CalmSpec` is `Spec` without those steps: it is
used to find out what else is right or wrong, and it is not a claim that the
gap does not occur.

### `Processes`: what the scheduler promises

`Processes` is what a thread may expect without knowing that there is a ring or
a sleepqueue: a call acts on the thread that made it, a sleeper becomes ready
when its time has come and not before, a character resumes the one reader, the
processor is given to a ready thread and idles only if there is none, a new
thread gets its creator's space or one that no living thread has. The mapping
`Served` reads `phase` off the states and `char_thread` (`Phase`), `due` off
`wake_at`, `space` off `L2_table_i`, and `current` off the processor: `running`
in user mode, `KERNEL` in a handler. It mentions no queue, so
`ThreadsServed` fails if the ring or the sleepqueue leads a handler to the wrong
thread. An iteration of `wake_threads` that wakes nobody is a stuttering step.
A handler that stops the system leaves the promise as it is (`Enter`), except
that a creation may have chosen the new thread's space by then (`Fail`).
`Processes` has no action in which a character takes the processor from a
running thread; that is what `UartDeliver` does in the executions `QuietSpec`
leaves out.

### `Contexts`: who has which registers

A register value is a pair of a thread and the number of steps it has taken
since it was created; `cpu` holds the values in the processor (in a handler:
in the frame on the kernel stack), `context` those in the thread control
blocks. `r0` is apart from the other registers because it carries results.
Each action is an action of `Threads` with its part of `store_context`,
`load_context` and the trampolines. `handle_read_char` writes its result into
the frame *after* `thread_wait_for_char` has called `scheduler()`; `caller`
remembers that this write is outstanding, and `Dispatch` ends with it.
`progress` and `last` are history variables: what the thread has done, and so
what it must find. The status register is left out: `store_context` saves it
and nothing ever loads it, so that a preempted thread goes on with the
condition flags of the thread that was interrupted last.

`QuietSpec` excludes the deliveries that interrupt a running thread: after one
the reader's registers are not stored at the next timer interrupt, because
`runqueue` still names the interrupted thread (the cause `exit_caller` shows),
and `RegistersKept` fails. The run shows that there is no other cause.

### `AddressSpace`, `Memory` and `Tlb`: who can reach what

A table entry is the address it holds and the set of its other bits that are 1.
`MmuEntry` is the chain of comparisons in `mmu_init`, `L2Entry` what
`copy_globals` and `get_stack_base` have written into a second-level table;
`Translate` and `Permitted` are the processor. Nothing is left symbolic: the
pointer arithmetic is that of the code, in bytes, including the two places that
count in words (`ThreadRamStart` is meant to, the page count in
`StackPages` is not). The sizes of the linked program are constants; the
named `AddressSpaceAssumption` states what the linker script guarantees and one
thing it does not: no text ends exactly at a section border, because
`mmu_init` compares with `<=` and the next section would share its rights.

`Memory` adds no state: a stack slot of `Threads` is an even page of the user
section (`SlotPage`), and the frames reachable through a table are those of its
mapped slots. `Tlb` adds one variable. The processor may cache any valid
translation of the loaded table at any time, so `tlb` grows by all of them in
every step and becomes exactly those of the new table when `L1_table_update`
runs, which only `load_context` calls.

### `Clock`: reading the time

`Threads` keeps wake times relative to now and lets handlers take no time.
`Clock` does the opposite: it leaves out what the threads do besides sleeping,
and makes every read of the counter a step of its own (`timer_get_counter`
reads the high half, then the low half), with up to `MaxLatency` ticks inside
one handler. All widths are those of the code: `W` stands for 2^32, wake times
are 64 bit sums, `millis*1000`, `soonest`, the sleep time and the compare
register are taken modulo `W`. There are at most two threads, so the repair of
the sleepqueue, which `Threads` covers, leaves the order alone, and the loops
of `wake_threads` (`StillAsleep`) and `reset_scheduler_timer` (`Soonest`) over
a queue of two are written without recursion.

The timer interrupt is modelled down to the devices: four compare registers
with their match bits, the pending words of the interrupt controller, the
choice of `irq()` between timer and UART (one source per interrupt, the last it
finds), the search of `timer_intr_h` for a match bit and the callback it calls.
Characters arrive at any time and are served first, which delays the timer.

### `Console` and `Kprintf`: from power-on to a report

`stage` is how far `start_kernel` has come (`reset`; `early`, when the UART's
interrupt is enabled but the MMU is off; `mapped`; `user`) or how it ended
(`halted` after a fault of the kernel, `lost` after a jump out of it, `astray`
after the kernel has stored a character outside the memory of the thread that
asked for it). A
character runs `uart_intr_h`; the test characters N, P, C and U access memory
from the handler, and what happens is decided by the section map of
`AddressSpace`, as for the accesses of user code to every part of the memory.
`Raise` is one exception: the processor sets fault registers and a link
register, the stub in `entry.S` corrects it, the handler corrects it again,
decodes status and mode, prints, and terminates the thread or halts.
`output.cause` is what really happened, and `ReportsRight` compares: of every
report the address of the cause and the mode, of a data abort also direction,
address and reason.

`KernelStore` is the store of a received character, in the mode of the handler:
at the reader's pointer itself when a character is there already, or at
`virt2phys_adr` of it when the reader had to wait. The pointers are one address
of every part of the memory. A refused store is a data abort of the kernel,
with its report; one that is not refused is compared with the frame the thread
itself could write. `Uart` is about the characters only and leaves the store to
`Console`.

`kprintf` is a function from a format and its arguments to characters. Numbers
are printed in stage `reset` only: it keeps no state, so the place does not
matter.

## Runs

| run | instance | shows |
|---|---|---|
| `threads_two` | 2 threads, every call (with pointers that lead astray), fault, character; pages of 16 bytes, 6 to a section | `TypeOK`, `PointersOK`, `RunqueueOK`, `WaitersOK`, `MemoryOK`, `AddressSpaceOK`, and of the page tables `UserWritesIsolated`, `CodeIsReadOnly`, `StacksGuarded`, `KernelReachesThreads`, `ArgumentsFit`, without any restriction |
| `threads_three` | 3 threads: exit, create a thread or a process, read; with the TLB | `WaitersOK`, `RunqueueOK` although `runqueue` lags behind deliveries; `MemoryOK`, `AllocationOK`; `NoStaleTranslation` although `terminate_thread` invalidates nothing |
| `threads_sleep` | 3 threads: exit, create, sleep of 1 or 2 ticks; `CalmSpec` with fairness | ring and sleepqueue well formed, no sleeper lost, the idle timer in time, `wake_threads` ends, and each iteration makes progress (`LoopProgresses`); no handler leaves a thread asleep whose time has come (`NobodyOverslept`), every sleeper wakes, every ready thread runs |
| `contexts` | 2 threads: every call but process creation, faults, characters; `QuietSpec` | `RegistersKept`: a thread goes on where it was; `ContextsKept`: each thread control block holds its own thread's registers; `ThreadsServed`: the scheduler implements `Processes` (its `Create` only for the same space; the theorem covers processes too) |
| `clock` | 2 threads, sleeps of up to 4 ms of 2 ticks, 1 tick of latency, characters, no carry | `SleepsLongEnough`; `IdleTimerInTime`; `MatchesAnswered`: a match is neither lost to a character nor taken for another timer's |
| `uart` | 2 slots; the real sizes of sections and pages; an ordinary and the five test characters; a reader with a pointer to any part of the memory | `TypeOK`; `InOrder`: nothing is lost, doubled, overtaken or overwritten, also with a full buffer; `ReaderServed`; `KernelProtected` once the MMU is on, by characters, user accesses and kernel stores; `NumeralsRight`; `ReportsRight` |
| `sleep_hang` (violation) | 3 threads, sleep | `wake_threads` does not end (`thread.c:454`) |
| `exit_caller` (violation) | 2 threads, read | exit ends another thread than its caller (`sys.h:16`) |
| `repair_loses` (violation) | 4 threads, sleep, `CalmSpec` | the repair of the sleepqueue drops a sleeper (`thread.c:454`) |
| `result_misplaced` (violation) | 2 threads, read, `QuietSpec` | the result of a waiting read lands in another thread's `r0` (`syscalls.c:76`) |
| `idle_race` (violation) | 2 threads, 2 ticks of latency | a sleep that ends between two readings of the clock leaves the processor idle until the compare register comes round again (`thread.c:311`) |
| `uart_stuck` (violation) | 4 slots | a reader waits although the buffer is full (`syscalls.c:66`) |

**Other consequences.** The same causes break more than the one property each
run names. A wake-up into the gap puts a sleeping thread back on the processor;
a sleeper the repair drops is also missed by the idle timer. In `Clock`,
`SleepsLongEnough` fails when `MaxMillis * MILLI` exceeds `W` (the product
wraps: sleeps of more than 4294967 ms) and when the counter carries between
the reads of its halves (`W = 8`, `MaxLatency = 1`, `MaxCounter = 20`);
`IdleTimerInTime` fails with `W = 16` and `MaxCounter = 30`, because `soonest`
has 32 bits and is compared with 64 bit wake times (after 71 minutes).

**Bounds.** Two threads are enough for every interaction of a caller with one
other thread, three for a ring with a proper interior and for a gap; the repair
of the sleepqueue keeps at most two sleepers, so four threads (one woken, three
left) are the smallest instance in which it can fail, and with three it is
right. `MaxSleep` exceeds `TIMER_INTERVAL` in `threads_two` and
`threads_sleep`, so that sleeps end in, between and after time slices;
`TIMER_WRAP` is longer than any sleep. Only one character
is told apart from the fatal ones in `Threads` (the order of characters is the
business of `Uart`), and in `threads_three` the buffer has one slot, which is
full as soon as nobody waits; buffered reads happen in `threads_two`. Its
pages and sections are small, but keep the layout: every part of the linked
program has sections of its own, a process a page of globals and one stack page
per thread. `RefLimit` stands for 2^32, `NumStacks` for the stack
slots of a table, of which the code has more than threads. `Steps` counts a
thread's own steps modulo 2: stale registers differ from current ones by one
step in the shortest execution that leaves any. In `uart` two slots make every index wrap and every fill level happen;
`WORD` is 2^28, the largest power of two that keeps the arithmetic of the model
in TLC's integers, so that hexadecimal and decimal numbers up to 7 and 9 digits
are printed, each with widths below, at and above their length. `MaxCounter` in `Clock` lets
two sleeps follow each other with several time slices in between, and stays
below `W` in the passing run.

**Fairness.** `WF(KernelStep)`: a handler that has begun goes on. `SF(Tick)`,
`SF(TimerIrq)`: the clock is hardware and a pending interrupt is taken as soon
as user mode is reached, however often threads call the kernel; a thread
that calls it for ever without any time passing is not a real execution.
`WF(OrdinaryTyping)` in `Console`: the user goes on typing ordinary
characters. Threads themselves are
under no fairness. Deadlock is allowed in `threads_two` and `contexts` (a fatal
character or a pointer that leads astray ends the execution), in `clock` and `idle_race` (the counter is
bounded), in `uart` (a system that is halted, lost or astray does nothing) and in `uart_stuck`,
in which a full buffer with a waiting reader is stuck.

## Proofs

`ThreadsProofs` proves for every value of the constants

* `TypeCorrect`: `Spec => []TypeOK`. The parts that are not routine: the
  reference counters stay in their width, the repaired sleepqueue and the
  minimum over the sleepqueue exist, and the timer is always set to something
  positive.
* `PointersSafe`: `Spec => []PointersOK`. No handler follows a null pointer.
  This holds even in executions in which the ring falls apart.

The two are inductive only together (`TypeInv`): the type of `runqueue` after a
dispatch needs its links, and the links lead to linked threads because
`add` and `remove` never write a null pointer (`Links`, `AddLinks`,
`RemoveLinks`). There is one lemma per handler, and `NextType` combines them.

`SchedulerProofs` builds on it and proves, again for every instance,

* `RunqueueCorrect`, `WaitersCorrect`, `SleepqueueCorrect`:
  `CalmSpec => []RunqueueOK` and likewise `WaitersOK` and `SleepqueueOK`.
* `SleepersStayLinked`, `IdleTimerArmed`:
  `CalmSpec /\ []FewSleepers => []AllSleepersLinked` and `[]IdleTimerInTime`.
  `FewSleepers` says that never more than three threads sleep at a time, of any
  number of threads. The bound is exact: after a wake-up the repair keeps two
  sleepers, and with four sleepers `repair_loses` shows the lost one.
* `NobodyOversleeps`: `CalmSpec /\ []FewSleepers => NobodyOverslept`.
* `WakeLoopProgresses`: `CalmSpec => LoopProgresses`, with any number of
  sleepers, and so also where the repair loses one.

`CalmSpec` is a restriction of states. Two theorems turn it into something a
reader can decide about a system without looking at its queues, so that
everything proved of `CalmSpec` is a result about the whole `Spec`:

* `SleeplessCalm`: `Spec => CalmSpec` if `"sleep"` is not in `Calls`. There is
  never anybody to wake. `RunqueueWithoutSleep` is the corollary
  `Spec => [](RunqueueOK /\ WaitersOK)`.
* `TwoThreadsCalm`: `Spec /\ []TwoLive => CalmSpec`, where `TwoLive` says that
  no more than two threads live at a time; they may be created and ended for
  ever, and call and fault as they like. `GapNeedsThree` is the reason: a
  thread that leaves the ring and is not alone in it, one that stays, and one
  that is due are three. `sleep_hang` has three threads, so the bound is exact.
  `TwoThreadsSafe` is the corollary: `RunqueueOK`, `WaitersOK`, `SleepqueueOK`,
  `MemoryOK`, `AllocationOK` and `AddressSpaceOK` together.

The inductive invariant is `CalmInv`: `TypeInv`, the three properties together
and `~GapWake`. None of them is inductive alone. Waking the thread at the
cursor of `wake_threads` keeps the ring only if that thread is a sleeper and
not yet in the ring, which is `SleepqueueOK` with its cursor part; that is
preserved only if sleepers are exactly the waiting threads with a wake time,
`WaitersOK`; and inserting behind `runqueue` needs `runqueue` to be in the ring,
which `~GapWake` gives. The work is in lemmas about the data structures that do
not mention the kernel: inserting into and removing from a ring (`RingOn`) and
pushing onto, unlinking from and rebuilding a list (`ListOn`). Both are stated
with "no proper part is closed" instead of reachability, so no induction over
the length of a list is needed.

For the sleepers `LinkInv` adds to `CalmInv` that no set of sleepers can be cut
off from the head of the queue (`LinkedOn`) and that, inside `wake_threads`,
whoever is not ahead of the cursor is not due (`AheadOn`). `FewSleepers` is used
in one place: when the repair runs, one of three sleepers has been woken, and
the two that are left are what it links (`RebuiltLinks`). At the dispatch the
whole queue has been passed, so the timer, which is set to the soonest of
`SleepChain`, is set to the soonest of all sleepers (`SoonestArmed`), and
`TimerStep` carries that over the ticks. `NobodyOversleeps` is the same
observation at the same place: `LinkInv` holds, the cursor is at the end, so
nobody is left who is due.

For the loop, `Ahead` is the set of threads the cursor has still to visit, and
`CursorLeaves` shows that skipping a thread takes it out of that set: no proper
part of the sleepqueue is closed, so the rest of the queue does not lead back to
it. An iteration that wakes a thread may put the cursor back to the head,
but the set of sleepers shrinks. With finitely many threads this is a
decreasing measure; only the last step, from the measure to `HandlersReturn`,
needs fairness and is left to TLC.

Then it continues with memory, under the same specification:

* `MemoryCorrect`, `AllocationCorrect`: `CalmSpec => []MemoryOK` and
  `[]AllocationOK`. The inductive invariant is `MemInv`, `MemoryOK` together
  with "no handler has used -1 as an index": a creation keeps the counts exact
  only if a free table and a free stack slot exist (`NothingRunsOut`, a
  pigeonhole over the users of a table and their slots), and that they exist
  follows from the counts being exact.
* `AddressSpaceCorrect`: `CalmSpec => []AddressSpaceOK`. `AddrInv` adds that
  the thread at `runqueue`, if it is marked `RUNNING`, is the one whose
  registers and table are loaded; a delivery relies on it.

`AddressSpaceProofs` is about addresses, for every layout the linker script
allows:

* `UserWritesSeparate`: `MemorySpec => []UserWritesIsolated`, in every
  execution. It speaks of what the page tables let user-mode instructions
  write; the stores of the kernel through a thread's pointer are not covered
  (`GoesAstray`). It needs of the threads only their types; the work is in the arithmetic of
  alignment and in following an address through entry bits and back.
* `TranslationsFresh`: `CalmMemorySpec => []NoStaleTranslation`. `TlbInv` says
  that also between an interrupt and the dispatch the TLB fits the table if the
  interrupted thread may go on; a handler that unmaps a stack leaves no such
  thread.
* `StackPointersRight`, `KernelReaches`: `CalmMemorySpec => []ArgumentsFit` and
  `[]KernelReachesThreads`, both from `MemoryOK`.
* `TextReadOnly`: `MemorySpec => []CodeIsReadOnly`, in every execution: the
  sections of text are told from the others by the comparisons of `mmu_init`,
  and second-level entries are execute-never.
* `EveryStackGuarded`: `CalmMemorySpec => []StacksGuarded`, provided that the
  page above the globals is not a stack page's. The condition is needed:
  `thread.c:207` leaves every second page free, counted from address 0, so if
  the globals take an even number of pages the page below the lowest stack is
  one of them. The linked program has one page of globals.

They rest on `LayoutProofs`: where each part of the linked program begins and
ends, which comparison of `mmu_init` an address meets, what the bits of an
entry permit, and which frame an address of a process leads to.

`ContextsProofs` has `RegistersCorrect` and `ContextsCorrect`,
`CalmQuietSpec => []RegistersKept` and `[]ContextsKept`; `CalmQuietSpec` excludes
the deliveries that interrupt a thread and the wake-ups into the gap. `CtxInv`
says where each thread's registers are, in handlers too: a thread is marked
`RUNNING` only while they are in the processor and `runqueue` names it,
otherwise they are in its thread control block.

Two more theorems say that the violations in `exit_caller` and
`result_misplaced` have no other causes than the ones named there:

* `CallerEnds`: `CalmQuietSpec => ExitEndsCaller`.
* `ResultsReachCallers`:
  `CalmQuietSpec /\ []ReadersWaitAlone => []ResultsKept`. `ReadersWaitAlone`:
  while a `handle_read_char` is unfinished no thread is ready, so that the
  result it writes to the frame meets the registers of the idle loop. `ResInv`
  follows `r0` the way `CtxInv` follows the other registers.

The scheduler implements `Processes`:

* `ThreadsAreServed`: `CalmQuietSpec => ThreadsServed`. The invariant is
  `CalmInv /\ MemInv /\ CtxInv`, and there is one lemma per action of `Processes`
  (`EndServed` ... `DispatchServed`). Each part is needed: that the caller is the
  thread that really runs is `CtxInv`, that the thread at the cursor sleeps and
  that the processor idles only if nobody is ready is `CalmInv`, and that
  a new process gets a space of its own is `MemInv`: a table whose count is 0 is
  used by nobody.
* `TwoThreadsServed`, `SleeplessServed`:
  `QuietSpec => ThreadsServed /\ [](RegistersKept /\ ContextsKept)`, given
  `[]TwoLive`, or that `"sleep"` is not in `Calls`: the condition of calm
  executions is gone, that of quiet ones remains.

`ClockProofs` is about time, for every width `W` of the counter's low half and
every length of sleeps and time slices:

* `EveryMatchAnswered`: `Spec => MatchesAnswered`, from the lemma `ClockTyped`,
  `Spec => []Typed` (the types, the match bits and what each point of a handler
  has read): only the
  scheduler's compare register is ever set, so whichever source is served
  first, the match stays and finds its callback.
* `NobodyWokenEarly`: `SteadySpec => SleepsLongEnough` if
  `MaxMillis * MILLI < W`. `SteadySpec` excludes one thing, a carry of the low
  half while a handler runs, that is between the two reads of
  `timer_get_counter`; outside handlers it may carry any number of times. Both
  conditions are needed (see "Other consequences"). `RightTimes` says that the
  half already read is still right and that no wake time is too early.
* `NobodyWokenEarlyAtFirst`: `Spec => SleepsLongEnough` if
  `MaxCounter + MaxMillis * MILLI < W`, that is before the first carry.
* `IdleTimerSet`: `Spec => []IdleTimerInTime` under that condition and
  `MaxLatency <= 1`; with two ticks `idle_race` shows the failure. `InTime`
  follows the readings of one handler: a thread is only left asleep if its wake
  time was ahead of the counter, so after one more tick it is not yet in the
  past and the difference that is taken as the sleep time does not wrap around;
  from there on the next match of the compare register stays at most the
  latency behind every wake time (`NextMatch`, `JustSet`, `TickNoMatch`).

The conditions on `MaxCounter` and `MaxLatency` are assumptions of these
theorems, not of the module; the instance of `clock` satisfies all of them.

`ConsoleProofs` is about the serial line:

* `BufferIsQueue`, `BufferTypes`: `Spec => InOrder` and `Spec => []TypeOK` of
  `Uart`, the refinement of `Fifo` for every size of the buffer and every set of
  characters. The invariant is only that the indices agree with the flag; the
  work is in lemmas that say what a store and a take do to the sequence of
  unread characters across a wrap (`PutAppends`, `GetTakes`).
* `ConsoleInOrder`, `ConsoleTypes`: the same for `ConsoleSpec`: every step of
  the console is a step of `Uart` or leaves the buffer alone, whatever the boot
  stage and whether or not the handler ends in an exception.
* `TextProtected`: `ConsoleSpec => KernelProtected`, from the rights that
  `LayoutProofs` derives for each part of the memory. The kernel's own stores
  are included: the section map gives the kernel no write right on its text.
* `NumbersReadBack`: `ConsoleSpec => []NumeralsRight`: every number that
  `kprintf` prints, signed or not, in base 10 or 16, padded or not, reads back
  as itself, in its field, and fits into the buffer. For every machine word
  (`WORD`), not only the `2^28` of the run.
* `ReportsNameTheCause`: `ConsoleSpec => []ReportsRight`, for every layout: the
  corrections of the link register in the stubs and in the handlers cancel out,
  so that every report prints the address of its cause; the mode is right and
  selects halt or termination. For data aborts the status is decoded to what
  happened and the accessed address is printed; for prefetch aborts nothing is
  said of these two, which are stale. Addresses are numerals that read back as
  themselves.

Both rest on `KprintfProofs`, which says what the functions of `kprintf.c` return
for every argument. This is induction over data, and the library's induction
theorems cannot be used, because they take an operator as a parameter. The
lemmas do without: `LeastNat` (every nonempty set of naturals has a least
element, from the well-foundedness of `<`) gives the smallest counterexample as
a *set*, and `Recursion` says that a recursive definition on the natural numbers,
whose value at `k` depends on the values below `k`, has a solution, with the
step as a *function* in place of an operator. From there: `DigitsOf` (the digits of a number, as many as
`NumDigits` counts), `ReadingIs` and `ReadsUnique` (what a numeral means), `ReadsBack`,
`NumeralForm`, `UnsignedText`, `SignedText`, and `OnlyConversion` for a format of
one conversion with its text around it.

Assumptions are the named `ThreadsAssumption`, `BufferAssumption`,
`ContextsAssumption`, `AddressSpaceAssumption`, `MemoryAssumption`,
`ClockAssumption`, `KprintfAssumption` and `ConsoleAssumption`: positive
sizes, a word of at least 32 values, fields of one digit that fit the buffer of
`kprintf`, at most two threads in `Clock`, at least as many stack slots as threads, a reference counter wider than
the number of threads, a layout as above, a stack slot for every even page that
`get_stack_base` can return, and enough memory for all tables. TLC evaluates
each of them in a run.

Only model-checked: every liveness property (`ReaderServed`, `HandlersReturn`,
`SleepersWake`, `ReadyRuns`), because fairness and ENABLED are out of reach of
the prover. Every invariant and every action property that a run expects to hold
is a theorem.

## Plan

Done, in this order: ring buffer and its refinement; scheduler core; registers;
time and timers; the proofs about the scheduler; virtual memory and the TLB;
formatted output, boot and exception reports; the proofs about memory,
addresses, registers and the ring buffer; the proofs about time, layout, the
console, sleepers and results; the formatting functions; the wake loop;
`Processes` and its refinement; calm executions in terms of the calls and of
the number of threads.

Left: `RegistersKept` in executions with deliveries, up to the first interrupt
after one, and with it a promise like `Processes` that holds in them too; weaker
conditions under which three or more threads that sleep are calm.

## Not modelled

* The register dump of `print_exception`, which reads registers and prints
  them; the handlers `fiq`, `reset` and `unused_handler`, whose sources are
  never enabled.
* The boot code before `start_kernel` (parking the other cores, leaving the
  hypervisor mode, the stacks of the modes), and a timer interrupt between
  `start_scheduling` and `_leave_kernel`.
* The status register: `store_context` saves it and nothing loads it.
* What follows once the kernel has stored through a thread's pointer outside
  that thread's memory (`"overwritten"`, `"astray"`), and whether the bytes
  that `kmemcpy` reads through such a pointer belong to the thread. The
  isolation properties are about the page tables only.
* Bit 10 of the status of a data abort, which `data_abort` does not decode and
  only external aborts set.
* The contents of user memory, and so the bytes copied by `copy_globals` and
  `kthread_create`; the sections of the peripherals; the transmit FIFO.
* Assertions and debug macros (compiled out), the register checker (nobody
  calls it), the demo's own loop, `write_char`.
* Time spent inside handlers, except in `Clock`, and compare registers that
  match without having been written (timers 0 to 2 have no callback; QEMU, for
  which `config.h` is set, never matches them).

Met while reading, and stated by no property: `divide_ceil(5, -4)` is 0 by its
code and -1 by `math.h:14`, but nobody calls it. A prefetch abort prints the
data fault registers, which belong to the last data abort. The test character U
does not fault although `uart.c:98` lists it among the invalid accesses. The
comment at `thread.c:207` names the other parity than the code tests. Idle code
lies in the user's text. A character that arrives before `mmu_init` is handled
without any protection: C then overwrites the kernel's text and P or X leaves
it, which is why `KernelProtected` starts where it does.
