------------------------------- MODULE Threads ------------------------------
(***************************************************************************)
(* The thread scheduler of the kernel (Kernel/thread.c), driven by the     *)
(* system calls (Kernel/syscalls.c), the fault handlers and the two        *)
(* interrupt sources (arch/CPU/exceptions.c, uart.c, timer.c).             *)
(*                                                                         *)
(* Every handler runs with interrupts masked, so handlers are atomic with  *)
(* respect to each other.  A handler that calls scheduler() is split: its  *)
(* own part is one action, which ends in EnterScheduler; every iteration   *)
(* of the loop of wake_threads is one step (the loop need not terminate);  *)
(* Dispatch is the rest of scheduler().  While kpc = "wake" no other       *)
(* action is enabled.                                                      *)
(*                                                                         *)
(* Time: one Tick is the unit the clock is abstracted to.  A thread's      *)
(* wake_at is kept relative to now: 0 is "due", NEVER_SET the C value 0.   *)
(***************************************************************************)
EXTENDS Integers, FiniteSets, FiniteSetsExt, UartBuffer

CONSTANTS
    MAX_THREADS,      \* size of tcbs[] and number of L2 tables
    NumStacks,        \* stack slots of one L2 table
    TIMER_INTERVAL,   \* length of a time slice, in ticks
    TIMER_WRAP,       \* ticks after which the 32 bit compare matches again
    MaxSleep,         \* longest argument of sleep() considered
    RefLimit,         \* 2^32: the reference counters count modulo this
    FatalChars,       \* characters uart_intr_h answers with a kernel fault
    Calls             \* what threads may do: subset of CallKinds

(* "astray": a pointer or a size that a thread passes leads out of its own *)
(* memory.                                                                 *)
CallKinds == {"exit", "fault", "process", "thread", "sleep", "read", "astray"}

ASSUME ThreadsAssumption ==
    /\ MAX_THREADS \in Nat \ {0}
    /\ NumStacks \in Nat /\ NumStacks >= MAX_THREADS
    /\ TIMER_INTERVAL \in Nat \ {0} /\ TIMER_WRAP \in Nat \ {0}
    /\ MaxSleep \in Nat
    /\ RefLimit \in Nat /\ RefLimit > MAX_THREADS
    /\ FatalChars \subseteq Chars
    /\ Calls \subseteq CallKinds

Threads == 0 .. MAX_THREADS - 1
Tables  == 0 .. MAX_THREADS - 1
Stacks  == 0 .. NumStacks - 1
NO == -1                      \* NO_THREAD, NO_TCB, an index that is -1
NEVER_SET == -1               \* wake_at = 0 in the C code

VARIABLES
    (* struct tcb_t, one function per field *)
    state, next, prev, next_sleeping, wake_at, stack_i, L2_table_i,
    (* the globals of thread.c *)
    runqueue, sleepqueue, char_thread, L2_Table_references,
    L2_Tables,        \* per table, the stack slots that are mapped
    (* the processor *)
    running,          \* tcb whose context was loaded last, NO: idle loop
    L1,               \* L2 table the user section of L1 points to
    kpc,              \* "user", "wake", or how the system ended: "halted",
                      \* "overwritten" or "undefined"
    tcb, prior_tcb,   \* locals of wake_threads while kpc = "wake"
    (* the devices *)
    timer,            \* ticks until the scheduler timer matches
    timer_pending,    \* its bit in the timer's CS register
    uart_input_buffer

tcbVars   == <<state, wake_at, stack_i, L2_table_i>>
ringVars  == <<runqueue, next, prev>>
sleepVars == <<sleepqueue, next_sleeping>>
memVars   == <<L2_Table_references, L2_Tables>>
wakeVars  == <<tcb, prior_tcb>>
timerVars == <<timer, timer_pending>>
vars == <<tcbVars, ringVars, sleepVars, memVars, char_thread, running, L1,
          kpc, wakeVars, timerVars, uart_input_buffer>>

Runnable == {t \in Threads : state[t] \in {"READY", "RUNNING"}}
Waiting  == {t \in Threads : state[t] = "WAITING"}
Live     == {t \in Threads : state[t] # "TERMINATED"}

(* The state start_kernel leaves behind: main() is thread 0, the timer is  *)
(* armed and the processor is in the endless loop of _leave_kernel.        *)
Init ==
    /\ state = [t \in Threads |-> IF t = 0 THEN "READY" ELSE "TERMINATED"]
    /\ next = [t \in Threads |-> IF t = 0 THEN 0 ELSE NO]
    /\ prev = [t \in Threads |-> IF t = 0 THEN 0 ELSE NO]
    /\ next_sleeping = [t \in Threads |-> NO]
    /\ wake_at = [t \in Threads |-> NEVER_SET]
    /\ stack_i = [t \in Threads |-> IF t = 0 THEN NumStacks - 1 ELSE 0]
    /\ L2_table_i = [t \in Threads |-> 0]
    /\ runqueue = 0 /\ sleepqueue = NO /\ char_thread = NO
    /\ L2_Table_references = [i \in Tables |-> IF i = 0 THEN 1 ELSE 0]
    /\ L2_Tables = [i \in Tables |-> IF i = 0 THEN {NumStacks - 1} ELSE {}]
    /\ running = NO /\ L1 = NO
    /\ kpc = "user" /\ tcb = NO /\ prior_tcb = NO
    /\ timer = TIMER_INTERVAL /\ timer_pending = FALSE
    /\ uart_input_buffer = EmptyBuffer

-----------------------------------------------------------------------------
(* The runqueue: a circular doubly linked list of the runnable threads.    *)

(* Mutant: the old successor keeps its prev.                               *)
AddWithoutBackLink(t) ==
    IF runqueue = NO
    THEN /\ runqueue' = t
         /\ prev' = [prev EXCEPT ![t] = t]
         /\ next' = [next EXCEPT ![t] = t]
    ELSE /\ prev' = [prev EXCEPT ![t] = runqueue]
         /\ next' = [next EXCEPT ![t] = next[runqueue], ![runqueue] = t]
         /\ UNCHANGED runqueue

AddToRunqueue(t) ==
    IF runqueue = NO
    THEN /\ runqueue' = t
         /\ prev' = [prev EXCEPT ![t] = t]
         /\ next' = [next EXCEPT ![t] = t]
    ELSE /\ prev' = [prev EXCEPT ![t] = runqueue, ![next[runqueue]] = t]
         /\ next' = [next EXCEPT ![t] = next[runqueue], ![runqueue] = t]
         /\ UNCHANGED runqueue

(* runqueue keeps pointing at t, unless t was alone.                       *)
RemoveFromRunqueue(t) ==
    IF prev[t] = t
    THEN runqueue' = NO /\ UNCHANGED <<next, prev>>
    ELSE /\ next' = [next EXCEPT ![prev[t]] = next[t]]
         /\ prev' = [prev EXCEPT ![next[t]] = prev[t]]
         /\ UNCHANGED runqueue

(* The call of scheduler(), up to the first iteration of wake_threads;     *)
(* head is the value sleepqueue has then.                                  *)
EnterScheduler(head) ==
    /\ kpc' = "wake"
    /\ tcb' = head
    /\ prior_tcb' = NO

(* Mutant: the address space is not switched.                              *)
LoadRegistersOnly(t) == running' = t /\ L1' = IF L1 = NO THEN L2_table_i[t] ELSE L1

(* load_context: the registers and the address space of t.                 *)
LoadContext(t) == running' = t /\ L1' = L2_table_i[t]

-----------------------------------------------------------------------------
(* System calls and faults of the running thread.  The kernel takes        *)
(* runqueue for the caller (get_current_thread).                           *)

InSyscall(call) == kpc = "user" /\ running # NO /\ call \in Calls

ReleaseTable(i) ==
    L2_Table_references' = [L2_Table_references EXCEPT ![i] = (@ - 1) % RefLimit]

(* Mutant: the stack stays mapped.                                         *)
KeepStack(i, slot) == L2_Tables' = L2_Tables /\ i \in Tables /\ slot \in Int

UnmapStack(i, slot) == L2_Tables' = [L2_Tables EXCEPT ![i] = @ \ {slot}]

(* terminate_current_thread.  An index of -1 would write outside the       *)
(* arrays.                                                                 *)
TerminateCurrent ==
    IF L2_table_i[runqueue] = NO \/ stack_i[runqueue] = NO
    THEN /\ kpc' = "undefined"
         /\ UNCHANGED <<tcbVars, ringVars, sleepVars, memVars, char_thread,
                        running, L1, wakeVars, timerVars, uart_input_buffer>>
    ELSE /\ RemoveFromRunqueue(runqueue)
         /\ state' = [state EXCEPT ![runqueue] = "TERMINATED"]
         /\ ReleaseTable(L2_table_i[runqueue])
         /\ UnmapStack(L2_table_i[runqueue], stack_i[runqueue])
         /\ EnterScheduler(sleepqueue)
         /\ UNCHANGED <<wake_at, stack_i, L2_table_i, sleepVars, char_thread,
                        running, L1, timerVars, uart_input_buffer>>

Exit == InSyscall("exit") /\ TerminateCurrent

(* Undefined instruction, prefetch or data abort, unknown system call.     *)
Fault == InSyscall("fault") /\ TerminateCurrent

(* The kernel uses a pointer or a size of a thread without looking where   *)
(* it leads.  Outside the thread's memory the access is refused, a fault   *)
(* of the kernel, or it reaches memory of the kernel or of another         *)
(* process: what is written there, and so what follows, is left open.      *)
GoesAstray == "astray" \in Calls /\ kpc' \in {"halted", "overwritten"}

(* The common tail of kthread_create: take the highest free stack slot of  *)
(* the table, copy the arguments to it and queue the thread.  Without a    *)
(* slot arguments are copied to the top of the address space, a fault in   *)
(* kernel mode.                                                            *)
StartThread(t, table, refs, mapped) ==
    LET free == Stacks \ mapped
        slot == IF free = {} THEN NO ELSE Max(free)
    IN  /\ L2_table_i' = [L2_table_i EXCEPT ![t] = table]
        /\ L2_Table_references' = [L2_Table_references EXCEPT ![table] = refs]
        /\ stack_i' = [stack_i EXCEPT ![t] = slot]
        /\ L2_Tables' = [L2_Tables EXCEPT ![table] = mapped \cup ({slot} \ {NO})]
        /\ \/ /\ state' = [state EXCEPT ![t] = "READY"]
              /\ AddToRunqueue(t)
              /\ EnterScheduler(sleepqueue)
           \/ /\ (slot = NO /\ kpc' = "halted") \/ GoesAstray
              /\ UNCHANGED <<state, ringVars, wakeVars>>
        /\ UNCHANGED <<wake_at, sleepVars, char_thread, running, L1,
                       timerVars, uart_input_buffer>>

FreeTcbs   == {t \in Threads : state[t] = "TERMINATED"}
(* Mutant: a table with one user counts as free.                           *)
TablesWithoutSharing == {i \in Tables : L2_Table_references[i] <= 1}

FreeTables == {i \in Tables : L2_Table_references[i] = 0}

(* thread_create with is_proc # 0; without a free tcb it only returns.     *)
CreateProcess ==
    /\ InSyscall("process") /\ FreeTcbs # {}
    /\ IF FreeTables = {}
       THEN /\ L2_table_i' = [L2_table_i EXCEPT ![Min(FreeTcbs)] = NO]
            /\ UNCHANGED <<state, wake_at, stack_i, ringVars, sleepVars,
                           memVars, char_thread, running, L1, kpc, wakeVars,
                           timerVars, uart_input_buffer>>
       ELSE StartThread(Min(FreeTcbs), Min(FreeTables), 1, {})

(* thread_create with is_proc = 0: the new thread joins the address space  *)
(* of the thread runqueue points to.                                       *)
CreateThread ==
    /\ InSyscall("thread") /\ FreeTcbs # {}
    /\ LET table == L2_table_i[runqueue]
       IN  IF table = NO
           THEN /\ kpc' = "undefined"
                /\ UNCHANGED <<tcbVars, ringVars, sleepVars, memVars,
                               char_thread, running, L1, wakeVars, timerVars,
                               uart_input_buffer>>
           ELSE StartThread(Min(FreeTcbs), table,
                            (L2_Table_references[table] + 1) % RefLimit,
                            L2_Tables[table])

(* Mutant: the new head does not lead to the old one.                      *)
PushWithoutLink(t) == sleepqueue' = t /\ UNCHANGED next_sleeping

PushSleeper(t) ==
    /\ next_sleeping' = [next_sleeping EXCEPT ![t] = sleepqueue]
    /\ sleepqueue' = t

(* sleep(millis) with millis # 0 (0 returns at once).                      *)
Sleep(n) ==
    /\ InSyscall("sleep")
    /\ state' = [state EXCEPT ![runqueue] = "WAITING"]
    /\ wake_at' = [wake_at EXCEPT ![runqueue] = n]
    /\ RemoveFromRunqueue(runqueue)
    /\ PushSleeper(runqueue)
    /\ EnterScheduler(runqueue)
    /\ UNCHANGED <<stack_i, L2_table_i, memVars, char_thread, running, L1,
                   timerVars, uart_input_buffer>>

(* read_char when a character is buffered: it is stored through the        *)
(* pointer of the caller, to the caller's memory or astray.                *)
ReadBuffered ==
    /\ InSyscall("read") /\ CharAvailable(uart_input_buffer)
    /\ uart_input_buffer' = GetChar(uart_input_buffer)
    /\ UNCHANGED <<tcbVars, ringVars, sleepVars, memVars, char_thread,
                   running, L1, kpc, wakeVars, timerVars>>

ReadAstray ==
    /\ InSyscall("read") /\ CharAvailable(uart_input_buffer)
    /\ GoesAstray
    /\ uart_input_buffer' = GetChar(uart_input_buffer)
    /\ UNCHANGED <<tcbVars, ringVars, sleepVars, memVars, char_thread,
                   running, L1, wakeVars, timerVars>>

(* Mutant: a second reader replaces the first.                             *)
ReadWaitAlways ==
    /\ InSyscall("read") /\ ~CharAvailable(uart_input_buffer)
    /\ char_thread' = runqueue
    /\ RemoveFromRunqueue(runqueue)
    /\ state' = [state EXCEPT ![runqueue] = "WAITING"]
    /\ EnterScheduler(sleepqueue)
    /\ UNCHANGED <<wake_at, stack_i, L2_table_i, sleepVars, memVars, running,
                   L1, timerVars, uart_input_buffer>>

(* read_char otherwise: wait, unless another thread does (then it returns  *)
(* "busy" and changes nothing).                                            *)
ReadWait ==
    /\ InSyscall("read") /\ ~CharAvailable(uart_input_buffer)
    /\ char_thread = NO
    /\ char_thread' = runqueue
    /\ RemoveFromRunqueue(runqueue)
    /\ state' = [state EXCEPT ![runqueue] = "WAITING"]
    /\ EnterScheduler(sleepqueue)
    /\ UNCHANGED <<wake_at, stack_i, L2_table_i, sleepVars, memVars, running,
                   L1, timerVars, uart_input_buffer>>

-----------------------------------------------------------------------------
(* Interrupts.  irq() lets the UART go first when both are pending; a      *)
(* character that finds the buffer full is dropped without any effect.     *)

(* A character nobody waits for.                                           *)
UartStore(c) ==
    /\ kpc = "user" /\ ~uart_input_buffer.is_full /\ c \notin FatalChars
    /\ char_thread = NO
    /\ uart_input_buffer' = PutChar(uart_input_buffer, c)
    /\ UNCHANGED <<tcbVars, ringVars, sleepVars, memVars, char_thread,
                   running, L1, kpc, wakeVars, timerVars>>

(* A character for char_thread, which replaces the interrupted thread on   *)
(* the processor; runqueue stays where it was.                             *)
UartDeliver(c) ==
    /\ kpc = "user" /\ ~uart_input_buffer.is_full /\ c \notin FatalChars
    /\ char_thread # NO
    /\ uart_input_buffer' = GetChar(PutChar(uart_input_buffer, c))
    /\ state' = [t \in Threads |-> IF t = char_thread THEN "RUNNING"
                                   ELSE IF t = runqueue THEN "READY"
                                   ELSE state[t]]
    /\ AddToRunqueue(char_thread)
    /\ LoadContext(char_thread)
    /\ timer' = TIMER_INTERVAL
    /\ char_thread' = NO
    /\ UNCHANGED <<wake_at, stack_i, L2_table_i, sleepVars, memVars, kpc,
                   wakeVars, timer_pending>>

(* The pointer char_thread waits with leads out of its memory.  Nothing    *)
(* depends on it before, so it is chosen here.                             *)
DeliverAstray(c) ==
    /\ kpc = "user" /\ ~uart_input_buffer.is_full /\ c \notin FatalChars
    /\ char_thread # NO
    /\ GoesAstray
    /\ uart_input_buffer' = GetChar(PutChar(uart_input_buffer, c))
    /\ state' = [t \in Threads |-> IF t = runqueue THEN "READY" ELSE state[t]]
    /\ UNCHANGED <<wake_at, stack_i, L2_table_i, ringVars, sleepVars, memVars,
                   char_thread, running, L1, wakeVars, timerVars>>

(* N, P, C and X make the handler itself fault: the system halts (the read *)
(* for U is allowed, see Console).                                         *)
UartFatal(c) ==
    /\ kpc = "user" /\ c \in FatalChars
    /\ kpc' = "halted"
    /\ UNCHANGED <<tcbVars, ringVars, sleepVars, memVars, char_thread,
                   running, L1, wakeVars, timerVars, uart_input_buffer>>

(* timer_intr_h for SCHEDULER_TIMER; the compare value it adds is replaced *)
(* at the end of scheduler().                                              *)
TimerIrq ==
    /\ kpc = "user" /\ timer_pending
    /\ timer_pending' = FALSE
    /\ EnterScheduler(sleepqueue)
    /\ UNCHANGED <<tcbVars, ringVars, sleepVars, memVars, char_thread,
                   running, L1, timer, uart_input_buffer>>

(* Time passes in user mode; a pending timer interrupt is taken within the *)
(* tick it is raised in.                                                   *)
Tick ==
    /\ kpc = "user" /\ ~timer_pending
    /\ timer' = timer - 1
    /\ timer_pending' = (timer = 1)
    /\ wake_at' = [t \in Threads |-> IF wake_at[t] > 0 THEN wake_at[t] - 1
                                     ELSE wake_at[t]]
    /\ UNCHANGED <<state, stack_i, L2_table_i, ringVars, sleepVars, memVars,
                   char_thread, running, L1, kpc, wakeVars,
                   uart_input_buffer>>

-----------------------------------------------------------------------------
(* wake_threads, one iteration per step.                                   *)

(* Mutant: the rebuilding loop does not end the list at its last thread.   *)
AdvanceOpenEnd(sq, ns, st, wa) ==
    LET sleepers == {t \in Threads : st[t] = "WAITING" /\ wa[t] # NEVER_SET}
        first == IF sleepers = {} THEN NO ELSE Min(sleepers)
    IN  IF ns[tcb] # sq
        THEN sleepqueue' = sq /\ next_sleeping' = ns /\ tcb' = ns[tcb]
        ELSE /\ sleepqueue' = first
             /\ tcb' = first
             /\ next_sleeping' =
                  [t \in Threads |->
                     IF t \notin sleepers THEN ns[t]
                     ELSE IF t # first THEN ns[t]
                     ELSE IF sleepers = {first} THEN ns[t]
                     ELSE Max(sleepers)]

(* Mutant: the repaired queue is not traversed again.                      *)
AdvanceOnce(sq, ns, st, wa) ==
    LET sleepers == {t \in Threads : st[t] = "WAITING" /\ wa[t] # NEVER_SET}
        first == IF sleepers = {} THEN NO ELSE Min(sleepers)
    IN  IF ns[tcb] # sq
        THEN sleepqueue' = sq /\ next_sleeping' = ns /\ tcb' = ns[tcb]
        ELSE /\ sleepqueue' = first
             /\ tcb' = NO
             /\ next_sleeping' =
                  [t \in Threads |->
                     IF t \notin sleepers THEN ns[t]
                     ELSE IF t # first THEN NO
                     ELSE IF sleepers = {first} THEN ns[t]
                     ELSE Max(sleepers)]

(* The end of an iteration that leaves the queue as sq, ns, st, wa: go to  *)
(* the successor of tcb; if that is the head of the queue, rebuild it.     *)
(* The rebuilding loop never advances its tcb: the head's successor is     *)
(* overwritten by every further sleeper, so the last one stays.            *)
Advance(sq, ns, st, wa) ==
    LET sleepers == {t \in Threads : st[t] = "WAITING" /\ wa[t] # NEVER_SET}
        first == IF sleepers = {} THEN NO ELSE Min(sleepers)
    IN  IF ns[tcb] # sq
        THEN sleepqueue' = sq /\ next_sleeping' = ns /\ tcb' = ns[tcb]
        ELSE /\ sleepqueue' = first
             /\ tcb' = first
             /\ next_sleeping' =
                  [t \in Threads |->
                     IF t \notin sleepers THEN ns[t]
                     ELSE IF t # first THEN NO
                     ELSE IF sleepers = {first} THEN ns[t]
                     ELSE Max(sleepers)]

WakeTcb ==
    /\ kpc = "wake" /\ tcb # NO /\ wake_at[tcb] <= 0
    /\ LET sq == IF prior_tcb = NO THEN next_sleeping[tcb] ELSE sleepqueue
           ns == IF prior_tcb = NO THEN next_sleeping
                 ELSE [next_sleeping EXCEPT ![prior_tcb] = next_sleeping[tcb]]
           st == [state EXCEPT ![tcb] = "READY"]
           wa == [wake_at EXCEPT ![tcb] = NEVER_SET]
       IN  /\ Advance(sq, ns, st, wa)
           /\ state' = st
           /\ wake_at' = wa
    /\ AddToRunqueue(tcb)
    /\ UNCHANGED <<stack_i, L2_table_i, memVars, char_thread, running, L1,
                   kpc, prior_tcb, timerVars, uart_input_buffer>>

(* Mutant: the predecessor is not remembered.                              *)
SkipForgetfully ==
    /\ kpc = "wake" /\ tcb # NO /\ wake_at[tcb] > 0
    /\ Advance(sleepqueue, next_sleeping, state, wake_at)
    /\ UNCHANGED <<tcbVars, ringVars, memVars, char_thread, running, L1, kpc,
                   prior_tcb, timerVars, uart_input_buffer>>

SkipTcb ==
    /\ kpc = "wake" /\ tcb # NO /\ wake_at[tcb] > 0
    /\ prior_tcb' = tcb
    /\ Advance(sleepqueue, next_sleeping, state, wake_at)
    /\ UNCHANGED <<tcbVars, ringVars, memVars, char_thread, running, L1, kpc,
                   timerVars, uart_input_buffer>>

-----------------------------------------------------------------------------
(* The rest of scheduler().                                                *)

(* The threads reset_scheduler_timer meets from sleepqueue on.             *)
SleepChain ==
    {t \in Threads :
        \A S \in SUBSET Threads :
            (sleepqueue \in S /\ \A s \in S : next_sleeping[s] \in S \cup {NO})
            => t \in S}

(* Mutant: the idle timer waits for the head of the sleepqueue only.       *)
ResetTimerForHead ==
    timer' = IF runqueue # NO \/ sleepqueue = NO THEN TIMER_INTERVAL
             ELSE IF wake_at[sleepqueue] > 0 THEN wake_at[sleepqueue]
                  ELSE TIMER_WRAP

(* Mutant: the timer is only armed again while there is a runnable thread. *)
ResetTimerIfBusy == timer' = IF runqueue # NO THEN TIMER_INTERVAL ELSE timer

(* When the processor is idle the timer is set to the soonest wake time; a *)
(* time already due wraps around the 32 bit compare register.              *)
ResetSchedulerTimer ==
    timer' = IF runqueue # NO \/ sleepqueue = NO THEN TIMER_INTERVAL
             ELSE LET wakes == {wake_at[t] : t \in SleepChain}
                  IN  IF \E w \in wakes : w <= 0 THEN TIMER_WRAP
                      ELSE Min(wakes)

AfterWake == kpc = "wake" /\ tcb = NO

(* Mutant: without a ready thread the last one keeps the processor.        *)
DispatchNothing ==
    /\ AfterWake /\ runqueue = NO
    /\ UNCHANGED <<state, runqueue, running, L1>>

DispatchIdle ==
    /\ AfterWake /\ runqueue = NO
    /\ running' = NO
    /\ UNCHANGED <<state, runqueue, L1>>

(* Mutant: a running thread is never preempted.                            *)
SwitchUnlessRunning == state[runqueue] # "RUNNING"

SwitchWanted == next[runqueue] # runqueue \/ state[runqueue] = "READY"

DispatchNext ==
    /\ AfterWake /\ runqueue # NO /\ SwitchWanted
    /\ LET to == next[runqueue]
       IN  /\ state' = [t \in Threads |->
                          IF t = to THEN "RUNNING"
                          ELSE IF t = runqueue /\ state[t] = "RUNNING"
                               THEN "READY" ELSE state[t]]
           /\ runqueue' = to
           /\ LoadContext(to)

(* The only runnable thread goes on without a context switch.              *)
DispatchSame ==
    /\ AfterWake /\ runqueue # NO /\ ~SwitchWanted
    /\ UNCHANGED <<state, runqueue, running, L1>>

Dispatch ==
    /\ DispatchIdle \/ DispatchNext \/ DispatchSame
    /\ ResetSchedulerTimer
    /\ kpc' = "user" /\ prior_tcb' = NO
    /\ UNCHANGED <<next, prev, wake_at, stack_i, L2_table_i, sleepVars,
                   memVars, char_thread, tcb, timer_pending,
                   uart_input_buffer>>

-----------------------------------------------------------------------------
KernelStep == WakeTcb \/ SkipTcb \/ Dispatch

Next ==
    \/ Exit \/ Fault \/ CreateProcess \/ CreateThread
    \/ \E n \in 1 .. MaxSleep : Sleep(n)
    \/ ReadBuffered \/ ReadAstray \/ ReadWait
    \/ \E c \in Chars : UartStore(c) \/ UartDeliver(c) \/ DeliverAstray(c) \/ UartFatal(c)
    \/ TimerIrq \/ Tick
    \/ KernelStep

Spec == Init /\ [][Next]_vars
=============================================================================
