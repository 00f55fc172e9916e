------------------------------ MODULE Contexts ------------------------------
(***************************************************************************)
(* The registers of the threads under the scheduler: what the trampolines  *)
(* of arch/CPU/entry.S put on the kernel stack, and what store_context and *)
(* load_context (Kernel/thread.c) move between that frame and the thread   *)
(* control blocks.                                                         *)
(*                                                                         *)
(* Each action of Threads is taken together with what it does to the       *)
(* registers.  A register value is a pair <<t, n>>: what thread t has in   *)
(* the register after n of its own steps.  Two groups are told apart: regs *)
(* (r1-r12, sp, lr and the program counter) and r0, which also carries the *)
(* return value of a system call.  The status register, which is stored    *)
(* and never loaded, is left out.                                          *)
(***************************************************************************)
EXTENDS Threads

CONSTANT Steps        \* own steps of a thread are counted modulo this

ASSUME ContextsAssumption == Steps \in Nat /\ Steps >= 2

VARIABLES
    cpu,       \* user registers: live in user mode, the frame in a handler
    context,   \* tcbs[].context
    caller,    \* thread whose handle_read_char is not finished, or NO
    progress,  \* own steps each thread has taken since it was created
    last       \* what it did last: "step", "call", "result" (call answered)

ctxVars == <<cpu, context, caller, progress, last>>
allVars == <<vars, ctxVars>>

RESULT == -1          \* in r0: the return value of the last system call

At(t, n) == [regs |-> <<t, n>>, r0 |-> <<t, n>>]

(* The boot processor's registers are nobody's; main() starts with its own.*)
ContextsInit ==
    /\ Init
    /\ cpu = At(NO, 0)
    /\ context = [t \in Threads |-> At(IF t = 0 THEN 0 ELSE NO, 0)]
    /\ caller = NO
    /\ progress = [t \in Threads |-> 0]
    /\ last = [t \in Threads |-> "step"]

-----------------------------------------------------------------------------
(* The contexts after store_context: the frame goes to the thread runqueue *)
(* points to, if there is one.                                             *)
Store == IF runqueue = NO THEN context
         ELSE [context EXCEPT ![runqueue] = cpu]

(* A thread executes some instructions.                                    *)
Compute ==
    /\ kpc = "user" /\ running # NO
    /\ cpu' = At(cpu.regs[1], (cpu.regs[2] + 1) % Steps)
    /\ progress' = [progress EXCEPT ![running] = (@ + 1) % Steps]
    /\ last' = [last EXCEPT ![running] = "step"]
    /\ UNCHANGED <<vars, context, caller>>

(* Handlers that neither store nor load before they call scheduler() or    *)
(* end the system.                                                         *)
KeepContexts ==
    /\ Exit \/ Fault \/ ReadAstray \/ TimerIrq \/ Tick \/ WakeTcb \/ SkipTcb
       \/ \E c \in Chars : UartStore(c) \/ UartFatal(c)
    /\ UNCHANGED ctxVars

(* kthread_create: entry point, stack pointer and argument of the thread.  *)
FreshContext ==
    /\ CreateProcess \/ CreateThread
    /\ LET t == Min(FreeTcbs)
       IN  IF state'[t] = "READY"
           THEN /\ context' = [context EXCEPT ![t] = At(t, 0)]
                /\ progress' = [progress EXCEPT ![t] = 0]
                /\ last' = [last EXCEPT ![t] = "step", ![running] = "call"]
           ELSE UNCHANGED <<context, progress, last>>
    /\ UNCHANGED <<cpu, caller>>

(* thread_make_sleep_current and the waiting half of thread_wait_for_char. *)
StoreAndSleep(n) ==
    /\ Sleep(n)
    /\ context' = Store
    /\ last' = [last EXCEPT ![running] = "call"]
    /\ UNCHANGED <<cpu, caller, progress>>

(* Mutant: the registers of the waiting reader are left to the scheduler,  *)
(* which stores those of RUNNING threads only.                             *)
WaitWithoutStore ==
    /\ ReadWait
    /\ caller' = running
    /\ last' = [last EXCEPT ![running] = "call"]
    /\ UNCHANGED <<cpu, context, progress>>

StoreAndWait ==
    /\ ReadWait
    /\ context' = Store
    /\ caller' = running
    /\ last' = [last EXCEPT ![running] = "call"]
    /\ UNCHANGED <<cpu, progress>>

(* handle_read_char writes its result to the frame of the calling thread.  *)
AnswerCaller ==
    /\ cpu' = [cpu EXCEPT !.r0 = <<running, RESULT>>]
    /\ last' = [last EXCEPT ![running] = "result"]
    /\ UNCHANGED <<context, caller, progress>>

ReadAnswered == ReadBuffered /\ AnswerCaller

(* "busy": another thread waits for the next character already.            *)
ReadBusy ==
    /\ InSyscall("read") /\ ~CharAvailable(uart_input_buffer)
    /\ char_thread # NO
    /\ AnswerCaller
    /\ UNCHANGED vars

(* thread_process_char_received: store, put the result of the read into    *)
(* the waiting thread's context, and load it.                              *)
DeliverCharacter(c) ==
    /\ UartDeliver(c)
    /\ LET result == <<char_thread, RESULT>>
       IN  /\ context' = [Store EXCEPT ![char_thread].r0 = result]
           /\ cpu' = context'[char_thread]
    /\ last' = [last EXCEPT ![char_thread] = "result"]
    /\ UNCHANGED <<caller, progress>>

(* The delivery that ends the system has stored the interrupted thread.    *)
StoreThenAstray(c) ==
    /\ DeliverAstray(c)
    /\ context' = Store
    /\ UNCHANGED <<cpu, caller, progress, last>>

(* Mutant: scheduler() never stores what it replaces.                      *)
StoreNothing == context' = context

(* The registers in the rest of scheduler(): a RUNNING thread is stored.   *)
StoreIfRunning ==
    context' = IF state[runqueue] = "RUNNING" THEN Store ELSE context

(* The frame scheduler() leaves: in the idle loop only the program counter *)
(* is new.  After that a pending handle_read_char writes its result to it. *)
SwitchFrame ==
    LET frame ==
          IF runqueue = NO THEN [cpu EXCEPT !.regs = <<NO, 0>>]
          ELSE IF SwitchWanted THEN context'[next[runqueue]]
          ELSE cpu
    IN  cpu' = IF caller = NO THEN frame
               ELSE [frame EXCEPT !.r0 = <<caller, RESULT>>]

DispatchContext ==
    /\ Dispatch
    /\ IF runqueue # NO /\ SwitchWanted THEN StoreIfRunning
       ELSE UNCHANGED context
    /\ SwitchFrame
    /\ caller' = NO
    /\ UNCHANGED <<progress, last>>

ContextsNext ==
    \/ Compute \/ KeepContexts \/ FreshContext
    \/ \E n \in 1 .. MaxSleep : StoreAndSleep(n)
    \/ StoreAndWait \/ ReadAnswered \/ ReadBusy
    \/ \E c \in Chars : DeliverCharacter(c) \/ StoreThenAstray(c)
    \/ DispatchContext

ContextsSpec == ContextsInit /\ [][ContextsNext]_allVars

(* The executions in which a character for a waiting thread arrives while  *)
(* the processor is idle, so that no thread is interrupted by it.          *)
QuietNext == ContextsNext /\ ~(running # NO /\ \E c \in Chars : UartDeliver(c))

QuietSpec == ContextsInit /\ [][QuietNext]_allVars

-----------------------------------------------------------------------------
(* Properties.                                                             *)

InUserMode == kpc = "user" /\ running # NO

(* thread.c:348 "store context" and thread.c:356 "load new context": a     *)
(* thread goes on with the registers (but not the condition flags) and at  *)
(* the instruction it was interrupted at, whichever other threads ran in   *)
(* between.                                                                *)
RegistersKept == InUserMode => cpu.regs = <<running, progress[running]>>

(* What thread t must find in r0.                                          *)
Result(t) == <<t, IF last[t] = "result" THEN RESULT ELSE progress[t]>>

(* sys.h:11-12, "Return values are written into the r0 register", and to   *)
(* no other thread's: r0 holds what the running thread computed, its first *)
(* argument, or the result of its call (a call without result leaves r0    *)
(* free).                                                                  *)
ResultsKept ==
    InUserMode /\ last[running] # "call" => cpu.r0 = Result(running)

(* Every live thread that is not running can be resumed from its thread    *)
(* control block: nobody else's registers are stored there.                *)
ContextsKept ==
    kpc = "user" =>
        \A t \in Threads \ {running} :
            state[t] # "TERMINATED" => context[t].regs = <<t, progress[t]>>
=============================================================================
