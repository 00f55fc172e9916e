------------------------------- MODULE Clock --------------------------------
(***************************************************************************)
(* Time in the kernel: the 64 bit counter that is read in two halves       *)
(* (useful_libraries/time.c), the 32 bit arithmetic of sleep and of the    *)
(* idle timer (Kernel/thread.c) and the compare register (timer.c).        *)
(*                                                                         *)
(* The devices are the four compare registers, their match bits and the    *)
(* interrupt controller (intr.c), which irq() (exceptions.c) asks for the  *)
(* source to serve.  As in QEMU (config.h) a compare register that was     *)
(* never written does not match.                                           *)
(*                                                                         *)
(* The counter is hardware and goes on while a handler runs: every read of *)
(* it is a step of its own, with ticks in between.  What the threads do    *)
(* besides sleeping is left out.  There are at most two of them, so that   *)
(* the repair loop of wake_threads never changes the order of the queue.   *)
(***************************************************************************)
EXTENDS Integers, Sequences, SequencesExt, FiniteSets, FiniteSetsExt

CONSTANTS
    Threads,          \* the threads
    W,                \* 2^32: the number of values of a half of the counter
    MILLI,            \* 1000: clock ticks in a millisecond
    MaxMillis,        \* longest argument of sleep()
    TIMER_INTERVAL,   \* length of a time slice, in ticks
    MaxLatency,       \* ticks that may pass while one handler runs
    MaxCounter        \* bound of the model

ASSUME ClockAssumption ==
    /\ IsFiniteSet(Threads) /\ Cardinality(Threads) \in 1 .. 2
    /\ W \in Nat /\ W > TIMER_INTERVAL
    /\ MILLI \in Nat \ {0} /\ MaxMillis \in 0 .. W - 1
    /\ TIMER_INTERVAL \in Nat \ {0}
    /\ MaxLatency \in Nat /\ MaxCounter \in Nat

VARIABLES
    counter,          \* the system timer, both halves
    c, cs,            \* timer_dev: compare registers and match bits
    c_user_values, timer_callbacks,
    enable_irq,       \* interrupts enabled in the interrupt controller
    uart_pending,     \* the receive interrupt of the UART
    called,           \* what timer_intr_h called last
    sleepqueue, wake_at,
    pc,               \* what the kernel does next, "user" outside of it
    current, millis,  \* caller and argument of the sleep in progress
    timer_high,       \* the half of the counter read first
    sleep_time,       \* local of reset_scheduler_timer
    spent,            \* ticks since the handler was entered, 0 outside
    due               \* when the time a thread asked for is really over

queueVars == <<sleepqueue, wake_at, due>>
timerVars == <<c, c_user_values, timer_callbacks, enable_irq>>
irqVars   == <<cs, uart_pending, called>>
callVars  == <<current, millis, sleep_time>>
vars == <<counter, timerVars, irqVars, queueVars, callVars, pc, timer_high, spent>>

Timers == 0 .. 3               \* NUM_TIMERS
SCHEDULER_TIMER == 3
IRQ_TIMER_BASE == 0
IRQ_UART == 57
UNSET == -1                    \* a compare register that was never written

clo == counter % W
chi == counter \div W

Asleep == Range(sleepqueue)

Init ==
    /\ counter = 0
    /\ c = [t \in Timers |-> IF t = SCHEDULER_TIMER THEN TIMER_INTERVAL ELSE UNSET]
    /\ c_user_values = [t \in Timers |-> IF t = SCHEDULER_TIMER THEN TIMER_INTERVAL ELSE 0]
    /\ timer_callbacks =
         [t \in Timers |-> IF t = SCHEDULER_TIMER THEN "scheduler" ELSE "NULL"]
    /\ enable_irq = {IRQ_UART, IRQ_TIMER_BASE + SCHEDULER_TIMER}
    /\ cs = {} /\ uart_pending = FALSE /\ called = "nothing"
    /\ sleepqueue = << >> /\ wake_at = [t \in Threads |-> 0]
    /\ pc = "user" /\ current \in Threads /\ millis = 0
    /\ timer_high = 0 /\ sleep_time = 0 /\ spent = 0
    /\ due = [t \in Threads |-> 0]

(* interrupt_get_pending: the interrupt numbers whose bit is set.          *)
Pending == ({IRQ_TIMER_BASE + t : t \in cs} \cup IF uart_pending THEN {IRQ_UART} ELSE {})
               \cap enable_irq

(* The counter counts; a pending interrupt is taken before the next tick   *)
(* in user mode.                                                           *)
Tick ==
    /\ counter < MaxCounter
    /\ IF pc = "user" THEN Pending = {} ELSE spent < MaxLatency
    /\ counter' = counter + 1
    /\ cs' = cs \cup {t \in Timers : c[t] = (counter + 1) % W}
    /\ spent' = IF pc = "user" THEN 0 ELSE spent + 1
    /\ UNCHANGED <<timerVars, uart_pending, called, queueVars, pc, callVars, timer_high>>

(* A character arrives, as a rule at any time.                             *)
CharArrives ==
    /\ ~uart_pending /\ uart_pending' = TRUE
    /\ UNCHANGED <<counter, timerVars, cs, called, queueVars, pc, callVars, timer_high, spent>>

(* timer_get_counter reads the high half first.                            *)
ReadHigh == timer_high' = chi

(* get_current_time once the low half is read as well.                     *)
CurrentTime == timer_high * W + clo

-----------------------------------------------------------------------------
(* Mutant: milliseconds are taken for ticks.                               *)
MillisAsTicks(m) == m

(* millis*1000 in 32 bits.                                                 *)
Duration(m) == (m * MILLI) % W

Sleep(t, m) ==
    /\ pc = "user" /\ Pending = {} /\ t \notin Asleep
    /\ current' = t /\ millis' = m
    /\ due' = [due EXCEPT ![t] = counter + m * MILLI]
    /\ ReadHigh
    /\ pc' = "sleep" /\ spent' = 0
    /\ UNCHANGED <<counter, timerVars, irqVars, sleepqueue, wake_at,
                   sleep_time>>

SetWakeTime ==
    /\ pc = "sleep"
    /\ wake_at' = [wake_at EXCEPT ![current] = CurrentTime + Duration(millis)]
    /\ sleepqueue' = <<current>> \o sleepqueue
    /\ pc' = "wake"
    /\ UNCHANGED <<counter, timerVars, irqVars, callVars, timer_high, spent,
                   due>>

(* irq() looks through all sources and serves the last one it finds.       *)
POSSIBLE_IRQS == {IRQ_TIMER_BASE + t : t \in Timers} \cup {IRQ_UART}

IrqSource == Max(Pending \cap POSSIBLE_IRQS)

(* Mutant: the index is read after it was incremented.                     *)
NextTimer == (Min(cs) + 1) % 4

(* timer_intr_h searches from the lowest match bit on.                     *)
MatchingTimer == Min(cs)

TimerIrq ==
    /\ pc = "user" /\ Pending # {} /\ IrqSource # IRQ_UART
    /\ LET t == MatchingTimer
       IN  /\ cs' = cs \ {t}
           /\ c' = [c EXCEPT ![t] = (@ + c_user_values[t]) % W]
           /\ called' = timer_callbacks[t]
    /\ pc' = "wake" /\ spent' = 0
    /\ UNCHANGED <<counter, c_user_values, timer_callbacks, enable_irq, uart_pending,
                   queueVars, callVars, timer_high>>

(* uart_intr_h, which takes the character and some time.                   *)
UartIrq ==
    /\ pc = "user" /\ Pending # {} /\ IrqSource = IRQ_UART
    /\ uart_pending' = FALSE
    /\ pc' = "uart" /\ spent' = 0
    /\ UNCHANGED <<counter, timerVars, cs, called, queueVars, callVars, timer_high>>

UartReturn ==
    /\ pc = "uart" /\ pc' = "user" /\ spent' = 0
    /\ UNCHANGED <<counter, timerVars, irqVars, queueVars, callVars, timer_high>>

-----------------------------------------------------------------------------
(* scheduler().  wake_threads reads the time once.                         *)
WakeReadsHigh ==
    /\ pc = "wake"
    /\ ReadHigh
    /\ pc' = "wake low"
    /\ UNCHANGED <<counter, timerVars, irqVars, queueVars, callVars, spent>>

StillAsleep == {t \in Asleep : wake_at[t] > CurrentTime}

(* Once a thread is removed at most one is left in the queue.              *)
WakeThreads ==
    /\ pc = "wake low"
    /\ sleepqueue' = IF StillAsleep = Asleep THEN sleepqueue ELSE SetToSeq(StillAsleep)
    /\ pc' = IF sleepqueue' = << >> \/ Range(sleepqueue') # Threads
             THEN "slice" ELSE "soonest"
    /\ UNCHANGED <<counter, timerVars, irqVars, wake_at, due, callVars,
                   timer_high, spent>>

(* setup_timer.  A compare value equal to the counter matches at once.     *)
Arm(t, ticks) ==
    /\ c' = [c EXCEPT ![t] = (clo + ticks) % W]
    /\ c_user_values' = [c_user_values EXCEPT ![t] = ticks]
    /\ enable_irq' = enable_irq \cup {IRQ_TIMER_BASE + t}
    /\ timer_callbacks' = [timer_callbacks EXCEPT ![t] = "scheduler"]
    /\ cs' = IF ticks % W = 0 THEN cs \cup {t} ELSE cs
    /\ pc' = "user" /\ spent' = 0
    (* the locals of the handlers are gone *)
    /\ millis' = 0 /\ sleep_time' = 0 /\ timer_high' = 0

(* reset_scheduler_timer when a thread is ready.                           *)
ArmSlice ==
    /\ pc = "slice"
    /\ Arm(SCHEDULER_TIMER, TIMER_INTERVAL)
    /\ UNCHANGED <<counter, uart_pending, called, queueVars, current>>

(* reset_scheduler_timer otherwise.                                        *)
SoonestReadsHigh ==
    /\ pc = "soonest"
    /\ ReadHigh
    /\ pc' = "soonest low"
    /\ UNCHANGED <<counter, timerVars, irqVars, queueVars, callVars, spent>>

(* Mutant: only the head of the queue counts.                              *)
SoonestIsHead == wake_at[Head(sleepqueue)] % W

(* The minimum is kept in 32 bits and compared with 64 bit wake times; the *)
(* loop over the rest of the queue meets at most one thread.               *)
Soonest ==
    LET first == wake_at[Head(sleepqueue)] % W
    IN  IF Len(sleepqueue) = 2 /\ wake_at[sleepqueue[2]] < first
        THEN wake_at[sleepqueue[2]] % W ELSE first

(* soonest - get_current_time(), cut to 32 bits.                           *)
SleepTime == (Soonest - CurrentTime) % W

ComputeSleepTime ==
    /\ pc = "soonest low"
    /\ sleep_time' = SleepTime
    /\ pc' = "arm"
    /\ UNCHANGED <<counter, timerVars, irqVars, queueVars, current, millis,
                   timer_high, spent>>

ArmIdle ==
    /\ pc = "arm"
    /\ Arm(SCHEDULER_TIMER, sleep_time)
    /\ UNCHANGED <<counter, uart_pending, called, queueVars, current>>

KernelStep ==
    \/ SetWakeTime \/ WakeReadsHigh \/ WakeThreads
    \/ ArmSlice \/ SoonestReadsHigh \/ ComputeSleepTime \/ ArmIdle

Next ==
    \/ Tick \/ CharArrives \/ TimerIrq \/ UartIrq \/ UartReturn
    \/ \E t \in Threads, m \in 1 .. MaxMillis : Sleep(t, m)
    \/ KernelStep

Spec == Init /\ [][Next]_vars

-----------------------------------------------------------------------------
(* Properties.                                                             *)

(* sys.h:31, "not scheduled for at least the given amount of time": no     *)
(* thread is woken before the time it asked for is over.                   *)
SleepsLongEnough ==
    [][\A t \in Asleep : t \notin Range(sleepqueue') => counter >= due[t]]_vars

(* When the counter reaches compare again.                                 *)
NextMatch == counter + 1 + ((c[SCHEDULER_TIMER] - counter - 1) % W)

(* thread.c:311, "start when next thread will wake up": while every thread *)
(* sleeps the timer matches at the first wake time, and no later than the  *)
(* time the handlers themselves take.                                      *)
IdleTimerInTime ==
    pc = "user" /\ Asleep = Threads /\ SCHEDULER_TIMER \notin cs =>
        \A t \in Threads :
            \/ NextMatch <= wake_at[t] + MaxLatency
            \/ NextMatch <= counter + MaxLatency

(* A match of the scheduler timer is acknowledged by the step that calls   *)
(* scheduler() and by no other: it is not lost when irq() serves a         *)
(* character first, and the search of timer_intr_h does not end at a timer *)
(* without a callback.                                                     *)
MatchesAnswered ==
    [][/\ called' # "NULL"
       /\ cs' # cs /\ cs' \subseteq cs => pc' = "wake" /\ called' = "scheduler"
       /\ pc = "user" /\ pc' = "wake" => cs' = cs \ {SCHEDULER_TIMER}]_vars
=============================================================================
