---------------------------- MODULE ClockProofs -----------------------------
(***************************************************************************)
(* Time, for every width of the counter and every length of sleeps, time   *)
(* slices and handlers: each match of the scheduler timer is answered;     *)
(* nobody is woken early unless the counter carries inside a handler; and  *)
(* the idle timer is in time as long as all wake times fit into 32 bits    *)
(* and the clock ticks at most once in a handler.                          *)
(***************************************************************************)
EXTENDS Clock, FiniteSetTheorems, SequenceTheorems, TLAPS

-----------------------------------------------------------------------------
(* Queues of at most two threads.                                          *)

Queues ==
    {<<>>} \cup {<<t>> : t \in Threads}
           \cup {<<p[1], p[2]>> : p \in {p \in Threads \X Threads : p[1] # p[2]}}

LEMMA AtMostTwo ==
  ASSUME NEW t \in Threads, NEW u \in Threads, NEW v \in Threads,
         t # u, t # v, u # v
  PROVE  FALSE
<1>1. IsFiniteSet({}) /\ Cardinality({}) = 0
  BY FS_EmptySet
<1>2. IsFiniteSet({t}) /\ Cardinality({t}) = 1
  BY FS_Singleton
<1>3. IsFiniteSet({t} \cup {u}) /\ Cardinality({t} \cup {u}) = 2
  BY <1>2, FS_AddElement
<1>4. Cardinality(({t} \cup {u}) \cup {v}) = 3
  BY <1>3, FS_AddElement
<1>5. Cardinality(({t} \cup {u}) \cup {v}) <= Cardinality(Threads)
  BY ClockAssumption, FS_Subset
<1> QED BY <1>4, <1>5, ClockAssumption

(* What a queue holds, and what becomes of it.                             *)
LEMMA QueueCases ==
  ASSUME NEW q \in Queues
  PROVE  \/ q = <<>> /\ Range(q) = {} /\ Len(q) = 0
         \/ \E t \in Threads :
              q = <<t>> /\ Range(q) = {t} /\ Len(q) = 1 /\ Head(q) = t
         \/ \E t, u \in Threads :
              /\ q = <<t, u>> /\ Range(q) = {t, u} /\ Range(q) = Threads
              /\ t # u /\ Len(q) = 2 /\ Head(q) = t /\ q[2] = u
<1>1. CASE q = <<>>
  BY <1>1 DEF Range
<1>2. ASSUME NEW t \in Threads, q = <<t>>
      PROVE  Range(q) = {t} /\ Len(q) = 1 /\ Head(q) = t
  BY <1>2 DEF Range
<1>3. ASSUME NEW t \in Threads, NEW u \in Threads, t # u, q = <<t, u>>
      PROVE  /\ Range(q) = {t, u} /\ Range(q) = Threads
             /\ Len(q) = 2 /\ Head(q) = t /\ q[2] = u
  <2>1. DOMAIN q = {1, 2} /\ q[1] = t /\ q[2] = u
    BY <1>3
  <2>2. Range(q) = {t, u}
    BY <2>1 DEF Range
  <2> QED BY <1>3, <2>1, <2>2, AtMostTwo
<1> QED BY <1>1, <1>2, <1>3 DEF Queues

LEMMA Joined ==
  ASSUME NEW t \in Threads, NEW u \in Threads
  PROVE  <<t>> \o <<>> = <<t>> /\ <<t>> \o <<u>> = <<t, u>>
<1> DEFINE s == <<t>> \o <<u>>
<1>1. <<t>> \o <<>> = <<t>>
  OBVIOUS
<1>2. s \in Seq(Threads) /\ Len(s) = 2 /\ s[1] = t /\ s[2] = u
  OBVIOUS
<1>3. /\ <<t, u>> \in Seq(Threads) /\ Len(<<t, u>>) = 2
      /\ <<t, u>>[1] = t /\ <<t, u>>[2] = u
  OBVIOUS
<1> HIDE DEF s
<1>4. \A i \in 1 .. Len(s) : s[i] = <<t, u>>[i]
  BY <1>2, <1>3
<1>5. s = <<t, u>>
  BY <1>2, <1>3, <1>4, SeqEqual
<1> QED BY <1>1, <1>5 DEF s

LEMMA Pushed ==
  ASSUME NEW q \in Queues, NEW t \in Threads, t \notin Range(q)
  PROVE  <<t>> \o q \in Queues /\ Range(<<t>> \o q) = Range(q) \cup {t}
<1>1. CASE q = <<>>
  <2>1. <<t>> \o q = <<t>> /\ Range(q) = {} /\ Range(<<t>>) = {t}
    BY <1>1, Joined DEF Range
  <2> QED BY <2>1 DEF Queues
<1>2. ASSUME NEW u \in Threads, q = <<u>>, Range(q) = {u}
      PROVE  /\ <<t>> \o q \in Queues
             /\ Range(<<t>> \o q) = Range(q) \cup {t}
  <2>1. <<t>> \o q = <<t, u>> /\ t # u
    BY <1>2, Joined
  <2>2. DOMAIN <<t, u>> = {1, 2} /\ <<t, u>>[1] = t /\ <<t, u>>[2] = u
    OBVIOUS
  <2>3. Range(<<t, u>>) = {t, u}
    BY <2>2 DEF Range
  <2>4. <<t, u>> \in Queues
    <3>1. <<t, u>> \in Threads \X Threads
      OBVIOUS
    <3> QED BY <3>1, <2>1, <2>2 DEF Queues
  <2> QED BY <1>2, <2>1, <2>3, <2>4
<1> QED BY <1>1, <1>2, QueueCases

(* The queue of one thread or none.                                        *)
LEMMA FewLeft ==
  ASSUME NEW S, S = {} \/ \E t \in Threads : S = {t}
  PROVE  SetToSeq(S) \in Queues /\ Range(SetToSeq(S)) = S
<1>1. CASE S = {}
  <2>1. Cardinality(S) = 0
    BY <1>1, FS_EmptySet
  <2>2. 1 .. Cardinality(S) = {}
    BY <2>1
  <2>3. \A f \in [1 .. Cardinality(S) -> S] : f = <<>>
    <3> TAKE f \in [1 .. Cardinality(S) -> S]
    <3>1. f \in Seq(S) /\ Len(f) = 0
      BY <2>1
    <3> QED BY <3>1, EmptySeq
  <2>4. <<>> \in [1 .. Cardinality(S) -> S] /\ IsInjective(<<>>)
    BY <2>2 DEF IsInjective
  <2>5. SetToSeq(S) = <<>>
    BY <2>3, <2>4 DEF SetToSeq
  <2>6. <<>> \in Queues /\ Range(<<>>) = {}
    BY DEF Queues, Range
  <2> QED BY <1>1, <2>5, <2>6
<1>2. ASSUME NEW t \in Threads, S = {t}
      PROVE  SetToSeq(S) \in Queues /\ Range(SetToSeq(S)) = S
  <2>1. 1 .. Cardinality(S) = {1}
    BY <1>2, FS_Singleton
  <2>2. DOMAIN <<t>> = {1} /\ <<t>>[1] = t
    OBVIOUS
  <2>3. <<t>> \in [{1} -> S] /\ IsInjective(<<t>>)
    BY <1>2, <2>2 DEF IsInjective
  <2>4. \A f \in [{1} -> S] : f = <<t>>
    <3> TAKE f \in [{1} -> S]
    <3>1. f = [i \in {1} |-> f[i]] /\ f[1] = t
      BY <1>2
    <3> QED BY <3>1, <2>2, <2>3
  <2>5. SetToSeq(S) = <<t>>
    BY <2>1, <2>3, <2>4 DEF SetToSeq
  <2>6. Range(<<t>>) = {t}
    BY <2>2 DEF Range
  <2> QED BY <1>2, <2>5, <2>6 DEF Queues
<1> QED BY <1>1, <1>2

-----------------------------------------------------------------------------
(* Arithmetic of the two halves.                                           *)

LEMMA ClockConstants ==
  /\ W \in Nat \ {0} /\ MILLI \in Nat \ {0} /\ MaxMillis \in 0 .. W - 1
  /\ TIMER_INTERVAL \in 1 .. W - 1 /\ MaxLatency \in Nat /\ MaxCounter \in Nat
BY ClockAssumption

LEMMA Remainder ==
  ASSUME NEW n \in Nat \ {0}, NEW k \in Int, NEW r \in 0 .. n - 1
  PROVE  (n * k + r) % n = r
OBVIOUS

LEMMA DivMod ==
  ASSUME NEW n \in Nat \ {0}, NEW a \in Int
  PROVE  /\ a \div n \in Int /\ a % n \in 0 .. n - 1
         /\ a = n * (a \div n) + (a % n)
<1>1. a \div n \in Int /\ a % n \in 0 .. n - 1
  OBVIOUS
<1>2. a = n * (a \div n) + (a % n)
  OBVIOUS
<1> QED BY <1>1, <1>2

LEMMA Times ==
  ASSUME NEW h \in Nat, NEW m \in Nat
  PROVE  h * m \in Nat /\ h * m = m * h
<1>1. h * m \in Int /\ h * m = m * h
  OBVIOUS
<1>2. h * m >= 0
  OBVIOUS
<1> QED BY <1>1, <1>2

(* The halves put together are the counter.                                *)
LEMMA Halves ==
  ASSUME NEW a \in Nat
  PROVE  /\ a \div W \in Nat /\ a % W \in 0 .. W - 1
         /\ a = (a \div W) * W + (a % W)
<1>1. /\ a \div W \in Int /\ a % W \in 0 .. W - 1
      /\ a = W * (a \div W) + (a % W)
  BY DivMod, ClockConstants
<1>2. \A n \in Nat \ {0} : \A q \in Int : q < 0 => n * q <= -n
  OBVIOUS
<1>3. a \div W >= 0
  BY <1>1, <1>2, ClockConstants
<1> QED BY <1>1, <1>3, Times, ClockConstants

LEMMA MaxIs ==
  ASSUME NEW S \in SUBSET Nat, NEW x \in S, \A y \in S : x >= y
  PROVE  Max(S) = x
<1>1. \A z \in S : (\A y \in S : z >= y) => z = x
  OBVIOUS
<1> QED BY <1>1 DEF Max

LEMMA MinIs ==
  ASSUME NEW x \in Nat
  PROVE  Min({x}) = x
BY DEF Min

-----------------------------------------------------------------------------
(* What the steps keep.                                                    *)

PCs == {"user", "uart", "sleep", "wake", "wake low", "slice", "soonest",
        "soonest low", "arm"}

(* The scheduler timer is the only one that is ever set, and it stays      *)
(* enabled and with its callback.                                          *)
TimersTyped ==
    /\ counter \in Nat
    /\ c \in [Timers -> Int] /\ c[SCHEDULER_TIMER] \in 0 .. W - 1
    /\ \A t \in Timers \ {SCHEDULER_TIMER} : c[t] = UNSET
    /\ c_user_values \in [Timers -> Nat]
    /\ timer_callbacks \in [Timers -> {"scheduler", "NULL"}]
    /\ timer_callbacks[SCHEDULER_TIMER] = "scheduler"
    /\ enable_irq = {IRQ_UART, IRQ_TIMER_BASE + SCHEDULER_TIMER}
    /\ cs \in SUBSET {SCHEDULER_TIMER} /\ uart_pending \in BOOLEAN
    /\ called \in {"nothing", "scheduler"}

QueueTyped ==
    /\ sleepqueue \in Queues
    /\ wake_at \in [Threads -> Nat] /\ due \in [Threads -> Nat]

CallTyped ==
    /\ pc \in PCs /\ current \in Threads /\ millis \in 0 .. MaxMillis
    /\ timer_high \in Nat /\ sleep_time \in 0 .. W - 1
    /\ spent \in 0 .. MaxLatency
    /\ pc = "sleep" => current \notin Asleep

(* Where the scheduler is says who sleeps.                                 *)
AllSleepAt ==
    /\ pc = "slice" => Asleep # Threads
    /\ pc \in {"soonest", "soonest low", "arm"} => Asleep = Threads

Typed == TimersTyped /\ QueueTyped /\ CallTyped /\ AllSleepAt

LEMMA AsleepIs ==
  ASSUME QueueTyped
  PROVE  Asleep \in SUBSET Threads
BY QueueCases DEF QueueTyped, Asleep

LEMMA CurrentTimeType ==
  ASSUME timer_high \in Nat, counter \in Nat
  PROVE  CurrentTime \in Nat /\ clo \in 0 .. W - 1 /\ chi \in Nat
<1>1. clo \in 0 .. W - 1 /\ chi \in Nat
  BY Halves DEF clo, chi
<1>2. timer_high * W \in Nat
  BY Times, ClockConstants
<1> QED BY <1>1, <1>2, ClockConstants DEF CurrentTime

LEMMA InitTyped == Init => Typed
<1> SUFFICES ASSUME Init PROVE Typed
  OBVIOUS
<1>1. /\ counter \in Nat /\ c \in [Timers -> Int]
      /\ c[SCHEDULER_TIMER] \in 0 .. W - 1
      /\ \A t \in Timers \ {SCHEDULER_TIMER} : c[t] = UNSET
  BY ClockConstants DEF Init, Timers, SCHEDULER_TIMER, UNSET
<1>2. /\ c_user_values \in [Timers -> Nat]
      /\ timer_callbacks \in [Timers -> {"scheduler", "NULL"}]
      /\ timer_callbacks[SCHEDULER_TIMER] = "scheduler"
  BY ClockConstants DEF Init, Timers, SCHEDULER_TIMER
<1>3. TimersTyped
  BY <1>1, <1>2 DEF Init, TimersTyped
<1>4. QueueTyped
  BY DEF Init, QueueTyped, Queues
<1>5. CallTyped /\ AllSleepAt
  BY ClockConstants DEF Init, CallTyped, AllSleepAt, PCs
<1> QED BY <1>3, <1>4, <1>5 DEF Typed

(* Only the timer and the character can be pending.                        *)
LEMMA PendingIs ==
  ASSUME TimersTyped
  PROVE  /\ Pending \subseteq {SCHEDULER_TIMER, IRQ_UART}
         /\ SCHEDULER_TIMER \in Pending <=> SCHEDULER_TIMER \in cs
         /\ IRQ_UART \in Pending <=> uart_pending
         /\ Pending # {} => IrqSource = IF uart_pending THEN IRQ_UART ELSE SCHEDULER_TIMER
<1>1. cs = {} \/ cs = {SCHEDULER_TIMER}
  BY DEF TimersTyped
<1>2. {IRQ_TIMER_BASE + t : t \in cs} = cs
  BY <1>1 DEF IRQ_TIMER_BASE, SCHEDULER_TIMER
<1>3. enable_irq = {IRQ_UART, SCHEDULER_TIMER} /\ IRQ_UART # SCHEDULER_TIMER
  BY DEF TimersTyped, IRQ_TIMER_BASE, SCHEDULER_TIMER, IRQ_UART
<1>4. CASE uart_pending
  <2>1. Pending = cs \cup {IRQ_UART}
    BY <1>1, <1>2, <1>3, <1>4 DEF Pending
  <2>2. IRQ_UART \in POSSIBLE_IRQS
    BY DEF POSSIBLE_IRQS
  <2>3. Pending \cap POSSIBLE_IRQS \in SUBSET Nat
    BY <1>1, <2>1 DEF IRQ_UART, SCHEDULER_TIMER
  <2>4. \A y \in Pending \cap POSSIBLE_IRQS : IRQ_UART >= y
    BY <1>1, <2>1 DEF IRQ_UART, SCHEDULER_TIMER
  <2>5. IrqSource = IRQ_UART
    BY <2>1, <2>2, <2>3, <2>4, MaxIs DEF IrqSource
  <2> QED BY <1>1, <1>3, <1>4, <2>1, <2>5
<1>5. CASE ~uart_pending
  <2>1. Pending = cs
    BY <1>1, <1>2, <1>3, <1>5 DEF Pending
  <2>2. SCHEDULER_TIMER \in POSSIBLE_IRQS
    BY DEF POSSIBLE_IRQS, IRQ_TIMER_BASE, SCHEDULER_TIMER, Timers
  <2>3. Pending # {} => Pending \cap POSSIBLE_IRQS = {SCHEDULER_TIMER}
    BY <1>1, <2>1, <2>2
  <2>4. Pending # {} => IrqSource = SCHEDULER_TIMER
    BY <2>3, MaxIs DEF IrqSource, SCHEDULER_TIMER
  <2> QED BY <1>1, <1>3, <1>5, <2>1, <2>4
<1> QED BY <1>4, <1>5

(* What irq() does when it serves the timer.                               *)
LEMMA TimerServed ==
  ASSUME TimersTyped, TimerIrq
  PROVE  /\ cs = {SCHEDULER_TIMER} /\ cs' = {} /\ called' = "scheduler"
         /\ c' = [c EXCEPT ![SCHEDULER_TIMER] =
                     (@ + c_user_values[SCHEDULER_TIMER]) % W]
<1>1. SCHEDULER_TIMER \in cs
  BY PendingIs DEF TimersTyped, TimerIrq, IRQ_UART, SCHEDULER_TIMER
<1>2. cs = {SCHEDULER_TIMER}
  BY <1>1 DEF TimersTyped
<1>3. MatchingTimer = SCHEDULER_TIMER
  BY <1>2, MinIs DEF MatchingTimer, SCHEDULER_TIMER
<1> QED BY <1>2, <1>3 DEF TimersTyped, TimerIrq

(* What wake_threads leaves in the queue.                                  *)
LEMMA WakeLeaves ==
  ASSUME QueueTyped, WakeThreads
  PROVE  /\ sleepqueue' \in Queues /\ Asleep' = StillAsleep
         /\ Asleep' = Threads => sleepqueue' = sleepqueue
         /\ pc' = IF Asleep' = Threads THEN "soonest" ELSE "slice"
<1>1. StillAsleep \subseteq Asleep
  BY DEF StillAsleep
<1>2. ASSUME StillAsleep = Asleep
      PROVE  sleepqueue' = sleepqueue /\ Asleep' = StillAsleep
  BY <1>2 DEF WakeThreads, Asleep
<1>3. ASSUME StillAsleep # Asleep
      PROVE  /\ StillAsleep = {} \/ \E t \in Threads : StillAsleep = {t}
             /\ StillAsleep # Threads
  <2>1. CASE Asleep = {}
    BY <1>1, <1>3, <2>1
  <2>2. ASSUME NEW t \in Threads, Asleep = {t}
        PROVE  StillAsleep = {} /\ StillAsleep # Threads
    BY <1>1, <1>3, <2>2
  <2>3. ASSUME NEW t \in Threads, NEW u \in Threads,
               Asleep = {t, u}, t # u, Asleep = Threads
        PROVE  /\ StillAsleep = {} \/ StillAsleep = {t} \/ StillAsleep = {u}
               /\ StillAsleep # Threads
    BY <1>1, <1>3, <2>3
  <2> QED BY <2>1, <2>2, <2>3, QueueCases DEF QueueTyped, Asleep
<1>4. /\ sleepqueue' \in Queues /\ Asleep' = StillAsleep
      /\ Asleep' = Threads => sleepqueue' = sleepqueue
  <2>1. CASE StillAsleep = Asleep
    BY <1>2, <2>1 DEF QueueTyped
  <2>2. CASE StillAsleep # Asleep
    BY <1>3, <2>2, FewLeft DEF WakeThreads, Asleep
  <2> QED BY <2>1, <2>2
<1>5. sleepqueue' = <<>> => Range(sleepqueue') = {}
  BY DEF Range
<1>6. Threads # {}
  BY ClockAssumption, FS_EmptySet
<1> QED BY <1>4, <1>5, <1>6 DEF WakeThreads, Asleep

(* Setting the scheduler timer, as both forms of reset_scheduler_timer do. *)
LEMMA ArmTyped ==
  ASSUME TimersTyped, NEW ticks \in 0 .. W - 1, Arm(SCHEDULER_TIMER, ticks),
         UNCHANGED <<counter, uart_pending, called>>
  PROVE  /\ TimersTyped' /\ pc' = "user" /\ spent' = 0 /\ millis' = 0
         /\ sleep_time' = 0 /\ timer_high' = 0
         /\ c'[SCHEDULER_TIMER] = (clo + ticks) % W
<1>1. clo \in 0 .. W - 1
  BY Halves DEF clo, TimersTyped
<1>2. (clo + ticks) % W \in 0 .. W - 1
  BY <1>1, DivMod, ClockConstants
<1>3. /\ c' \in [Timers -> Int] /\ c'[SCHEDULER_TIMER] = (clo + ticks) % W
      /\ \A t \in Timers \ {SCHEDULER_TIMER} : c'[t] = UNSET
  BY <1>2 DEF Arm, TimersTyped, Timers, SCHEDULER_TIMER
<1>4. c_user_values' \in [Timers -> Nat]
  <2>1. ticks \in Nat
    BY ClockConstants
  <2>2. c_user_values' = [c_user_values EXCEPT ![SCHEDULER_TIMER] = ticks]
    BY DEF Arm
  <2> QED BY <2>1, <2>2 DEF TimersTyped
<1>5. /\ timer_callbacks' \in [Timers -> {"scheduler", "NULL"}]
      /\ timer_callbacks'[SCHEDULER_TIMER] = "scheduler"
  BY DEF Arm, TimersTyped, Timers, SCHEDULER_TIMER
<1>6. enable_irq' = {IRQ_UART, IRQ_TIMER_BASE + SCHEDULER_TIMER}
  BY Zenon DEF Arm, TimersTyped
<1>7. cs' \in SUBSET {SCHEDULER_TIMER}
  <2>1. cs' = cs \cup {SCHEDULER_TIMER} \/ cs' = cs
    BY DEF Arm
  <2> QED BY <2>1 DEF TimersTyped
<1> QED BY <1>2, <1>3, <1>4, <1>5, <1>6, <1>7 DEF Arm, TimersTyped

LEMMA SoonestType ==
  ASSUME QueueTyped, Asleep = Threads
  PROVE  Soonest \in 0 .. W - 1
<1>1. \A t \in Threads : wake_at[t] \in Nat
  BY DEF QueueTyped
<1>2. \A t \in Threads : wake_at[t] % W \in 0 .. W - 1
  BY <1>1, Halves
<1>3. Threads # {}
  BY ClockAssumption, FS_EmptySet
<1>4. /\ Head(sleepqueue) \in Threads
      /\ Len(sleepqueue) = 2 => sleepqueue[2] \in Threads
  BY <1>3, QueueCases DEF QueueTyped, Asleep
<1> QED BY <1>2, <1>4 DEF Soonest

LEMMA NextTyped ==
  ASSUME Typed, [Next]_vars
  PROVE  Typed'
<1> USE DEF Typed
<1>1. CASE Tick
  <2>1. cs' \in SUBSET {SCHEDULER_TIMER}
    <3>1. (counter + 1) % W \in 0 .. W - 1
      BY Halves DEF TimersTyped
    <3>2. \A t \in Timers : c[t] = (counter + 1) % W => t = SCHEDULER_TIMER
      BY <3>1 DEF TimersTyped, UNSET
    <3> QED BY <1>1, <3>2 DEF Tick, TimersTyped
  <2>2. counter' \in Nat /\ spent' \in 0 .. MaxLatency
    BY <1>1, ClockConstants DEF Tick, TimersTyped, CallTyped
  <2> QED BY <1>1, <2>1, <2>2 DEF Tick, TimersTyped, QueueTyped, CallTyped, AllSleepAt,
        timerVars, queueVars, callVars, Asleep
<1>2. CASE CharArrives
  BY <1>2 DEF CharArrives, TimersTyped, QueueTyped, CallTyped, AllSleepAt,
     timerVars, queueVars, callVars, Asleep
<1>3. CASE TimerIrq
  <2>1. /\ cs' = {} /\ called' = "scheduler"
        /\ c' = [c EXCEPT ![SCHEDULER_TIMER] =
                    (@ + c_user_values[SCHEDULER_TIMER]) % W]
    BY <1>3, TimerServed
  <2>2. c_user_values[SCHEDULER_TIMER] \in Nat
    BY DEF TimersTyped, Timers, SCHEDULER_TIMER
  <2>3. (c[SCHEDULER_TIMER] + c_user_values[SCHEDULER_TIMER]) % W \in 0 .. W - 1
    <3>1. c[SCHEDULER_TIMER] + c_user_values[SCHEDULER_TIMER] \in Nat
      BY <2>2, ClockConstants DEF TimersTyped
    <3> QED BY <3>1, Halves
  <2>4. TimersTyped'
    <3>1. /\ c' \in [Timers -> Int] /\ c'[SCHEDULER_TIMER] \in 0 .. W - 1
          /\ \A t \in Timers \ {SCHEDULER_TIMER} : c'[t] = UNSET
      BY <2>1, <2>3 DEF TimersTyped, Timers, SCHEDULER_TIMER
    <3> QED BY <1>3, <2>1, <3>1 DEF TimerIrq, TimersTyped
  <2> QED BY <1>3, <2>4, ClockConstants DEF TimerIrq, QueueTyped, CallTyped,
        AllSleepAt, queueVars, callVars, Asleep, PCs
<1>4. CASE UartIrq
  <2>1. TimersTyped'
    BY <1>4 DEF UartIrq, TimersTyped, timerVars
  <2> QED BY <1>4, <2>1, ClockConstants DEF UartIrq, QueueTyped, CallTyped,
        AllSleepAt, queueVars, callVars, Asleep, PCs
<1>5. CASE UartReturn
  BY <1>5, ClockConstants DEF UartReturn, TimersTyped, QueueTyped, CallTyped, AllSleepAt,
     timerVars, irqVars, queueVars, callVars, Asleep, PCs
<1>6. ASSUME NEW t \in Threads, NEW m \in 1 .. MaxMillis, Sleep(t, m)
      PROVE  Typed'
  <2>1. m * MILLI \in Nat
    BY Times, ClockConstants
  <2>2. due' \in [Threads -> Nat]
    BY <1>6, <2>1 DEF Sleep, QueueTyped, TimersTyped
  <2>3. timer_high' \in Nat
    BY <1>6, CurrentTimeType DEF Sleep, ReadHigh, CallTyped, TimersTyped
  <2> QED BY <1>6, <2>2, <2>3, ClockConstants DEF Sleep, TimersTyped, QueueTyped,
        CallTyped, AllSleepAt, timerVars, irqVars, Asleep, PCs
<1>7. CASE SetWakeTime
  <2>1. Duration(millis) \in 0 .. W - 1 /\ CurrentTime \in Nat
    BY CurrentTimeType, Times, Halves, ClockConstants
       DEF Duration, CallTyped, TimersTyped
  <2>2. wake_at' \in [Threads -> Nat]
    <3>1. CurrentTime + Duration(millis) \in Nat
      BY <2>1, ClockConstants
    <3> QED BY <1>7, <3>1 DEF SetWakeTime, QueueTyped
  <2>3. sleepqueue' \in Queues
    BY <1>7, Pushed DEF SetWakeTime, QueueTyped, CallTyped, Asleep
  <2> QED BY <1>7, <2>2, <2>3 DEF SetWakeTime, TimersTyped, QueueTyped, CallTyped,
        AllSleepAt, timerVars, irqVars, callVars, PCs
<1>8. CASE WakeReadsHigh
  BY <1>8, CurrentTimeType DEF WakeReadsHigh, ReadHigh, TimersTyped, QueueTyped,
     CallTyped, AllSleepAt, timerVars, irqVars, queueVars, callVars, Asleep, PCs
<1>9. CASE WakeThreads
  BY <1>9, WakeLeaves DEF WakeThreads, TimersTyped, QueueTyped, CallTyped, AllSleepAt,
     timerVars, irqVars, callVars, PCs
<1>10. CASE ArmSlice
  <2>1. TIMER_INTERVAL \in 0 .. W - 1
    BY ClockConstants
  <2>2. /\ TimersTyped' /\ pc' = "user" /\ spent' = 0 /\ millis' = 0
        /\ sleep_time' = 0 /\ timer_high' = 0
    BY <1>10, <2>1, ArmTyped DEF ArmSlice
  <2>3. CallTyped' /\ AllSleepAt'
    BY <1>10, <2>2, ClockConstants DEF ArmSlice, CallTyped, AllSleepAt, PCs
  <2> QED BY <1>10, <2>2, <2>3 DEF ArmSlice, QueueTyped, queueVars
<1>11. CASE SoonestReadsHigh
  BY <1>11, CurrentTimeType DEF SoonestReadsHigh, ReadHigh, TimersTyped, QueueTyped,
     CallTyped, AllSleepAt, timerVars, irqVars, queueVars, callVars, Asleep, PCs
<1>12. CASE ComputeSleepTime
  <2>1. SleepTime \in 0 .. W - 1
    <3>1. Soonest \in Int
      <4>1. Asleep = Threads
        BY <1>12 DEF ComputeSleepTime, AllSleepAt
      <4> QED BY <4>1, SoonestType, ClockConstants
    <3> QED BY <3>1, CurrentTimeType, DivMod, ClockConstants
          DEF SleepTime, CallTyped, TimersTyped
  <2> QED BY <1>12, <2>1 DEF ComputeSleepTime, TimersTyped, QueueTyped, CallTyped,
        AllSleepAt, timerVars, irqVars, queueVars, Asleep, PCs
<1>13. CASE ArmIdle
  <2>1. sleep_time \in 0 .. W - 1
    BY DEF CallTyped
  <2>2. /\ TimersTyped' /\ pc' = "user" /\ spent' = 0 /\ millis' = 0
        /\ sleep_time' = 0 /\ timer_high' = 0
    BY <1>13, <2>1, ArmTyped DEF ArmIdle
  <2>3. CallTyped' /\ AllSleepAt'
    BY <1>13, <2>2, ClockConstants DEF ArmIdle, CallTyped, AllSleepAt, PCs
  <2> QED BY <1>13, <2>2, <2>3 DEF ArmIdle, QueueTyped, queueVars
<1>14. CASE UNCHANGED vars
  BY <1>14 DEF vars, TimersTyped, QueueTyped, CallTyped, AllSleepAt, timerVars,
     irqVars, queueVars, callVars, Asleep
<1> QED BY <1>1, <1>2, <1>3, <1>4, <1>5, <1>6, <1>7, <1>8, <1>9, <1>10, <1>11,
       <1>12, <1>13, <1>14 DEF Next, KernelStep

(* The state of the clock, the queue and the handlers stays well formed;   *)
(* in particular the scheduler timer is the only one ever set, so that its *)
(* interrupt always finds a callback.                                      *)
LEMMA ClockTyped == Spec => []Typed
<1>1. Init => Typed
  BY InitTyped
<1>2. Typed /\ [Next]_vars => Typed'
  BY NextTyped
<1> QED BY <1>1, <1>2, PTL DEF Spec

-----------------------------------------------------------------------------
(* Whatever is served first, a match of the scheduler timer calls          *)
(* scheduler() once and no other step acknowledges it.                     *)
THEOREM EveryMatchAnswered == Spec => MatchesAnswered
<1> DEFINE Answered ==
        /\ called' # "NULL"
        /\ cs' # cs /\ cs' \subseteq cs => pc' = "wake" /\ called' = "scheduler"
        /\ pc = "user" /\ pc' = "wake" => cs' = cs \ {SCHEDULER_TIMER}
<1>1. ASSUME Typed, [Next]_vars PROVE [Answered]_vars
  <2>1. CASE TimerIrq
    <3>1. /\ cs = {SCHEDULER_TIMER} /\ cs' = {} /\ called' = "scheduler"
          /\ pc' = "wake"
      BY <1>1, <2>1, TimerServed DEF Typed, TimerIrq
    <3> QED BY <3>1
  <2>2. ASSUME cs \subseteq cs', called' = called, pc = "user" => pc' # "wake"
        PROVE  Answered
    <3>1. called # "NULL"
      BY <1>1 DEF Typed, TimersTyped
    <3> QED BY <2>2, <3>1
  <2>3. CASE Tick \/ CharArrives \/ UartIrq \/ UartReturn
    BY <2>2, <2>3 DEF Tick, CharArrives, UartIrq, UartReturn, irqVars
  <2>4. ASSUME NEW t \in Threads, NEW m \in 1 .. MaxMillis, Sleep(t, m)
        PROVE  Answered
    BY <2>2, <2>4 DEF Sleep, irqVars
  <2>5. CASE KernelStep
    BY <2>2, <2>5 DEF KernelStep, SetWakeTime, WakeReadsHigh, WakeThreads, ArmSlice,
       SoonestReadsHigh, ComputeSleepTime, ArmIdle, Arm, irqVars
  <2> QED BY <1>1, <2>1, <2>3, <2>4, <2>5 DEF Next
<1> QED BY <1>1, ClockTyped, PTL DEF Spec, MatchesAnswered

-----------------------------------------------------------------------------
(* Nobody is woken early, as long as the high half of the counter does not *)
(* change while a handler reads the time.                                  *)

SteadyNext == Next /\ (pc # "user" => chi' = chi)
SteadySpec == Init /\ [][SteadyNext]_vars

(* The half that was read is still right, and no wake time is before the   *)
(* end of the time that was asked for.                                     *)
HighRight == pc \in {"sleep", "wake low", "soonest low"} => timer_high = chi
WakeNotEarly ==
    /\ \A t \in Asleep : due[t] <= wake_at[t]
    /\ pc = "sleep" => due[current] <= counter + millis * MILLI
RightTimes == HighRight /\ WakeNotEarly

(* With the high half right the time that is read is the counter.          *)
LEMMA TimeRead ==
  ASSUME counter \in Nat, timer_high = chi
  PROVE  CurrentTime = counter
BY Halves DEF CurrentTime, chi, clo

(* Sleeps that fit into 32 bits of microseconds are not cut.               *)
LEMMA DurationWhole ==
  ASSUME MaxMillis * MILLI < W, NEW m \in 0 .. MaxMillis
  PROVE  Duration(m) = m * MILLI /\ m * MILLI \in 0 .. W - 1
<1>1. /\ m \in Nat /\ MaxMillis - m \in Nat /\ m * MILLI \in Nat
      /\ (MaxMillis - m) * MILLI \in Nat
  BY Times, ClockConstants
<1>2. \A a, b, k \in Int : (a - b) * k = a * k - b * k
  OBVIOUS
<1>3. (MaxMillis - m) * MILLI = MaxMillis * MILLI - m * MILLI
  BY <1>2, ClockConstants
<1>4. MaxMillis * MILLI \in Nat
  BY Times, ClockConstants
<1>5. m * MILLI \in 0 .. W - 1
  BY <1>1, <1>3, <1>4, ClockConstants
<1>6. (W * 0 + (m * MILLI)) % W = m * MILLI
  BY <1>5, Remainder, ClockConstants
<1> QED BY <1>5, <1>6, ClockConstants DEF Duration

LEMMA SteadyRight ==
  ASSUME MaxMillis * MILLI < W, Typed, RightTimes, [SteadyNext]_vars
  PROVE  RightTimes'
<1>0. chi \in Nat /\ counter \in Nat
  BY CurrentTimeType DEF Typed, TimersTyped, CallTyped
<1>1. CASE Tick /\ (pc # "user" => chi' = chi)
  <2>1. HighRight'
    BY <1>1 DEF Tick, RightTimes, HighRight
  <2>2. \A t \in Asleep' : due'[t] <= wake_at'[t]
    BY <1>1 DEF Tick, RightTimes, WakeNotEarly, queueVars, Asleep
  <2>3. pc' = "sleep" => due'[current'] <= counter' + millis' * MILLI
    <3>1. due[current] \in Nat /\ millis * MILLI \in Nat
      BY Times, ClockConstants DEF Typed, QueueTyped, CallTyped
    <3> QED BY <1>0, <1>1, <3>1 DEF Tick, RightTimes, WakeNotEarly, queueVars, callVars
  <2> QED BY <2>1, <2>2, <2>3 DEF RightTimes, WakeNotEarly
<1>2. CASE CharArrives
  BY <1>2 DEF CharArrives, RightTimes, HighRight, WakeNotEarly, chi, Asleep, queueVars,
     callVars
<1>3. CASE TimerIrq
  BY <1>3 DEF TimerIrq, RightTimes, HighRight, WakeNotEarly, Asleep, queueVars
<1>4. CASE UartIrq \/ UartReturn
  BY <1>4 DEF UartIrq, UartReturn, RightTimes, HighRight, WakeNotEarly, Asleep, queueVars
<1>5. ASSUME NEW t \in Threads, NEW m \in 1 .. MaxMillis, Sleep(t, m)
      PROVE  RightTimes'
  <2>1. HighRight'
    BY <1>5 DEF Sleep, ReadHigh, HighRight, chi
  <2>2. Asleep' = Asleep /\ t \notin Asleep /\ wake_at' = wake_at
        /\ due' = [due EXCEPT ![t] = counter + m * MILLI]
    BY <1>5 DEF Sleep, Asleep
  <2>3. \A u \in Asleep' : due'[u] <= wake_at'[u]
    BY <2>2, AsleepIs DEF Typed, QueueTyped, RightTimes, WakeNotEarly
  <2>4. due'[current'] = counter + m * MILLI /\ counter' = counter /\ millis' = m
    BY <1>5, <2>2 DEF Sleep, Typed, QueueTyped
  <2>5. counter + m * MILLI \in Nat
    BY <1>0, Times, ClockConstants
  <2> QED BY <2>1, <2>3, <2>4, <2>5 DEF RightTimes, WakeNotEarly
<1>6. CASE SetWakeTime
  <2>1. CurrentTime = counter
    BY <1>0, <1>6, TimeRead DEF SetWakeTime, RightTimes, HighRight
  <2>2. Duration(millis) = millis * MILLI /\ millis * MILLI \in Nat
    BY DurationWhole, ClockConstants DEF Typed, CallTyped
  <2>3. /\ Asleep' = Asleep \cup {current} /\ due' = due
        /\ wake_at' = [wake_at EXCEPT ![current] = counter + millis * MILLI]
    BY <1>6, <2>1, <2>2, Pushed DEF SetWakeTime, Typed, QueueTyped, CallTyped, Asleep
  <2>4. due[current] <= counter + millis * MILLI
    BY <1>6 DEF SetWakeTime, RightTimes, WakeNotEarly
  <2>5. \A t \in Asleep' : due'[t] <= wake_at'[t]
    BY <2>3, <2>4, AsleepIs DEF Typed, QueueTyped, CallTyped, RightTimes, WakeNotEarly
  <2> QED BY <1>6, <2>5 DEF SetWakeTime, RightTimes, HighRight, WakeNotEarly
<1>7. CASE WakeReadsHigh \/ SoonestReadsHigh
  BY <1>7 DEF WakeReadsHigh, SoonestReadsHigh, ReadHigh, RightTimes, HighRight,
     WakeNotEarly, Asleep, queueVars, chi
<1>8. CASE WakeThreads
  <2>1. Asleep' \subseteq Asleep /\ pc' \in {"slice", "soonest"}
    BY <1>8, WakeLeaves DEF Typed, StillAsleep
  <2> QED BY <1>8, <2>1 DEF WakeThreads, RightTimes, HighRight, WakeNotEarly
<1>9. CASE ArmSlice \/ ArmIdle
  BY <1>9 DEF ArmSlice, ArmIdle, Arm, RightTimes, HighRight, WakeNotEarly, Asleep,
     queueVars
<1>10. CASE ComputeSleepTime
  BY <1>10 DEF ComputeSleepTime, RightTimes, HighRight, WakeNotEarly, Asleep, queueVars
<1>11. CASE UNCHANGED vars
  BY <1>11 DEF vars, RightTimes, HighRight, WakeNotEarly, Asleep, queueVars, callVars, chi
<1> QED BY <1>1, <1>2, <1>3, <1>4, <1>5, <1>6, <1>7, <1>8, <1>9, <1>10, <1>11
        DEF SteadyNext, Next, KernelStep

LEMMA SteadyKeeps ==
  ASSUME MaxMillis * MILLI < W
  PROVE  SteadySpec => [](Typed /\ RightTimes)
<1>1. Init => Typed /\ RightTimes
  <2>1. Init => RightTimes
    BY QueueCases DEF Init, RightTimes, HighRight, WakeNotEarly, Asleep, Queues
  <2> QED BY <2>1, InitTyped
<1>2. Typed /\ RightTimes /\ [SteadyNext]_vars => (Typed /\ RightTimes)'
  BY NextTyped, SteadyRight DEF SteadyNext
<1> QED BY <1>1, <1>2, PTL DEF SteadySpec

(* sys.h:31: a thread sleeps for at least the given time, for every length *)
(* of a sleep that fits into 32 bits of microseconds and however often the *)
(* low half of the counter wraps around outside of the handlers.           *)
THEOREM NobodyWokenEarly ==
  ASSUME MaxMillis * MILLI < W
  PROVE  SteadySpec => SleepsLongEnough
<1> DEFINE Waited == \A t \in Asleep : t \notin Range(sleepqueue') => counter >= due[t]
<1>1. ASSUME Typed, RightTimes, [SteadyNext]_vars PROVE [Waited]_vars
  <2>1. CASE WakeThreads
    <3>1. CurrentTime = counter
      BY <1>1, <2>1, TimeRead DEF WakeThreads, Typed, TimersTyped, RightTimes, HighRight
    <3>2. Range(sleepqueue') = StillAsleep
      BY <1>1, <2>1, WakeLeaves DEF Typed, Asleep
    <3>3. \A t \in Asleep : /\ due[t] \in Nat /\ wake_at[t] \in Nat
                            /\ due[t] <= wake_at[t]
      BY <1>1, AsleepIs DEF Typed, QueueTyped, RightTimes, WakeNotEarly
    <3> QED BY <1>1, <3>1, <3>2, <3>3 DEF StillAsleep, Typed, TimersTyped
  <2>2. ASSUME Asleep \subseteq Asleep' PROVE Waited
    BY <2>2 DEF Asleep
  <2>3. CASE SetWakeTime
    BY <1>1, <2>2, <2>3, Pushed DEF SetWakeTime, Typed, QueueTyped, CallTyped, Asleep
  <2>4. CASE sleepqueue' = sleepqueue
    BY <2>2, <2>4 DEF Asleep
  <2>5. CASE Next /\ ~WakeThreads /\ ~SetWakeTime
    BY <2>4, <2>5 DEF Next, KernelStep, Tick, CharArrives, TimerIrq, UartIrq,
       UartReturn, Sleep, WakeReadsHigh, ArmSlice, SoonestReadsHigh, ComputeSleepTime,
       ArmIdle, queueVars
  <2> QED BY <1>1, <2>1, <2>3, <2>5 DEF SteadyNext
<1> QED BY <1>1, SteadyKeeps, PTL DEF SteadySpec, SleepsLongEnough

-----------------------------------------------------------------------------
(* The idle timer.                                                         *)

(* What is left until the compare value is reached goes down with every    *)
(* tick that does not match.                                               *)
LEMMA TickNoMatch ==
  ASSUME NEW n \in Nat, NEW v \in 0 .. W - 1, v # (n + 1) % W
  PROVE  n + 2 + ((v - n - 2) % W) = n + 1 + ((v - n - 1) % W)
<1> DEFINE x == v - n - 1
           k == x \div W
           r == x % W
<1>1. x \in Int
  BY ClockConstants
<1>2. k \in Int /\ r \in 0 .. W - 1 /\ x = W * k + r
  BY <1>1, DivMod, ClockConstants
<1>3. W * k \in Int /\ W * (-k) = -(W * k) /\ -k \in Int
  BY <1>2, ClockConstants
<1> HIDE DEF k, r
<1>4. r # 0
  <2>1. r = 0 => n + 1 = W * (-k) + v
    BY <1>2, <1>3, ClockConstants
  <2>2. (W * (-k) + v) % W = v
    BY <1>3, Remainder, ClockConstants
  <2> QED BY <2>1, <2>2
<1>5. (W * k + (r - 1)) % W = r - 1
  BY <1>2, <1>4, Remainder, ClockConstants
<1>6. v - n - 2 = W * k + (r - 1)
  BY <1>2, <1>3, ClockConstants
<1> HIDE DEF x
<1>7. (v - n - 2) % W = r - 1
  BY <1>5, <1>6
<1>8. (v - n - 1) % W = r
  BY DEF r, x
<1> QED BY <1>2, <1>7, <1>8, ClockConstants

(* A compare value that was just set is reached after so many ticks.       *)
LEMMA JustSet ==
  ASSUME NEW n \in 0 .. W - 1, NEW d \in 1 .. W - 1
  PROVE  n + 1 + ((((n + d) % W) - n - 1) % W) = n + d
<1>1. (W * 0 + (d - 1)) % W = d - 1 /\ (W * (-1) + (d - 1)) % W = d - 1
  BY Remainder, ClockConstants
<1>2. CASE n + d < W
  <2>1. (W * 0 + (n + d)) % W = n + d
    BY <1>2, Remainder, ClockConstants
  <2> QED BY <1>1, <2>1, ClockConstants
<1>3. CASE n + d >= W
  <2>1. (W * 1 + (n + d - W)) % W = n + d - W
    BY <1>3, Remainder, ClockConstants
  <2>2. W * 1 + (n + d - W) = n + d /\ n + d - W - n - 1 = W * (-1) + (d - 1)
    BY ClockConstants
  <2> QED BY <1>1, <2>1, <2>2, ClockConstants
<1> QED BY <1>2, <1>3, ClockConstants

(* From wake_threads to the timer: no wake time is behind the counter by   *)
(* more than the ticks the handler took, and the timer that is being set   *)
(* matches in time.                                                        *)
FirstEpoch ==
    /\ counter <= MaxCounter /\ timer_high = 0
    /\ \A t \in Threads : wake_at[t] < W
StillAhead ==
    pc \in {"soonest", "soonest low"} =>
        \A t \in Threads : wake_at[t] + spent >= counter + 1
SleepTimeRight ==
    pc = "arm" => \A t \in Threads : counter + sleep_time <= wake_at[t] + spent
TimerRight ==
    pc \in {"user", "uart"} /\ Asleep = Threads /\ SCHEDULER_TIMER \notin cs =>
        \A t \in Threads : NextMatch <= wake_at[t] + MaxLatency
InTime == FirstEpoch /\ StillAhead /\ SleepTimeRight /\ TimerRight

LEMMA FirstTimes ==
  ASSUME MaxCounter + MaxMillis * MILLI < W, Typed, FirstEpoch
  PROVE  /\ chi = 0 /\ clo = counter /\ CurrentTime = counter
         /\ MaxMillis * MILLI \in 0 .. W - 1 /\ counter \in 0 .. W - 1
<1>1. MaxMillis * MILLI \in Nat
  BY Times, ClockConstants
<1>2. counter \in 0 .. W - 1 /\ MaxMillis * MILLI \in 0 .. W - 1
  BY <1>1, ClockConstants DEF FirstEpoch, Typed, TimersTyped
<1>3. (W * 0 + counter) % W = counter
  BY <1>2, Remainder, ClockConstants
<1>4. clo = counter
  BY <1>2, <1>3, ClockConstants DEF clo
<1>5. chi = 0
  <2>1. counter = (counter \div W) * W + (counter % W) /\ counter \div W \in Nat
    BY <1>2, Halves
  <2>2. \A q \in Nat : q # 0 => q * W >= W
    BY ClockConstants
  <2> QED BY <1>2, <1>4, <2>1, <2>2, ClockConstants DEF clo, chi
<1>6. 0 * W = 0
  BY ClockConstants
<1> QED BY <1>1, <1>2, <1>4, <1>5, <1>6 DEF FirstEpoch, CurrentTime

(* The minimum of the loop is the first wake time, nothing is cut.         *)
LEMMA SoonestIs ==
  ASSUME Typed, FirstEpoch, Asleep = Threads
  PROVE  /\ Soonest \in {wake_at[t] : t \in Threads}
         /\ \A t \in Threads : Soonest <= wake_at[t]
<1>1. \A t \in Threads : wake_at[t] \in Nat /\ wake_at[t] % W = wake_at[t]
  <2> TAKE t \in Threads
  <2>1. wake_at[t] \in 0 .. W - 1
    BY ClockConstants DEF Typed, QueueTyped, FirstEpoch
  <2>2. (W * 0 + wake_at[t]) % W = wake_at[t]
    BY <2>1, Remainder, ClockConstants
  <2> QED BY <2>1, <2>2, ClockConstants
<1>2. Threads # {}
  BY ClockAssumption, FS_EmptySet
<1>3. ASSUME NEW t \in Threads, sleepqueue = <<t>>, Len(sleepqueue) = 1,
             Head(sleepqueue) = t, Threads = {t}
      PROVE  Soonest = wake_at[t]
  BY <1>1, <1>3 DEF Soonest
<1>4. ASSUME NEW t \in Threads, NEW u \in Threads, Len(sleepqueue) = 2,
             Head(sleepqueue) = t, sleepqueue[2] = u, Threads = {t, u}
      PROVE  Soonest = IF wake_at[u] < wake_at[t] THEN wake_at[u] ELSE wake_at[t]
  BY <1>1, <1>4 DEF Soonest
<1>5. \/ \E t \in Threads : /\ sleepqueue = <<t>> /\ Len(sleepqueue) = 1
                            /\ Head(sleepqueue) = t /\ Threads = {t}
      \/ \E t, u \in Threads : /\ Len(sleepqueue) = 2 /\ Head(sleepqueue) = t
                               /\ sleepqueue[2] = u /\ Threads = {t, u}
  BY <1>2, QueueCases DEF Typed, QueueTyped, Asleep
<1>6. CASE \E t \in Threads : /\ sleepqueue = <<t>> /\ Len(sleepqueue) = 1
                              /\ Head(sleepqueue) = t /\ Threads = {t}
  BY <1>1, <1>3, <1>6
<1>7. CASE \E t, u \in Threads : /\ Len(sleepqueue) = 2 /\ Head(sleepqueue) = t
                                 /\ sleepqueue[2] = u /\ Threads = {t, u}
  <2>1. PICK t \in Threads, u \in Threads :
               /\ Len(sleepqueue) = 2 /\ Head(sleepqueue) = t
               /\ sleepqueue[2] = u /\ Threads = {t, u}
    BY <1>7
  <2>2. Soonest = IF wake_at[u] < wake_at[t] THEN wake_at[u] ELSE wake_at[t]
    BY <1>4, <2>1
  <2> QED BY <1>1, <2>1, <2>2
<1> QED BY <1>5, <1>6, <1>7

(* The handler steps: wake times and the counter.                          *)
LEMMA EpochKept ==
  ASSUME MaxCounter + MaxMillis * MILLI < W, Typed, FirstEpoch, [Next]_vars
  PROVE  FirstEpoch'
<1>1. chi = 0 /\ CurrentTime = counter /\ counter \in Nat
  BY FirstTimes
<1>2. ASSUME NEW t \in Threads, NEW m \in 1 .. MaxMillis, Sleep(t, m)
      PROVE  FirstEpoch'
  BY <1>1, <1>2 DEF Sleep, ReadHigh, FirstEpoch
<1>3. CASE SetWakeTime
  <2>1. MaxMillis * MILLI < W
    BY FirstTimes, ClockConstants
  <2>2. Duration(millis) = millis * MILLI
    BY <2>1, DurationWhole DEF Typed, CallTyped
  <2>3. millis * MILLI <= MaxMillis * MILLI /\ millis * MILLI \in Nat
    <3>1. /\ MaxMillis - millis \in Nat /\ millis \in Nat /\ MaxMillis \in Nat
          /\ MILLI \in Nat
      BY ClockConstants DEF Typed, CallTyped
    <3>2. /\ (MaxMillis - millis) * MILLI \in Nat /\ millis * MILLI \in Nat
          /\ MaxMillis * MILLI \in Nat
      BY <3>1, Times
    <3>3. \A a, b, k \in Int : (a - b) * k = a * k - b * k
      OBVIOUS
    <3>4. (MaxMillis - millis) * MILLI = MaxMillis * MILLI - millis * MILLI
      BY <3>1, <3>3
    <3> QED BY <3>2, <3>4
  <2>4. counter + millis * MILLI < W
    BY <1>1, <2>3, FirstTimes, ClockConstants DEF FirstEpoch
  <2>5. wake_at' = [wake_at EXCEPT ![current] = counter + millis * MILLI]
    BY <1>1, <1>3, <2>2 DEF SetWakeTime
  <2>6. \A t \in Threads : wake_at'[t] < W
    BY <2>4, <2>5 DEF FirstEpoch, Typed, QueueTyped
  <2> QED BY <1>3, <2>6 DEF SetWakeTime, FirstEpoch
<1>4. CASE Tick
  BY <1>4, <1>1, ClockConstants DEF Tick, FirstEpoch, queueVars
<1>5. CASE CharArrives \/ TimerIrq \/ UartIrq \/ UartReturn
  BY <1>5 DEF CharArrives, TimerIrq, UartIrq, UartReturn, FirstEpoch, queueVars
<1>6. CASE WakeReadsHigh \/ SoonestReadsHigh
  BY <1>1, <1>6 DEF WakeReadsHigh, SoonestReadsHigh, ReadHigh, FirstEpoch, queueVars
<1>7. CASE WakeThreads \/ ArmSlice \/ ComputeSleepTime \/ ArmIdle
  BY <1>7 DEF WakeThreads, ArmSlice, ComputeSleepTime, ArmIdle, Arm, FirstEpoch, queueVars
<1>8. CASE UNCHANGED vars
  BY <1>8 DEF vars, FirstEpoch, queueVars
<1> QED BY <1>2, <1>3, <1>4, <1>5, <1>6, <1>7, <1>8 DEF Next, KernelStep

LEMMA TimerKept ==
  ASSUME MaxCounter + MaxMillis * MILLI < W, MaxLatency <= 1,
         Typed, InTime, [Next]_vars
  PROVE  (StillAhead /\ SleepTimeRight /\ TimerRight)'
<1>0. /\ FirstEpoch /\ counter \in 0 .. W - 1 /\ CurrentTime = counter
      /\ clo = counter /\ spent \in Nat /\ spent <= 1 /\ sleep_time \in 0 .. W - 1
      /\ counter \in Nat /\ sleep_time \in Nat /\ counter < W
  BY FirstTimes, ClockConstants DEF InTime, Typed, CallTyped
<1>T. \A t \in Threads : wake_at[t] \in Nat
  BY DEF Typed, QueueTyped
<1>1. CASE Tick
  <2>1. counter' = counter + 1 /\ pc' = pc /\ wake_at' = wake_at /\ c' = c
        /\ Asleep' = Asleep /\ sleep_time' = sleep_time
    BY <1>1 DEF Tick, queueVars, timerVars, callVars, Asleep
  <2>2. pc # "user" => spent' = spent + 1
    BY <1>1 DEF Tick
  <2>3. StillAhead' /\ SleepTimeRight'
    <3>1. ASSUME NEW t \in Threads, wake_at[t] + spent >= counter + 1, spent' = spent + 1
          PROVE  wake_at[t] + spent' >= counter' + 1
      BY <1>0, <1>T, <2>1, <3>1
    <3>2. ASSUME NEW t \in Threads, counter + sleep_time <= wake_at[t] + spent,
                 spent' = spent + 1
          PROVE  counter' + sleep_time <= wake_at[t] + spent'
      BY <1>0, <1>T, <2>1, <3>2
    <3> QED BY <2>1, <2>2, <3>1, <3>2 DEF InTime, StillAhead, SleepTimeRight
  <2>4. SCHEDULER_TIMER \notin cs' =>
          SCHEDULER_TIMER \notin cs /\ NextMatch' = NextMatch
    <3>1. SCHEDULER_TIMER \notin cs' =>
            SCHEDULER_TIMER \notin cs /\ c[SCHEDULER_TIMER] # (counter + 1) % W
      BY <1>1 DEF Tick, Timers, SCHEDULER_TIMER
    <3>2. c[SCHEDULER_TIMER] \in 0 .. W - 1
      BY DEF Typed, TimersTyped
    <3>3. c[SCHEDULER_TIMER] # (counter + 1) % W =>
            counter + 2 + ((c[SCHEDULER_TIMER] - counter - 2) % W) = NextMatch
      BY <1>0, <3>2, TickNoMatch DEF NextMatch
    <3>4. /\ counter + 1 + 1 = counter + 2
          /\ c[SCHEDULER_TIMER] - (counter + 1) - 1 = c[SCHEDULER_TIMER] - counter - 2
      BY <1>0, <3>2, ClockConstants
    <3> QED BY <2>1, <3>1, <3>3, <3>4 DEF NextMatch
  <2>5. TimerRight'
    BY <2>1, <2>4 DEF InTime, TimerRight
  <2> QED BY <2>3, <2>5
<1>2. CASE CharArrives
  BY <1>2 DEF CharArrives, InTime, StillAhead, SleepTimeRight, TimerRight, NextMatch,
     queueVars, timerVars, callVars, Asleep
<1>3. CASE TimerIrq
  BY <1>3 DEF TimerIrq, StillAhead, SleepTimeRight, TimerRight
<1>4. CASE UartIrq
  BY <1>4 DEF UartIrq, InTime, StillAhead, SleepTimeRight, TimerRight, NextMatch,
     queueVars, timerVars, Asleep
<1>5. CASE UartReturn
  BY <1>5 DEF UartReturn, InTime, StillAhead, SleepTimeRight, TimerRight, NextMatch,
     queueVars, timerVars, irqVars, Asleep
<1>6. ASSUME NEW t \in Threads, NEW m \in 1 .. MaxMillis, Sleep(t, m)
      PROVE  (StillAhead /\ SleepTimeRight /\ TimerRight)'
  BY <1>6 DEF Sleep, StillAhead, SleepTimeRight, TimerRight
<1>7. CASE SetWakeTime \/ WakeReadsHigh
  BY <1>7 DEF SetWakeTime, WakeReadsHigh, StillAhead, SleepTimeRight, TimerRight
<1>8. CASE WakeThreads
  <2>1. pc' = "soonest" => \A t \in Threads : wake_at[t] > counter
    BY <1>0, <1>8, WakeLeaves DEF Typed, StillAsleep
  <2>2. pc' \in {"slice", "soonest"} /\ wake_at' = wake_at /\ counter' = counter
        /\ spent' = spent
    BY <1>8, WakeLeaves DEF WakeThreads, Typed
  <2>3. ASSUME NEW t \in Threads, wake_at[t] > counter
        PROVE  wake_at[t] + spent >= counter + 1
    BY <1>0, <1>T, <2>3
  <2> QED BY <2>1, <2>2, <2>3 DEF StillAhead, SleepTimeRight, TimerRight
<1>9. CASE ArmSlice
  <2>1. pc' = "user" /\ Asleep' # Threads
    BY <1>9 DEF ArmSlice, Arm, Typed, AllSleepAt, queueVars, Asleep
  <2> QED BY <2>1 DEF StillAhead, SleepTimeRight, TimerRight
<1>10. CASE SoonestReadsHigh
  BY <1>10 DEF SoonestReadsHigh, InTime, StillAhead, SleepTimeRight, TimerRight, queueVars
<1>11. CASE ComputeSleepTime
  <2>1. Asleep = Threads
    BY <1>11 DEF ComputeSleepTime, Typed, AllSleepAt
  <2>2. /\ Soonest \in {wake_at[t] : t \in Threads}
        /\ \A t \in Threads : Soonest <= wake_at[t]
    BY <1>0, <2>1, SoonestIs
  <2>3. ASSUME NEW t \in Threads
        PROVE  wake_at[t] >= counter /\ wake_at[t] < W
    <3>1. wake_at[t] + spent >= counter + 1 /\ wake_at[t] < W
      BY <1>11 DEF ComputeSleepTime, InTime, StillAhead, FirstEpoch
    <3> QED BY <1>0, <1>T, <3>1
  <2>4. Soonest - counter \in 0 .. W - 1 /\ Soonest \in Nat
    BY <1>0, <1>T, <2>2, <2>3, ClockConstants
  <2>5. (W * 0 + (Soonest - counter)) % W = Soonest - counter
    <3> DEFINE d == Soonest - counter
    <3>1. d \in 0 .. W - 1
      BY <2>4
    <3> HIDE DEF d
    <3>2. (W * 0 + d) % W = d
      BY <3>1, Remainder, ClockConstants
    <3> QED BY <3>2 DEF d
  <2>6. SleepTime = Soonest - counter
    BY <1>0, <2>4, <2>5, ClockConstants DEF SleepTime
  <2>7. /\ sleep_time' = Soonest - counter /\ counter' = counter
        /\ wake_at' = wake_at /\ spent' = spent
    BY <1>11, <2>6 DEF ComputeSleepTime, queueVars
  <2>8. ASSUME NEW t \in Threads
        PROVE  counter' + sleep_time' <= wake_at'[t] + spent'
    BY <1>0, <1>T, <2>2, <2>4, <2>7
  <2> QED BY <1>11, <2>8 DEF ComputeSleepTime, StillAhead, SleepTimeRight, TimerRight
<1>12. CASE ArmIdle
  <2>1. \A t \in Threads : counter + sleep_time <= wake_at[t] + spent
    BY <1>12 DEF ArmIdle, InTime, SleepTimeRight
  <2>2. pc' = "user" /\ counter' = counter /\ wake_at' = wake_at
        /\ c'[SCHEDULER_TIMER] = (counter + sleep_time) % W
    BY <1>0, <1>12, ArmTyped DEF ArmIdle, Typed, queueVars
  <2>3. SCHEDULER_TIMER \notin cs' => sleep_time # 0
    <3>1. (W * 0 + 0) % W = 0
      BY Remainder, ClockConstants
    <3> QED BY <3>1, <1>12, ClockConstants DEF ArmIdle, Arm
  <2>4. sleep_time # 0 => NextMatch' = counter + sleep_time
    BY <1>0, <2>2, JustSet, ClockConstants DEF NextMatch
  <2>5. spent <= MaxLatency
    BY ClockConstants DEF Typed, CallTyped
  <2>6. TimerRight'
    BY <1>0, <1>T, <2>1, <2>2, <2>3, <2>4, <2>5, ClockConstants DEF TimerRight
  <2> QED BY <2>2, <2>6 DEF StillAhead, SleepTimeRight
<1>13. CASE UNCHANGED vars
  BY <1>13 DEF vars, InTime, StillAhead, SleepTimeRight, TimerRight, NextMatch, queueVars,
     timerVars, irqVars, callVars, Asleep
<1> QED BY <1>1, <1>2, <1>3, <1>4, <1>5, <1>6, <1>7, <1>8, <1>9, <1>10, <1>11, <1>12,
       <1>13 DEF Next, KernelStep

(* thread.c:311: while every thread sleeps the timer matches at the first  *)
(* wake time and no later than the time the handler took, for all lengths  *)
(* of sleeps and time slices, as long as the counter and the longest sleep *)
(* fit into 32 bits and at most one tick passes in a handler.  Both        *)
(* conditions are needed: two ticks are the race of the run idle_race.     *)
THEOREM IdleTimerSet ==
  ASSUME MaxCounter + MaxMillis * MILLI < W, MaxLatency <= 1
  PROVE  Spec => []IdleTimerInTime
<1>1. Init => Typed /\ InTime
  <2>1. Init => InTime
    <3> SUFFICES ASSUME Init PROVE InTime
      OBVIOUS
    <3>1. Asleep # Threads
      BY ClockAssumption, FS_EmptySet, QueueCases DEF Init, Queues, Asleep
    <3> QED BY <3>1, ClockConstants DEF Init, InTime, FirstEpoch, StillAhead,
          SleepTimeRight, TimerRight
  <2> QED BY <2>1, InitTyped
<1>2. Typed /\ InTime /\ [Next]_vars => (Typed /\ InTime)'
  BY NextTyped, EpochKept, TimerKept DEF InTime
<1>3. Typed /\ InTime => IdleTimerInTime
  BY DEF InTime, TimerRight, IdleTimerInTime
<1> QED BY <1>1, <1>2, <1>3, PTL DEF Spec

(* Below the first carry of the counter nobody is woken early.             *)
THEOREM NobodyWokenEarlyAtFirst ==
  ASSUME MaxCounter + MaxMillis * MILLI < W
  PROVE  Spec => SleepsLongEnough
<1>1. MaxMillis * MILLI < W
  BY Times, ClockConstants
<1>2. Init => Typed /\ FirstEpoch
  BY InitTyped, ClockConstants DEF Init, FirstEpoch
<1>3. Typed /\ FirstEpoch /\ [Next]_vars => (Typed /\ FirstEpoch)'
  BY NextTyped, EpochKept
<1>4. Typed /\ FirstEpoch => chi = 0
  BY FirstTimes
<1>5. (Typed /\ FirstEpoch => chi = 0)'
  BY <1>4, PTL
<1>6. Typed /\ FirstEpoch /\ (Typed /\ FirstEpoch)' /\ [Next]_vars => [SteadyNext]_vars
  BY <1>4, <1>5 DEF SteadyNext
<1>7. Spec => SteadySpec
  BY <1>2, <1>3, <1>6, PTL DEF Spec, SteadySpec
<1> QED BY <1>1, <1>7, NobodyWokenEarly
=============================================================================
