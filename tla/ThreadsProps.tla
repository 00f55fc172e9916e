---------------------------- MODULE ThreadsProps ----------------------------
(***************************************************************************)
(* What the scheduler core modelled in Threads must guarantee, and the     *)
(* specifications the guarantees are checked under.                        *)
(***************************************************************************)
EXTENDS Threads

(* A handler has unlinked the thread runqueue points to while another      *)
(* thread's sleep is over: wake_threads will link that thread behind the   *)
(* unlinked one.  The ring survives exactly the executions without this.   *)
GapWake ==
    /\ kpc = "wake" /\ runqueue # NO /\ runqueue \notin Runnable
    /\ \E t \in Waiting : wake_at[t] = 0

CalmNext == Next /\ ~GapWake'

CalmSpec == Init /\ [][CalmNext]_vars

(* The kernel runs to the end of a handler, the clock does not stop, and   *)
(* a pending interrupt is taken although threads keep making system calls. *)
Fairness == WF_vars(KernelStep) /\ SF_vars(Tick) /\ SF_vars(TimerIrq)

FairSpec == Spec /\ Fairness

CalmFairSpec == CalmSpec /\ Fairness

-----------------------------------------------------------------------------
(* Properties.                                                             *)

(* Types.  In user mode the scheduler timer is running or pending.         *)
TypeOK ==
    /\ state \in [Threads -> {"READY", "RUNNING", "WAITING", "TERMINATED"}]
    /\ next \in [Threads -> Threads \cup {NO}]
    /\ prev \in [Threads -> Threads \cup {NO}]
    /\ next_sleeping \in [Threads -> Threads \cup {NO}]
    /\ wake_at \in [Threads -> Nat \cup {NEVER_SET}]
    /\ stack_i \in [Threads -> Stacks \cup {NO}]
    /\ L2_table_i \in [Threads -> Tables \cup {NO}]
    /\ runqueue \in Threads \cup {NO} /\ sleepqueue \in Threads \cup {NO}
    /\ char_thread \in Threads \cup {NO}
    /\ L2_Table_references \in [Tables -> 0 .. RefLimit - 1]
    /\ L2_Tables \in [Tables -> SUBSET Stacks]
    /\ running \in Threads \cup {NO} /\ L1 \in Tables \cup {NO}
    /\ kpc \in {"user", "wake", "halted", "overwritten", "undefined"}
    /\ tcb \in Threads \cup {NO} /\ prior_tcb \in Threads \cup {NO}
    /\ timer \in Nat /\ timer_pending \in BOOLEAN
    /\ uart_input_buffer \in RingBuffers
    /\ kpc = "user" /\ ~timer_pending => timer > 0

(* The pointers the handlers follow without a check are not NULL: the      *)
(* caller of a system call exists, the thread runqueue or char_thread      *)
(* points to has been linked, and links lead to linked threads only.       *)
PointersOK ==
    /\ kpc = "user" /\ running # NO => runqueue # NO
    /\ runqueue # NO => next[runqueue] # NO
    /\ char_thread # NO => next[char_thread] # NO
    /\ \A t \in Threads : next[t] = NO <=> prev[t] = NO
    /\ \A t \in Threads : next[t] # NO =>
         next[next[t]] # NO /\ next[prev[t]] # NO

(* nx and pv make one ring of the threads in S: they are inverse to each   *)
(* other on S, and no proper part of S is closed under nx.                 *)
RingOn(S, nx, pv) ==
    /\ \A t \in S : nx[t] \in S /\ pv[t] \in S
    /\ \A t \in S : nx[pv[t]] = t /\ pv[nx[t]] = t
    /\ \A A \in SUBSET S : A # {} /\ (\A t \in A : nx[t] \in A) => A = S

(* The runqueue holds every runnable thread exactly once and nothing else: *)
(* no thread is lost by add_tcb_to_runqueue and remove_tcb_from_runqueue.  *)
(* Between an unlinking and the next dispatch runqueue may point at the    *)
(* unlinked thread, whose next still leads into the ring.                  *)
RunqueueOK ==
    /\ RingOn(Runnable, next, prev)
    /\ Runnable = {} <=> runqueue = NO
    /\ runqueue # NO =>
         \/ runqueue \in Runnable
         \/ kpc = "wake" /\ next[runqueue] \in Runnable

(* A waiting thread waits for exactly one thing: the next character (it is *)
(* char_thread) or its wake time.  Neither can be forgotten or doubled, in *)
(* particular no reader is taken for a sleeper by the repair loop.         *)
WaitersOK ==
    /\ char_thread # NO => char_thread \in Waiting
    /\ \A t \in Threads :
         wake_at[t] # NEVER_SET <=> t \in Waiting /\ t # char_thread

Sleepers == {t \in Waiting : t # char_thread}

(* From head on, ns leads through threads of S only; nothing leads back to *)
(* the head, no two threads to the same one, and there is no cycle.        *)
ListOn(S, head, ns) ==
    /\ head \in S \cup {NO}
    /\ \A t \in S : ns[t] \in S \cup {NO}
    /\ \A t \in S : ns[t] # NO => ns[t] # head
    /\ \A t, u \in S : ns[t] = ns[u] /\ t # u => ns[t] = NO
    /\ \A A \in SUBSET S : A # {} => \E t \in A : ns[t] \notin A

(* The cursor of wake_threads and its predecessor fit together.            *)
CursorOn(S, head, ns) ==
    /\ tcb \in S \cup {NO}
    /\ IF prior_tcb = NO THEN tcb = head
       ELSE prior_tcb \in S /\ head # NO /\ ns[prior_tcb] = tcb

(* The sleepqueue is a list of sleeping threads: no pointer leaves them,   *)
(* no two lead to the same thread and there is no cycle, so the loops of   *)
(* wake_threads and reset_scheduler_timer end.                             *)
SleepqueueOK ==
    /\ ListOn(Sleepers, sleepqueue, next_sleeping)
    /\ kpc = "wake" => CursorOn(Sleepers, sleepqueue, next_sleeping)

(* A handler did not come to its end.                                      *)
Stopped == kpc \in {"halted", "overwritten"}

(* Every live thread has a stack page of its own, and the reference counts *)
(* and the mapped stack pages of every address space are those of its live *)
(* threads, unless the system stopped in the middle of a creation.         *)
MemoryOK ==
    /\ ~Stopped => \A i \in Tables :
         LET users == {t \in Live : L2_table_i[t] = i}
         IN  /\ L2_Table_references[i] = Cardinality(users)
             /\ L2_Tables[i] = {stack_i[t] : t \in users}
    /\ \A t \in Live :
         /\ L2_table_i[t] \in Tables /\ stack_i[t] \in Stacks
         /\ stack_i[t] \in L2_Tables[L2_table_i[t]]
    /\ \A t, u \in Live :
         t # u /\ L2_table_i[t] = L2_table_i[u] => stack_i[t] # stack_i[u]

(* The allocation failures the code provides for cannot happen while a tcb *)
(* is free: there is a free table for a process, and a free stack slot in  *)
(* every table.  So no handler uses an index of -1.                        *)
AllocationOK ==
    /\ ~Stopped /\ FreeTcbs # {} => FreeTables # {}
    /\ ~Stopped /\ FreeTcbs # {} => \A i \in Tables : Stacks \ L2_Tables[i] # {}
    /\ kpc # "undefined"

(* User code never runs in the address space of another process.           *)
AddressSpaceOK ==
    kpc = "user" /\ running # NO =>
        L1 = L2_table_i[running] /\ running \in Runnable

(* sys.h:15-17, "Removes the current thread from the scheduler": the       *)
(* thread that calls exit is the one that is terminated.                   *)
ExitEndsCaller ==
    [][Exit => state'[running] = "TERMINATED"]_vars

(* thread.c:452-454, "the queue is repaired and prepared to be traversed   *)
(* again": every sleeping thread is found from sleepqueue.                 *)
AllSleepersLinked ==
    kpc = "user" => \A t \in Sleepers : t \in SleepChain

(* thread.c:309-311, "if no thread is ready: start when next thread will   *)
(* wake up": the idle timer never fires after the first wake time.         *)
IdleTimerInTime ==
    kpc = "user" /\ running = NO /\ runqueue = NO /\ ~timer_pending =>
        \A t \in Sleepers : timer <= wake_at[t]

(* Every handler returns: wake_threads terminates.                         *)
HandlersReturn == kpc = "wake" ~> kpc = "user"

(* Round robin: a ready thread gets the processor.                         *)
ReadyRuns == \A t \in Threads : state[t] = "READY" ~> state[t] # "READY"

(* A sleeping thread is woken.                                             *)
SleepersWake == \A t \in Threads : t \in Sleepers ~> t \notin Sleepers

(* The threads wake_threads has still to visit: those next_sleeping leads  *)
(* to from tcb on.                                                         *)
Ahead ==
    {t \in Threads :
        \A S \in SUBSET Threads :
            (tcb \in S \cup {NO} /\ \A s \in S : next_sleeping[s] \in S \cup {NO})
            => t \in S}

(* The loop of wake_threads makes progress although the repair starts it   *)
(* over: an iteration wakes a thread for good, or leaves one behind that   *)
(* it does not come back to.                                               *)
LoopProgresses ==
    [][kpc = "wake" /\ kpc' = "wake" =>
          \/ Sleepers' \subseteq Sleepers /\ Sleepers' # Sleepers
          \/ Sleepers' = Sleepers /\ Ahead' \subseteq Ahead /\ Ahead' # Ahead]_vars

(* thread.c:452-454, the queue "is repaired and prepared to be traversed   *)
(* again": whenever scheduler() goes on to choose a thread, no thread      *)
(* whose time has come is left asleep.                                     *)
NobodyOverslept == [][Dispatch => \A t \in Sleepers : wake_at[t] > 0]_vars

(* What Threads looks like from outside (Processes).                       *)
KERNEL == -2

Phase == [t \in Threads |->
             CASE state[t] = "TERMINATED" -> "none"
               [] state[t] \in {"READY", "RUNNING"} -> "ready"
               [] state[t] = "WAITING" -> IF t = char_thread THEN "reading" ELSE "asleep"]

Served ==
    INSTANCE Processes WITH Main <- 0, Spaces <- Tables, phase <- Phase,
        due <- wake_at, space <- L2_table_i,
        current <- IF kpc = "user" THEN running ELSE KERNEL

(* The scheduler implements Processes.                                     *)
ThreadsServed == Served!Spec
=============================================================================
