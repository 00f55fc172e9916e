--------------------------- MODULE SchedulerProofs --------------------------
(***************************************************************************)
(* The runqueue, the waiting threads and the sleepqueue stay consistent in *)
(* every execution without a wake-up into a gap of the runqueue, and in    *)
(* every execution at all if no thread sleeps or no more than two live at  *)
(* a time.  While at most three threads sleep, the repair of the           *)
(* sleepqueue loses none of them, none is left asleep when its time has    *)
(* come, and the idle timer is in time.                                    *)
(*                                                                         *)
(* Stacks, second-level tables and address spaces, for every number of     *)
(* threads and stacks: the bookkeeping is exact, nothing runs out while a  *)
(* thread control block is free, and a thread runs with its own table.     *)
(***************************************************************************)
EXTENDS ThreadsProofs

-----------------------------------------------------------------------------
(* The ring.                                                               *)

LinkTypes ==
    /\ next \in [Threads -> Threads \cup {NO}]
    /\ prev \in [Threads -> Threads \cup {NO}]

(* add_tcb_to_runqueue extends a ring that runqueue is part of.            *)
LEMMA RingAdd ==
  ASSUME LinkTypes, NEW S \in SUBSET Threads, NEW t \in Threads, t \notin S,
         RingOn(S, next, prev), AddToRunqueue(t),
         IF runqueue = NO THEN S = {} ELSE runqueue \in S
  PROVE  RingOn(S \cup {t}, next', prev') /\ runqueue' \in S \cup {t}
<1>1. CASE runqueue = NO
  <2>1. /\ S = {} /\ runqueue' = t
        /\ next' = [next EXCEPT ![t] = t] /\ prev' = [prev EXCEPT ![t] = t]
    BY <1>1 DEF AddToRunqueue
  <2>2. next'[t] = t /\ prev'[t] = t
    BY <2>1 DEF LinkTypes
  <2>3. \A A \in SUBSET {t} : A # {} => A = {t}
    OBVIOUS
  <2> QED BY <2>1, <2>2, <2>3 DEF RingOn
<1>2. CASE runqueue # NO
  <2> DEFINE r == runqueue
             n == next[runqueue]
  <2>1. r \in S /\ n \in S /\ r \in Threads /\ n \in Threads /\ n # t /\ r # t
    BY <1>2 DEF RingOn
  <2>2. /\ runqueue' = r
        /\ \A u \in Threads : next'[u] = IF u = r THEN t ELSE IF u = t THEN n ELSE next[u]
        /\ \A u \in Threads : prev'[u] = IF u = n THEN t ELSE IF u = t THEN r ELSE prev[u]
    BY <1>2, <2>1 DEF AddToRunqueue, LinkTypes
  <2> HIDE DEF n
  <2>3. /\ \A u \in S : next[u] \in S /\ prev[u] \in S
        /\ \A u \in S : next[prev[u]] = u /\ prev[next[u]] = u
        /\ next[r] = n /\ prev[n] = r
    BY <2>1 DEF RingOn, n
  <2>4. \A u \in S \cup {t} : next'[u] \in S \cup {t} /\ prev'[u] \in S \cup {t}
    BY <2>1, <2>2, <2>3
  <2>5. ASSUME NEW u \in S \cup {t} PROVE next'[prev'[u]] = u
    <3>1. CASE u = t
      BY <2>1, <2>2, <3>1
    <3>2. CASE u = n
      BY <2>1, <2>2, <3>2
    <3>3. CASE u # t /\ u # n
      <4>1. u \in S /\ prev[u] \in S /\ prev[u] # r /\ prev[u] # t
        BY <2>3, <3>3
      <4> QED BY <2>2, <2>3, <3>3, <4>1
    <3> QED BY <3>1, <3>2, <3>3
  <2>6. ASSUME NEW u \in S \cup {t} PROVE prev'[next'[u]] = u
    <3>1. CASE u = t
      BY <2>1, <2>2, <3>1
    <3>2. CASE u = r
      BY <2>1, <2>2, <3>2
    <3>3. CASE u # t /\ u # r
      <4>1. u \in S /\ next[u] \in S /\ next[u] # n /\ next[u] # t
        BY <2>3, <3>3
      <4> QED BY <2>2, <2>3, <3>3, <4>1
    <3> QED BY <3>1, <3>2, <3>3
  <2>7. ASSUME NEW A \in SUBSET (S \cup {t}), A # {}, \A u \in A : next'[u] \in A
        PROVE  A = S \cup {t}
    <3> DEFINE B == A \ {t}
    <3>1. t \in A => n \in A
      BY <2>1, <2>2, <2>7
    <3>2. B \in SUBSET S /\ B # {}
      BY <2>1, <2>7, <3>1
    <3>3. \A u \in B : next[u] \in B
      <4> TAKE u \in B
      <4>1. u \in S /\ u \in A /\ u # t /\ next[u] # t /\ u \in Threads
        BY <2>3, <3>2
      <4>2. CASE u = r
        <5>1. t \in A
          BY <2>2, <2>7, <4>1, <4>2
        <5> QED BY <2>1, <2>3, <3>1, <4>2, <5>1
      <4>3. CASE u # r
        <5>1. next'[u] = next[u]
          BY <2>2, <4>1, <4>3
        <5> QED BY <2>7, <4>1, <5>1
      <4> QED BY <4>2, <4>3
    <3>4. B = S
      BY <3>2, <3>3 DEF RingOn
    <3>5. t \in A
      BY <2>1, <2>2, <2>7, <3>4
    <3> QED BY <3>4, <3>5
  <2> QED BY <2>1, <2>2, <2>4, <2>5, <2>6, <2>7 DEF RingOn
<1> QED BY <1>1, <1>2

(* remove_tcb_from_runqueue takes c out of its ring.  If c was not alone,  *)
(* its next still leads into the ring.                                     *)
LEMMA RingRemove ==
  ASSUME LinkTypes, NEW S \in SUBSET Threads, NEW c \in S,
         RingOn(S, next, prev), RemoveFromRunqueue(c)
  PROVE  /\ RingOn(S \ {c}, next', prev')
         /\ IF S = {c} THEN runqueue' = NO
            ELSE runqueue' = runqueue /\ next'[c] \in S \ {c}
<1> DEFINE p == prev[c]
           n == next[c]
<1>1. /\ p \in S /\ n \in S /\ next[p] = c /\ prev[n] = c
      /\ \A u \in S : next[u] \in S /\ prev[u] \in S
      /\ \A u \in S : next[prev[u]] = u /\ prev[next[u]] = u
  BY DEF RingOn
<1>2. CASE p = c
  <2>1. {c} \in SUBSET S /\ {c} # {} /\ \A u \in {c} : next[u] \in {c}
    BY <1>1, <1>2
  <2>6. \A A \in SUBSET S : A # {} /\ (\A u \in A : next[u] \in A) => A = S
    BY DEF RingOn
  <2>2. {c} = S
    BY ONLY <2>1, <2>6
  <2>3. runqueue' = NO
    BY <1>2 DEF RemoveFromRunqueue
  <2>4. S \ {c} = {}
    BY <2>2
  <2>5. RingOn({}, next', prev')
    BY DEF RingOn
  <2> QED BY <2>2, <2>3, <2>4, <2>5
<1>3. CASE p # c
  <2>1. n # c /\ S # {c} /\ p \in Threads /\ n \in Threads /\ c \in Threads
    BY <1>1, <1>3
  <2>2. /\ runqueue' = runqueue
        /\ \A u \in Threads : next'[u] = IF u = p THEN n ELSE next[u]
        /\ \A u \in Threads : prev'[u] = IF u = n THEN p ELSE prev[u]
    BY <1>3, <2>1 DEF RemoveFromRunqueue, LinkTypes
  <2>3. next'[c] = n
    BY <1>3, <2>1, <2>2
  <2> HIDE DEF p, n
  <2>4. ASSUME NEW u \in S \ {c}
        PROVE  /\ next'[u] \in S \ {c} /\ prev'[u] \in S \ {c}
               /\ next'[prev'[u]] = u /\ prev'[next'[u]] = u
    <3>1. u \in S /\ u \in Threads /\ u # c
      OBVIOUS
    <3>2. u # p => next[u] # c /\ next[u] \in S /\ next[u] \in Threads /\ next[u] # n
                   /\ next'[u] = next[u]
      BY <1>1, <2>1, <2>2, <3>1 DEF p, n
    <3>3. u # n => prev[u] # c /\ prev[u] \in S /\ prev[u] \in Threads /\ prev[u] # p
                   /\ prev'[u] = prev[u]
      BY <1>1, <2>1, <2>2, <3>1 DEF p, n
    <3>4. u = p => next'[u] = n /\ prev'[n] = p
      BY <2>1, <2>2
    <3>5. u = n => prev'[u] = p /\ next'[p] = n
      BY <2>1, <2>2
    <3>6. next'[u] \in S \ {c} /\ prev'[u] \in S \ {c}
      BY <1>1, <1>3, <2>1, <3>2, <3>3, <3>4, <3>5
    <3>7. next'[prev'[u]] = u
      <4>1. CASE u = n
        BY <3>5, <4>1
      <4>2. CASE u # n
        BY <1>1, <2>2, <3>1, <3>3, <4>2
      <4> QED BY <4>1, <4>2
    <3>8. prev'[next'[u]] = u
      <4>1. CASE u = p
        BY <3>4, <4>1
      <4>2. CASE u # p
        BY <1>1, <2>2, <3>1, <3>2, <4>2
      <4> QED BY <4>1, <4>2
    <3> QED BY <3>6, <3>7, <3>8
  <2>5. ASSUME NEW A \in SUBSET (S \ {c}), A # {}, \A u \in A : next'[u] \in A
        PROVE  A = S \ {c}
    <3>1. \A u \in A : u # p => next[u] \in A
      BY <2>2, <2>5
    <3>2. CASE p \in A
      <4> DEFINE B == A \cup {c}
      <4>1. next[c] \in A
        BY <2>2, <2>5, <2>1, <3>2 DEF n
      <4>2. \A u \in B : next[u] \in B
        BY <1>1, <3>1, <4>1
      <4>3. B \in SUBSET S /\ B # {}
        OBVIOUS
      <4>4. B = S
        BY <4>2, <4>3 DEF RingOn
      <4> QED BY <4>4
    <3>3. CASE p \notin A
      <4>1. \A u \in A : next[u] \in A
        BY <3>1, <3>3
      <4>2. A \in SUBSET S
        OBVIOUS
      <4>3. A = S
        BY <2>5, <4>1, <4>2 DEF RingOn
      <4> QED BY <4>3
    <3> QED BY <3>2, <3>3
  <2>6. RingOn(S \ {c}, next', prev')
    BY <2>4, <2>5 DEF RingOn
  <2>7. n \in S \ {c}
    BY <1>1, <2>1
  <2> QED BY <2>1, <2>2, <2>3, <2>6, <2>7
<1> QED BY <1>2, <1>3

-----------------------------------------------------------------------------
(* The invariant, and what linking and unlinking do to it.                 *)

RunInv == RunqueueOK /\ WaitersOK /\ SleepqueueOK

CalmInv == TypeInv /\ RunInv /\ ~GapWake

LEMMA Kinds ==
  /\ Runnable \in SUBSET Threads /\ Waiting \in SUBSET Threads
  /\ Runnable \cap Waiting = {} /\ Sleepers \in SUBSET Waiting
BY DEF Runnable, Waiting, Sleepers

LEMMA RingTypes == TypeInv => LinkTypes
BY DEF TypeInv, TypeOK, LinkTypes

(* In user mode runqueue is in the ring, or there is none.                 *)
LEMMA UserRing ==
  ASSUME CalmInv, kpc = "user"
  PROVE  IF runqueue = NO THEN Runnable = {} ELSE runqueue \in Runnable
BY DEF CalmInv, RunInv, RunqueueOK

LEMMA CallerRuns ==
  ASSUME CalmInv, NEW call, InSyscall(call)
  PROVE  /\ runqueue \in Runnable /\ runqueue \in Threads /\ kpc = "user"
         /\ runqueue \notin Waiting /\ runqueue # NO
<1>1. runqueue \in Threads /\ kpc = "user"
  BY CallerLinked DEF CalmInv
<1>2. runqueue # NO
  BY <1>1, Indices
<1> QED BY <1>1, <1>2, UserRing, Kinds

(* The caller leaves the ring to wait or to end.                           *)
LEMMA Unlink ==
  ASSUME CalmInv, NEW call, InSyscall(call), RemoveFromRunqueue(runqueue),
         NEW s \in {"WAITING", "TERMINATED"},
         state' = [state EXCEPT ![runqueue] = s], kpc' = "wake"
  PROVE  /\ RunqueueOK'
         /\ Runnable' = Runnable \ {runqueue}
         /\ Waiting' = IF s = "WAITING" THEN Waiting \cup {runqueue} ELSE Waiting
<1> DEFINE c == runqueue
<1>1. c \in Runnable /\ c \in Threads /\ c # NO
  BY CallerRuns
<1>2. \A u \in Threads : state'[u] = IF u = c THEN s ELSE state[u]
  BY <1>1 DEF CalmInv, TypeInv, TypeOK
<1>3. Runnable' = Runnable \ {c}
  BY <1>2 DEF Runnable
<1>4. Waiting' = IF s = "WAITING" THEN Waiting \cup {c} ELSE Waiting
  BY <1>1, <1>2 DEF Waiting, Runnable
<1>5. RingOn(Runnable, next, prev) /\ LinkTypes /\ Runnable \in SUBSET Threads
  BY RingTypes, Kinds DEF CalmInv, RunInv, RunqueueOK
<1>6. /\ RingOn(Runnable \ {c}, next', prev')
      /\ IF Runnable = {c} THEN runqueue' = NO
         ELSE runqueue' = c /\ next'[c] \in Runnable \ {c}
  BY <1>1, <1>5, RingRemove
<1>7. RunqueueOK'
  BY <1>1, <1>3, <1>6 DEF RunqueueOK
<1> QED BY <1>3, <1>4, <1>7

(* A thread enters the ring.                                               *)
LEMMA Link ==
  ASSUME CalmInv, NEW t \in Threads, t \notin Runnable, AddToRunqueue(t),
         IF runqueue = NO THEN Runnable = {} ELSE runqueue \in Runnable,
         Runnable' = Runnable \cup {t}
  PROVE  RunqueueOK'
<1>1. RingOn(Runnable, next, prev) /\ LinkTypes /\ Runnable \in SUBSET Threads
  BY RingTypes, Kinds DEF CalmInv, RunInv, RunqueueOK
<1>2. RingOn(Runnable \cup {t}, next', prev') /\ runqueue' \in Runnable \cup {t}
  BY <1>1, RingAdd
<1>3. runqueue' # NO
  BY <1>1, <1>2, Indices
<1> QED BY <1>2, <1>3 DEF RunqueueOK

(* The sleepqueue does not change, and a handler starts at its head.       *)
LEMMA SleepKept ==
  ASSUME CalmInv, Sleepers' = Sleepers, UNCHANGED <<sleepqueue, next_sleeping>>,
         kpc' = "wake" => tcb' = sleepqueue /\ prior_tcb' = NO
  PROVE  SleepqueueOK'
<1>1. ListOn(Sleepers, sleepqueue, next_sleeping)
  BY DEF CalmInv, RunInv, SleepqueueOK
<1>2. ListOn(Sleepers', sleepqueue', next_sleeping')
  BY <1>1 DEF ListOn
<1>3. kpc' = "wake" => CursorOn(Sleepers, sleepqueue, next_sleeping)'
  BY <1>1 DEF ListOn, CursorOn
<1> QED BY <1>2, <1>3 DEF SleepqueueOK

(* Nobody starts or ends to run or to wait, and no queue changes.          *)
LEMMA RunStays ==
  ASSUME CalmInv, kpc = "user", Runnable' = Runnable, Waiting' = Waiting,
         UNCHANGED <<runqueue, next, prev, wake_at, char_thread, sleepqueue,
                     next_sleeping>>,
         kpc' = "wake" => tcb' = sleepqueue /\ prior_tcb' = NO
  PROVE  RunInv'
<1>1. Runnable' = Runnable /\ Waiting' = Waiting /\ Sleepers' = Sleepers
  BY DEF Sleepers
<1>2. RingOn(Runnable', next', prev')
  BY <1>1 DEF CalmInv, RunInv, RunqueueOK, RingOn
<1>3. RunqueueOK'
  BY <1>1, <1>2, UserRing DEF CalmInv, RunInv, RunqueueOK
<1>4. WaitersOK'
  BY <1>1 DEF CalmInv, RunInv, WaitersOK
<1>5. SleepqueueOK'
  BY <1>1, SleepKept
<1> QED BY <1>3, <1>4, <1>5 DEF RunInv

(* Nothing that RunInv looks at changes.                                   *)
LEMMA RunKept ==
  ASSUME CalmInv, kpc = "user",
         UNCHANGED <<state, runqueue, next, prev, wake_at, char_thread,
                     sleepqueue, next_sleeping>>,
         kpc' = "wake" => tcb' = sleepqueue /\ prior_tcb' = NO
  PROVE  RunInv'
BY RunStays DEF Runnable, Waiting

(* A handler that goes astray has at most put the interrupted thread back  *)
(* among the ready ones.                                                   *)
LEMMA AstrayKeeps ==
  ASSUME CalmInv, ReadAstray \/ \E c \in Chars : DeliverAstray(c)
  PROVE  /\ kpc = "user" /\ kpc' \in {"halted", "overwritten"}
         /\ UNCHANGED <<runqueue, next, prev, wake_at, char_thread, sleepqueue,
                        next_sleeping, stack_i, L2_table_i,
                        L2_Table_references, L2_Tables, running, L1>>
         /\ Runnable' = Runnable /\ Waiting' = Waiting /\ Live' = Live
         /\ UNCHANGED state \/ state'[runqueue] # "RUNNING" \/ runqueue = NO
<1>1. /\ kpc = "user" /\ kpc' \in {"halted", "overwritten"}
      /\ UNCHANGED <<runqueue, next, prev, wake_at, char_thread, sleepqueue,
                     next_sleeping, stack_i, L2_table_i,
                     L2_Table_references, L2_Tables, running, L1>>
      /\ \/ UNCHANGED state
         \/ state' = [t \in Threads |-> IF t = runqueue THEN "READY" ELSE state[t]]
  BY DEF ReadAstray, DeliverAstray, GoesAstray, InSyscall, tcbVars, ringVars,
     sleepVars, memVars
<1>2. runqueue # NO => runqueue \in Runnable
  BY <1>1, UserRing
<1>3. CASE UNCHANGED state
  BY <1>1, <1>3 DEF Runnable, Waiting, Live
<1>4. CASE state' = [t \in Threads |-> IF t = runqueue THEN "READY" ELSE state[t]]
  <2>1. \A t \in Threads : t # runqueue => state'[t] = state[t]
    BY <1>4
  <2>2. runqueue \in Threads => state'[runqueue] = "READY"
    BY <1>4
  <2>3. CASE runqueue = NO
    BY <1>1, <2>1, <2>3, Indices DEF Runnable, Waiting, Live
  <2>4. CASE runqueue # NO
    <3>1. runqueue \in Threads /\ state[runqueue] \in {"READY", "RUNNING"}
      BY <1>2, <2>4 DEF Runnable
    <3> QED BY <1>1, <2>1, <2>2, <3>1 DEF Runnable, Waiting, Live
  <2> QED BY <2>3, <2>4
<1> QED BY <1>1, <1>3, <1>4

-----------------------------------------------------------------------------
(* One lemma per handler.                                                  *)

LEMMA InitRun == Init => RunInv
<1> SUFFICES ASSUME Init PROVE RunInv
  OBVIOUS
<1>1. /\ \A t \in Threads : /\ state[t] = IF t = 0 THEN "READY" ELSE "TERMINATED"
                            /\ wake_at[t] = NEVER_SET
      /\ next[0] = 0 /\ prev[0] = 0 /\ runqueue = 0 /\ sleepqueue = NO
      /\ char_thread = NO /\ kpc = "user"
  BY Indices DEF Init
<1>2. Runnable = {0} /\ Waiting = {} /\ Sleepers = {}
  BY <1>1, Indices DEF Runnable, Waiting, Sleepers
<1>3. \A A \in SUBSET {0} : A # {} => A = {0}
  OBVIOUS
<1>4. RunqueueOK
  BY <1>1, <1>2, <1>3, Indices DEF RunqueueOK, RingOn
<1>5. WaitersOK
  BY <1>1, <1>2 DEF WaitersOK
<1>6. SleepqueueOK
  BY <1>1, <1>2 DEF SleepqueueOK, ListOn
<1> QED BY <1>4, <1>5, <1>6 DEF RunInv

LEMMA TerminateRun ==
  ASSUME CalmInv, NEW call, InSyscall(call), TerminateCurrent
  PROVE  RunInv'
<1>1. runqueue \in Runnable /\ runqueue \in Threads /\ kpc = "user"
  BY CallerRuns
<1>2. CASE L2_table_i[runqueue] = NO \/ stack_i[runqueue] = NO
  <2>1. /\ UNCHANGED <<state, runqueue, next, prev, wake_at, char_thread,
                       sleepqueue, next_sleeping>>
        /\ kpc' = "undefined"
    BY <1>2 DEF TerminateCurrent, tcbVars, ringVars, sleepVars
  <2> QED BY <1>1, <2>1, RunKept
<1>3. CASE ~ (L2_table_i[runqueue] = NO \/ stack_i[runqueue] = NO)
  <2>1. /\ RemoveFromRunqueue(runqueue)
        /\ state' = [state EXCEPT ![runqueue] = "TERMINATED"]
        /\ kpc' = "wake" /\ tcb' = sleepqueue /\ prior_tcb' = NO
        /\ UNCHANGED <<wake_at, sleepqueue, next_sleeping, char_thread>>
    BY <1>3 DEF TerminateCurrent, EnterScheduler, sleepVars
  <2>2. RunqueueOK' /\ Waiting' = Waiting
    BY <2>1, Unlink
  <2>3. Sleepers' = Sleepers
    BY <2>1, <2>2 DEF Sleepers
  <2>4. WaitersOK'
    BY <2>1, <2>2 DEF CalmInv, RunInv, WaitersOK
  <2>5. SleepqueueOK'
    BY <2>1, <2>3, SleepKept
  <2> QED BY <2>2, <2>4, <2>5 DEF RunInv
<1> QED BY <1>2, <1>3

LEMMA StartRun ==
  ASSUME CalmInv, NEW call, InSyscall(call), NEW t \in FreeTcbs, NEW i,
         NEW refs, NEW mapped, StartThread(t, i, refs, mapped)
  PROVE  RunInv'
<1>1. runqueue \in Runnable /\ kpc = "user"
  BY CallerRuns
<1>2. t \in Threads /\ state[t] = "TERMINATED"
  BY DEF FreeTcbs
<1>3. t \notin Runnable /\ t \notin Waiting
  BY <1>2 DEF Runnable, Waiting
<1>4. UNCHANGED <<wake_at, sleepqueue, next_sleeping, char_thread>>
  BY DEF StartThread, sleepVars
<1>5. \/ /\ kpc' # "wake" /\ UNCHANGED <<state, runqueue, next, prev>>
      \/ /\ state' = [state EXCEPT ![t] = "READY"] /\ AddToRunqueue(t)
         /\ kpc' = "wake" /\ tcb' = sleepqueue /\ prior_tcb' = NO
  BY DEF StartThread, GoesAstray, EnterScheduler, ringVars
<1>6. CASE kpc' # "wake" /\ UNCHANGED <<state, runqueue, next, prev>>
  BY <1>1, <1>4, <1>6, RunKept
<1>7. CASE /\ state' = [state EXCEPT ![t] = "READY"] /\ AddToRunqueue(t)
           /\ kpc' = "wake" /\ tcb' = sleepqueue /\ prior_tcb' = NO
  <2>1. \A u \in Threads : state'[u] = IF u = t THEN "READY" ELSE state[u]
    BY <1>2, <1>7 DEF CalmInv, TypeInv, TypeOK
  <2>2. Runnable' = Runnable \cup {t} /\ Waiting' = Waiting
    BY <1>2, <2>1 DEF Runnable, Waiting
  <2>3. RunqueueOK'
    BY <1>1, <1>2, <1>3, <1>7, <2>2, UserRing, Link
  <2>4. Sleepers' = Sleepers
    BY <1>4, <2>2 DEF Sleepers
  <2>5. WaitersOK'
    BY <1>4, <2>2 DEF CalmInv, RunInv, WaitersOK
  <2>6. SleepqueueOK'
    BY <1>4, <1>7, <2>4, SleepKept
  <2> QED BY <2>3, <2>5, <2>6 DEF RunInv
<1> QED BY <1>5, <1>6, <1>7

LEMMA CreateRun ==
  ASSUME CalmInv, CreateProcess \/ CreateThread
  PROVE  RunInv'
<1>1. FreeTcbs # {} => Min(FreeTcbs) \in FreeTcbs
  BY ThreadSets DEF FreeTcbs
<1>2. PICK call : InSyscall(call) /\ FreeTcbs # {}
  BY DEF CreateProcess, CreateThread
<1>3. kpc = "user"
  BY <1>2, CallerRuns
<1>4. \/ /\ UNCHANGED <<state, runqueue, next, prev, wake_at, char_thread,
                        sleepqueue, next_sleeping>>
         /\ kpc' # "wake"
      \/ \E i, refs, mapped : StartThread(Min(FreeTcbs), i, refs, mapped)
  <2>1. CASE CreateProcess
    BY <1>3, <2>1 DEF CreateProcess, ringVars, sleepVars
  <2>2. CASE CreateThread
    BY <1>3, <2>2 DEF CreateThread, tcbVars, ringVars, sleepVars
  <2> QED BY <2>1, <2>2
<1> QED BY <1>1, <1>2, <1>3, <1>4, StartRun, RunKept

LEMMA SleepRun ==
  ASSUME CalmInv, NEW n \in 1 .. MaxSleep, Sleep(n)
  PROVE  RunInv'
<1> DEFINE c == runqueue
<1>1. InSyscall("sleep") /\ n # NEVER_SET
  BY DEF Sleep, NEVER_SET
<1>2. /\ c \in Runnable /\ c \in Threads /\ c \notin Waiting /\ c # NO
  BY <1>1, CallerRuns
<1>3. /\ state' = [state EXCEPT ![c] = "WAITING"]
      /\ wake_at' = [wake_at EXCEPT ![c] = n]
      /\ RemoveFromRunqueue(c)
      /\ next_sleeping' = [next_sleeping EXCEPT ![c] = sleepqueue]
      /\ sleepqueue' = c
      /\ kpc' = "wake" /\ tcb' = c /\ prior_tcb' = NO
      /\ UNCHANGED char_thread
  BY DEF Sleep, PushSleeper, EnterScheduler
<1>4. RunqueueOK' /\ Waiting' = Waiting \cup {c}
  BY <1>1, <1>3, Unlink
<1>5. \A u \in Threads : /\ wake_at'[u] = IF u = c THEN n ELSE wake_at[u]
                         /\ next_sleeping'[u] = IF u = c THEN sleepqueue
                                               ELSE next_sleeping[u]
  BY <1>2, <1>3 DEF CalmInv, TypeInv, TypeOK
<1>6. c # char_thread
  BY <1>2 DEF CalmInv, RunInv, WaitersOK
<1>7. WaitersOK'
  BY <1>1, <1>2, <1>3, <1>4, <1>5, <1>6 DEF CalmInv, RunInv, WaitersOK
<1>8. Sleepers' = Sleepers \cup {c} /\ c \notin Sleepers /\ Sleepers \in SUBSET Threads
  BY <1>2, <1>3, <1>4, <1>6, Kinds DEF Sleepers
<1>9. ListOn(Sleepers, sleepqueue, next_sleeping)
  BY DEF CalmInv, RunInv, SleepqueueOK
<1>10. \A t \in Sleepers : next_sleeping'[t] = next_sleeping[t] /\ next_sleeping[t] # c
  BY <1>2, <1>5, <1>8, <1>9 DEF ListOn
<1>11. next_sleeping'[c] = sleepqueue
  BY <1>2, <1>5
<1>12. ASSUME NEW A \in SUBSET (Sleepers \cup {c}), A # {}
       PROVE  \E t \in A : next_sleeping'[t] \notin A
  <2>1. CASE A = {c}
    <3>1. sleepqueue \notin A
      BY <1>2, <1>8, <1>9, <2>1 DEF ListOn
    <3> QED BY <1>11, <2>1, <3>1
  <2>2. CASE A # {c}
    <3> DEFINE B == A \ {c}
    <3>1. B \in SUBSET Sleepers /\ B # {}
      BY <1>12, <2>2
    <3>2. PICK t \in B : next_sleeping[t] \notin B
      BY <1>9, <3>1 DEF ListOn
    <3>3. next_sleeping'[t] \notin A
      BY <1>10, <3>1, <3>2
    <3> QED BY <3>3
  <2> QED BY <2>1, <2>2
<1>13. ListOn(Sleepers \cup {c}, c, next_sleeping')
  <2>1. /\ sleepqueue \in Sleepers \cup {NO}
        /\ \A t \in Sleepers : next_sleeping[t] \in Sleepers \cup {NO}
        /\ \A t \in Sleepers : next_sleeping[t] # NO => next_sleeping[t] # sleepqueue
        /\ \A t, u \in Sleepers : next_sleeping[t] = next_sleeping[u] /\ t # u
                                  => next_sleeping[t] = NO
    BY <1>9 DEF ListOn
  <2>2. \A t \in Sleepers \cup {c} : next_sleeping'[t] \in Sleepers \cup {NO}
    BY <1>10, <1>11, <2>1
  <2>3. \A t, u \in Sleepers \cup {c} :
          next_sleeping'[t] = next_sleeping'[u] /\ t # u => next_sleeping'[t] = NO
    BY <1>10, <1>11, <2>1
  <2> QED BY <1>2, <1>8, <1>12, <2>2, <2>3 DEF ListOn
<1>14. SleepqueueOK'
  BY <1>3, <1>8, <1>13 DEF SleepqueueOK, CursorOn
<1> QED BY <1>4, <1>7, <1>14 DEF RunInv

LEMMA ReadRun ==
  ASSUME CalmInv, ReadBuffered \/ ReadWait
  PROVE  RunInv'
<1>1. CASE ReadBuffered
  BY <1>1, RunKept DEF ReadBuffered, InSyscall, tcbVars, ringVars, sleepVars
<1>2. CASE ReadWait
  <2>1. /\ InSyscall("read") /\ char_thread = NO
        /\ state' = [state EXCEPT ![runqueue] = "WAITING"]
        /\ RemoveFromRunqueue(runqueue) /\ char_thread' = runqueue
        /\ kpc' = "wake" /\ tcb' = sleepqueue /\ prior_tcb' = NO
        /\ UNCHANGED <<wake_at, sleepqueue, next_sleeping>>
    BY <1>2 DEF ReadWait, EnterScheduler, sleepVars
  <2>2. runqueue \in Threads /\ runqueue \notin Waiting
    BY <2>1, CallerRuns
  <2>3. RunqueueOK' /\ Waiting' = Waiting \cup {runqueue}
    BY <2>1, Unlink
  <2>4. NO \notin Waiting
    BY Kinds, Indices
  <2>5. Sleepers' = Sleepers
    BY <2>1, <2>2, <2>3, <2>4 DEF Sleepers
  <2>6. WaitersOK'
    BY <2>1, <2>2, <2>3, <2>4, Kinds DEF CalmInv, RunInv, WaitersOK
  <2>7. SleepqueueOK'
    BY <2>1, <2>5, SleepKept
  <2> QED BY <2>3, <2>6, <2>7 DEF RunInv
<1> QED BY <1>1, <1>2

LEMMA UartRun ==
  ASSUME CalmInv, NEW c \in Chars, UartStore(c) \/ UartDeliver(c) \/ UartFatal(c)
  PROVE  RunInv'
<1>1. CASE UartStore(c)
  BY <1>1, RunKept DEF UartStore, tcbVars, ringVars, sleepVars
<1>2. CASE UartFatal(c)
  BY <1>2, RunKept DEF UartFatal, tcbVars, ringVars, sleepVars
<1>3. CASE UartDeliver(c)
  <2>1. /\ kpc = "user" /\ kpc' = "user" /\ char_thread # NO
        /\ state' = [t \in Threads |-> IF t = char_thread THEN "RUNNING"
                                       ELSE IF t = runqueue THEN "READY"
                                       ELSE state[t]]
        /\ AddToRunqueue(char_thread) /\ char_thread' = NO
        /\ UNCHANGED <<wake_at, sleepqueue, next_sleeping>>
    BY <1>3 DEF UartDeliver, sleepVars
  <2>2. IF runqueue = NO THEN Runnable = {} ELSE runqueue \in Runnable
    BY <2>1, UserRing
  <2>3. char_thread \in Waiting /\ char_thread \in Threads /\ char_thread \notin Runnable
    BY <2>1, Kinds DEF CalmInv, RunInv, WaitersOK
  <2>4. Runnable' = Runnable \cup {char_thread} /\ Waiting' = Waiting \ {char_thread}
    BY <2>1, <2>2, <2>3, Indices DEF Runnable, Waiting
  <2>5. RunqueueOK'
    BY <2>1, <2>2, <2>3, <2>4, Link
  <2>6. NO \notin Waiting
    BY Kinds, Indices
  <2>7. Sleepers' = Sleepers
    BY <2>1, <2>4, <2>6 DEF Sleepers
  <2>8. WaitersOK'
    BY <2>1, <2>3, <2>4, <2>6, Kinds DEF CalmInv, RunInv, WaitersOK
  <2>9. SleepqueueOK'
    BY <2>1, <2>7, SleepKept
  <2> QED BY <2>5, <2>8, <2>9 DEF RunInv
<1> QED BY <1>1, <1>2, <1>3

LEMMA TimerRun ==
  ASSUME CalmInv, TimerIrq \/ Tick
  PROVE  RunInv'
<1>1. CASE TimerIrq
  BY <1>1, RunKept DEF TimerIrq, EnterScheduler, tcbVars, ringVars, sleepVars
<1>2. CASE Tick
  <2>1. /\ kpc = "user" /\ kpc' = "user"
        /\ wake_at' = [t \in Threads |-> IF wake_at[t] > 0 THEN wake_at[t] - 1
                                         ELSE wake_at[t]]
        /\ UNCHANGED <<state, runqueue, next, prev, char_thread, sleepqueue,
                       next_sleeping>>
    BY <1>2 DEF Tick, ringVars, sleepVars
  <2>2. Runnable' = Runnable /\ Waiting' = Waiting /\ Sleepers' = Sleepers
    BY <2>1 DEF Runnable, Waiting, Sleepers
  <2>3. RingOn(Runnable', next', prev')
    BY <2>1, <2>2 DEF CalmInv, RunInv, RunqueueOK, RingOn
  <2>4. RunqueueOK'
    BY <2>1, <2>2, <2>3, UserRing DEF CalmInv, RunInv, RunqueueOK
  <2>5. \A t \in Threads : wake_at[t] \in Nat \cup {NEVER_SET}
    BY DEF CalmInv, TypeInv, TypeOK
  <2>6. \A t \in Threads : wake_at'[t] = NEVER_SET <=> wake_at[t] = NEVER_SET
    BY <2>1, <2>5 DEF NEVER_SET
  <2>7. WaitersOK'
    BY <2>1, <2>2, <2>6 DEF CalmInv, RunInv, WaitersOK
  <2>8. SleepqueueOK'
    BY <2>1, <2>2, SleepKept
  <2> QED BY <2>4, <2>7, <2>8 DEF RunInv
<1> QED BY <1>1, <1>2

-----------------------------------------------------------------------------
(* wake_threads.                                                           *)

(* What the loop knows when it looks at tcb.                               *)
LEMMA Cursor ==
  ASSUME CalmInv, kpc = "wake", tcb # NO
  PROVE  /\ ListOn(Sleepers, sleepqueue, next_sleeping)
         /\ tcb \in Sleepers /\ tcb \in Threads /\ tcb \in Waiting
         /\ tcb # char_thread /\ sleepqueue # NO
         /\ next_sleeping[tcb] # sleepqueue
         /\ IF prior_tcb = NO THEN tcb = sleepqueue
            ELSE /\ prior_tcb \in Sleepers /\ next_sleeping[prior_tcb] = tcb
                 /\ prior_tcb # tcb
<1>1. /\ ListOn(Sleepers, sleepqueue, next_sleeping)
      /\ CursorOn(Sleepers, sleepqueue, next_sleeping)
  BY DEF CalmInv, RunInv, SleepqueueOK
<1>2. tcb \in Sleepers /\ tcb \in Threads /\ tcb \in Waiting /\ tcb # char_thread
  BY <1>1, Kinds DEF CursorOn, Sleepers
<1>3. sleepqueue # NO
  BY <1>1 DEF CursorOn
<1>4. next_sleeping[tcb] # sleepqueue
  BY <1>1, <1>2, <1>3 DEF ListOn
<1>5. \A t \in Sleepers : next_sleeping[t] # t
  <2> TAKE t \in Sleepers
  <2>1. {t} \in SUBSET Sleepers /\ {t} # {}
    OBVIOUS
  <2>2. \E u \in {t} : next_sleeping[u] \notin {t}
    BY <1>1, <2>1 DEF ListOn
  <2> QED BY <2>2
<1> QED BY <1>1, <1>2, <1>3, <1>4, <1>5 DEF CursorOn

LEMMA SkipRun ==
  ASSUME CalmInv, SkipTcb
  PROVE  RunInv'
<1>1. /\ kpc = "wake" /\ kpc' = "wake" /\ tcb # NO /\ prior_tcb' = tcb
      /\ Advance(sleepqueue, next_sleeping, state, wake_at)
      /\ UNCHANGED <<state, runqueue, next, prev, wake_at, char_thread>>
  BY DEF SkipTcb, tcbVars, ringVars
<1>2. /\ ListOn(Sleepers, sleepqueue, next_sleeping) /\ tcb \in Sleepers
      /\ sleepqueue # NO /\ next_sleeping[tcb] # sleepqueue
  BY <1>1, Cursor
<1>3. /\ sleepqueue' = sleepqueue /\ next_sleeping' = next_sleeping
      /\ tcb' = next_sleeping[tcb]
  BY <1>1, <1>2 DEF Advance
<1>4. Runnable' = Runnable /\ Waiting' = Waiting /\ Sleepers' = Sleepers
  BY <1>1 DEF Runnable, Waiting, Sleepers
<1>5. RingOn(Runnable', next', prev')
  BY <1>1, <1>4 DEF CalmInv, RunInv, RunqueueOK, RingOn
<1>6. RunqueueOK'
  BY <1>1, <1>4, <1>5 DEF CalmInv, RunInv, RunqueueOK
<1>7. WaitersOK'
  BY <1>1, <1>4 DEF CalmInv, RunInv, WaitersOK
<1>8. ListOn(Sleepers', sleepqueue', next_sleeping')
  BY <1>2, <1>3, <1>4 DEF ListOn
<1>9. tcb' \in Sleepers \cup {NO} /\ tcb # NO
  BY <1>1, <1>2, <1>3 DEF ListOn
<1>10. SleepqueueOK'
  BY <1>1, <1>2, <1>3, <1>4, <1>8, <1>9 DEF SleepqueueOK, CursorOn
<1> QED BY <1>6, <1>7, <1>10 DEF RunInv

(* Waking a thread from the middle of the list unlinks it.                 *)
LEMMA WakeMiddle ==
  ASSUME NEW S, NEW head \in S, NEW ns, NEW ns2, NEW t \in S, NEW p \in S,
         ListOn(S, head, ns), NO \notin S, p # t, ns[p] = t, t # head,
         \A u \in S : ns2[u] = IF u = p THEN ns[t] ELSE ns[u]
  PROVE  ListOn(S \ {t}, head, ns2)
<1>1. /\ \A u \in S : ns[u] \in S \cup {NO}
      /\ \A u \in S : ns[u] # NO => ns[u] # head
      /\ \A u, v \in S : ns[u] = ns[v] /\ u # v => ns[u] = NO
      /\ \A A \in SUBSET S : A # {} => \E u \in A : ns[u] \notin A
  BY DEF ListOn
<1>2. ns[t] # t
  <2>1. {t} \in SUBSET S /\ {t} # {}
    OBVIOUS
  <2>2. \E u \in {t} : ns[u] \notin {t}
    BY <1>1, <2>1
  <2> QED BY <2>2
<1>3. \A u \in S : u # p => ns[u] # t
  BY <1>1
<1>4. \A u \in S \ {t} : ns2[u] \in (S \ {t}) \cup {NO}
  BY <1>1, <1>2, <1>3
<1>5. \A u \in S \ {t} : ns2[u] # NO => ns2[u] # head
  BY <1>1
<1>6. \A u, v \in S \ {t} : ns2[u] = ns2[v] /\ u # v => ns2[u] = NO
  <2> TAKE u, v \in S \ {t}
  <2>1. \A w \in S : w # t /\ ns[w] = ns[t] => ns[t] = NO
    BY <1>1
  <2>2. u \in S /\ v \in S /\ u # t /\ v # t
    OBVIOUS
  <2>3. CASE u # p /\ v # p
    BY <1>1, <2>2, <2>3
  <2>4. CASE u = p /\ v # p
    BY <2>1, <2>2, <2>4
  <2>5. CASE u # p /\ v = p
    BY <2>1, <2>2, <2>5
  <2> QED BY <2>3, <2>4, <2>5
<1>7. ASSUME NEW A \in SUBSET (S \ {t}), A # {}
      PROVE  \E u \in A : ns2[u] \notin A
  <2>0. A \in SUBSET S /\ t \notin A
    OBVIOUS
  <2>1. CASE p \notin A
    <3>1. PICK u \in A : ns[u] \notin A
      BY <1>1, <1>7, <2>0
    <3> QED BY <2>0, <2>1, <3>1
  <2>2. CASE p \in A
    <3> DEFINE B == A \cup {t}
    <3>1. B \in SUBSET S /\ B # {}
      BY <2>0
    <3>2. PICK u \in B : ns[u] \notin B
      BY <1>1, <3>1
    <3>3. CASE u = t
      <4>1. ns2[p] \notin A
        BY <3>2, <3>3
      <4> QED BY <2>2, <4>1
    <3>4. CASE u # t
      <4>1. u \in A /\ u # p /\ u \in S
        BY <2>0, <3>2, <3>4
      <4>2. ns2[u] \notin A
        BY <3>2, <4>1
      <4> QED BY <4>1, <4>2
    <3> QED BY <3>3, <3>4
  <2> QED BY <2>1, <2>2
<1>8. head \in (S \ {t}) \cup {NO}
  OBVIOUS
<1> QED BY <1>4, <1>5, <1>6, <1>7, <1>8 DEF ListOn

(* Waking the head makes wake_threads rebuild the list: at most the first  *)
(* and the last sleeper are linked, but what is linked is a list.          *)
LEMMA Rebuilt ==
  ASSUME NEW S \in SUBSET Threads, NEW T \in SUBSET S, NEW head, NEW ns, NEW ns2,
         ListOn(S, head, ns), head \notin T, S = T \cup {head},
         NEW first, first = (IF T = {} THEN NO ELSE Min(T)),
         \A u \in Threads : ns2[u] = IF u \notin T THEN ns[u]
                                   ELSE IF u # first THEN NO
                                   ELSE IF T = {first} THEN ns[u] ELSE Max(T)
  PROVE  ListOn(T, first, ns2) /\ first \in T \cup {NO}
<1>1. /\ \A u \in S : ns[u] \in S \cup {NO}
      /\ \A u \in S : ns[u] # NO => ns[u] # head
      /\ \A A \in SUBSET S : A # {} => \E u \in A : ns[u] \notin A
  BY DEF ListOn
<1>2. CASE T = {}
  BY <1>2 DEF ListOn
<1>3. CASE T # {}
  <2>1. first \in T /\ Max(T) \in T /\ T \in SUBSET Threads
    BY <1>3, ThreadSets
  <2>2. T # {first} => Max(T) # first
    <3> SUFFICES ASSUME T # {first} PROVE Max(T) # first
      OBVIOUS
    <3>1. PICK x \in T : x # first
      BY <2>1
    <3>2. first <= x /\ x <= Max(T)
      BY <1>3, <2>1, ThreadSets
    <3>3. first \in Nat /\ x \in Nat /\ Max(T) \in Nat
      BY <2>1, Indices
    <3> QED BY <3>1, <3>2, <3>3
  <2>3. T = {first} => ns[first] = NO
    <3> SUFFICES ASSUME T = {first} PROVE ns[first] = NO
      OBVIOUS
    <3>1. \E u \in T : ns[u] \notin T
      BY <1>1, <1>3
    <3>2. ns[first] # first /\ first \in S
      BY <2>1, <3>1
    <3> QED BY <1>1, <3>2
  <2>4. \A u \in T : ns2[u] = IF u # first \/ T = {first} THEN NO ELSE Max(T)
    BY <2>1, <2>3
  <2>5. ASSUME NEW A \in SUBSET T, A # {}
        PROVE  \E u \in A : ns2[u] \notin A
    <3>1. NO \notin A
      BY <2>1, Indices
    <3>2. CASE \E u \in A : u # first \/ T = {first}
      <4>1. PICK u \in A : u # first \/ T = {first}
        BY <3>2
      <4>2. ns2[u] = NO
        BY <2>4, <4>1
      <4> QED BY <3>1, <4>2
    <3>3. CASE ~ \E u \in A : u # first \/ T = {first}
      <4>1. A = {first} /\ T # {first}
        BY <2>5, <3>3
      <4>2. ns2[first] = Max(T)
        BY <2>1, <2>4, <4>1
      <4> QED BY <2>2, <4>1, <4>2
    <3> QED BY <3>2, <3>3
  <2>6. /\ \A u \in T : ns2[u] \in T \cup {NO}
        /\ \A u \in T : ns2[u] # NO => ns2[u] # first
        /\ \A u, v \in T : ns2[u] = ns2[v] /\ u # v => ns2[u] = NO
    BY <2>1, <2>2, <2>4
  <2> QED BY <2>1, <2>5, <2>6 DEF ListOn
<1> QED BY <1>2, <1>3

(* The thread wake_threads stands at is due: it leaves the sleepqueue.     *)
LEMMA WakeMoves ==
  ASSUME CalmInv, WakeTcb
  PROVE  LET T == Sleepers \ {tcb}
             first == IF T = {} THEN NO ELSE Min(T)
         IN  /\ kpc = "wake" /\ kpc' = "wake" /\ wake_at[tcb] = 0
             /\ tcb \in Sleepers /\ tcb \in Threads /\ tcb \in Waiting
             /\ tcb # char_thread /\ sleepqueue # NO
             /\ ListOn(Sleepers, sleepqueue, next_sleeping)
             /\ \A u \in Threads :
                  /\ state'[u] = IF u = tcb THEN "READY" ELSE state[u]
                  /\ wake_at'[u] = IF u = tcb THEN NEVER_SET ELSE wake_at[u]
             /\ AddToRunqueue(tcb) /\ UNCHANGED <<char_thread, prior_tcb>>
             /\ prior_tcb = NO =>
                  /\ tcb = sleepqueue /\ sleepqueue' = first /\ tcb' = first
                  /\ \A u \in Threads : next_sleeping'[u] =
                       IF u \notin T THEN next_sleeping[u]
                       ELSE IF u # first THEN NO
                       ELSE IF T = {first} THEN next_sleeping[u] ELSE Max(T)
             /\ prior_tcb # NO =>
                  /\ prior_tcb \in Sleepers /\ prior_tcb # tcb
                  /\ next_sleeping[prior_tcb] = tcb
                  /\ sleepqueue \in Sleepers /\ tcb # sleepqueue
                  /\ sleepqueue' = sleepqueue /\ tcb' = next_sleeping[tcb]
                  /\ \A u \in Sleepers : next_sleeping'[u] =
                       IF u = prior_tcb THEN next_sleeping[tcb] ELSE next_sleeping[u]
<1> DEFINE sq == IF prior_tcb = NO THEN next_sleeping[tcb] ELSE sleepqueue
           ns == IF prior_tcb = NO THEN next_sleeping
                 ELSE [next_sleeping EXCEPT ![prior_tcb] = next_sleeping[tcb]]
           st == [state EXCEPT ![tcb] = "READY"]
           wa == [wake_at EXCEPT ![tcb] = NEVER_SET]
           T  == Sleepers \ {tcb}
           first == IF T = {} THEN NO ELSE Min(T)
<1>1. /\ kpc = "wake" /\ kpc' = "wake" /\ tcb # NO /\ wake_at[tcb] <= 0
      /\ Advance(sq, ns, st, wa) /\ state' = st /\ wake_at' = wa
      /\ AddToRunqueue(tcb) /\ UNCHANGED <<char_thread, prior_tcb>>
  BY DEF WakeTcb
<1>2. /\ ListOn(Sleepers, sleepqueue, next_sleeping)
      /\ tcb \in Sleepers /\ tcb \in Threads /\ tcb \in Waiting
      /\ tcb # char_thread /\ sleepqueue # NO
      /\ next_sleeping[tcb] # sleepqueue
      /\ IF prior_tcb = NO THEN tcb = sleepqueue
         ELSE /\ prior_tcb \in Sleepers /\ next_sleeping[prior_tcb] = tcb
              /\ prior_tcb # tcb
  BY <1>1, Cursor
<1>3. wake_at[tcb] = 0
  <2>1. wake_at[tcb] # NEVER_SET
    BY <1>2 DEF CalmInv, RunInv, WaitersOK
  <2>2. wake_at[tcb] \in Nat
    BY <1>2, <2>1 DEF CalmInv, TypeInv, TypeOK
  <2> QED BY <1>1, <2>2
<1>4. \A u \in Threads : /\ st[u] = IF u = tcb THEN "READY" ELSE state[u]
                         /\ wa[u] = IF u = tcb THEN NEVER_SET ELSE wake_at[u]
  BY <1>2 DEF CalmInv, TypeInv, TypeOK
<1>5. {u \in Threads : st[u] = "WAITING" /\ wa[u] # NEVER_SET} = T
  <2>1. \A u \in Threads : wake_at[u] # NEVER_SET <=> u \in Sleepers
    BY DEF CalmInv, RunInv, WaitersOK, Sleepers
  <2>2. \A u \in Sleepers : u \in Threads /\ state[u] = "WAITING"
    BY DEF Sleepers, Waiting
  <2> HIDE DEF st, wa
  <2> QED BY <1>4, <2>1, <2>2
<1>6. CASE prior_tcb = NO
  <2>1. ns[tcb] = sq /\ ns = next_sleeping
    BY <1>6
  <2>2. /\ sleepqueue' = first /\ tcb' = first
        /\ next_sleeping' =
             [u \in Threads |-> IF u \notin T THEN ns[u]
                               ELSE IF u # first THEN NO
                               ELSE IF T = {first} THEN ns[u] ELSE Max(T)]
    BY <1>1, <1>5, <2>1 DEF Advance
  <2> HIDE DEF T, first
  <2>3. \A u \in Threads : next_sleeping'[u] =
           IF u \notin T THEN next_sleeping[u]
           ELSE IF u # first THEN NO
           ELSE IF T = {first} THEN next_sleeping[u] ELSE Max(T)
    BY <2>1, <2>2
  <2> HIDE DEF st, wa
  <2> QED BY <1>1, <1>2, <1>3, <1>4, <1>6, <2>2, <2>3 DEF T, first
<1>7. CASE prior_tcb # NO
  <2>1. prior_tcb \in Sleepers /\ prior_tcb # tcb /\ next_sleeping[prior_tcb] = tcb
    BY <1>2, <1>7
  <2>2. prior_tcb \in Threads /\ Sleepers \in SUBSET Threads
    BY <2>1, Kinds
  <2>3. \A u \in Threads : ns[u] = IF u = prior_tcb THEN next_sleeping[tcb]
                                   ELSE next_sleeping[u]
    BY <1>7, <2>2 DEF CalmInv, TypeInv, TypeOK
  <2>4. sq = sleepqueue /\ ns[tcb] = next_sleeping[tcb]
    BY <1>2, <1>7, <2>1, <2>3
  <2> HIDE DEF ns, sq
  <2>5. sleepqueue' = sleepqueue /\ next_sleeping' = ns /\ tcb' = next_sleeping[tcb]
    BY <1>1, <1>2, <2>4 DEF Advance
  <2>6. sleepqueue \in Sleepers
    BY <1>2, <2>2, Indices DEF ListOn
  <2>7. tcb # sleepqueue
    BY <1>2, <2>1, <2>2, Indices DEF ListOn
  <2>8. \A u \in Sleepers : next_sleeping'[u] = IF u = prior_tcb THEN next_sleeping[tcb]
                                                ELSE next_sleeping[u]
    BY <2>2, <2>3, <2>5
  <2> HIDE DEF st, wa, T, first
  <2> QED BY <1>1, <1>2, <1>3, <1>4, <1>7, <2>1, <2>5, <2>6, <2>7, <2>8
<1> QED BY <1>6, <1>7

LEMMA WakeRun ==
  ASSUME CalmInv, WakeTcb
  PROVE  RunInv'
<1> DEFINE T == Sleepers \ {tcb}
           first == IF T = {} THEN NO ELSE Min(T)
<1>1. /\ kpc = "wake" /\ kpc' = "wake" /\ wake_at[tcb] = 0
      /\ tcb \in Sleepers /\ tcb \in Threads /\ tcb \in Waiting
      /\ tcb # char_thread /\ sleepqueue # NO
      /\ ListOn(Sleepers, sleepqueue, next_sleeping)
      /\ \A u \in Threads :
           /\ state'[u] = IF u = tcb THEN "READY" ELSE state[u]
           /\ wake_at'[u] = IF u = tcb THEN NEVER_SET ELSE wake_at[u]
      /\ AddToRunqueue(tcb) /\ UNCHANGED <<char_thread, prior_tcb>>
  BY WakeMoves
<1>2. IF runqueue = NO THEN Runnable = {} ELSE runqueue \in Runnable
  <2>1. runqueue # NO => runqueue \in Runnable
    BY <1>1 DEF CalmInv, GapWake
  <2> QED BY <2>1 DEF CalmInv, RunInv, RunqueueOK
<1>3. Runnable' = Runnable \cup {tcb} /\ Waiting' = Waiting \ {tcb}
  BY <1>1 DEF Runnable, Waiting
<1>4. RunqueueOK'
  BY <1>1, <1>2, <1>3, Kinds, Link
<1>5. WaitersOK'
  BY <1>1, <1>3, Kinds DEF CalmInv, RunInv, WaitersOK
<1>6. Sleepers' = T /\ Sleepers \in SUBSET Threads
  BY <1>1, <1>3, Kinds DEF Sleepers
<1>7. CASE prior_tcb = NO
  <2>1. /\ tcb = sleepqueue /\ sleepqueue' = first /\ tcb' = first
        /\ \A u \in Threads : next_sleeping'[u] =
             IF u \notin T THEN next_sleeping[u]
             ELSE IF u # first THEN NO
             ELSE IF T = {first} THEN next_sleeping[u] ELSE Max(T)
    BY <1>7, WakeMoves
  <2>2. first = (IF T = {} THEN NO ELSE Min(T))
    OBVIOUS
  <2>3. /\ T \in SUBSET Sleepers /\ sleepqueue \notin T
        /\ Sleepers = T \cup {sleepqueue}
    BY <1>1, <2>1
  <2> HIDE DEF T, first
  <2>4. ListOn(T, first, next_sleeping') /\ first \in T \cup {NO}
    BY <1>1, <1>6, <2>1, <2>2, <2>3, Rebuilt
  <2>5. prior_tcb' = NO
    BY <1>1, <1>7
  <2> QED BY <1>4, <1>5, <1>6, <2>1, <2>4, <2>5 DEF RunInv, SleepqueueOK, CursorOn
<1>8. CASE prior_tcb # NO
  <2>1. /\ prior_tcb \in Sleepers /\ prior_tcb # tcb
        /\ next_sleeping[prior_tcb] = tcb
        /\ sleepqueue \in Sleepers /\ tcb # sleepqueue
        /\ sleepqueue' = sleepqueue /\ tcb' = next_sleeping[tcb]
        /\ \A u \in Sleepers : next_sleeping'[u] =
             IF u = prior_tcb THEN next_sleeping[tcb] ELSE next_sleeping[u]
    BY <1>8, WakeMoves
  <2>2. NO \notin Sleepers
    BY <1>6, Indices
  <2>3. ListOn(T, sleepqueue, next_sleeping')
    <3>1. ASSUME NEW ns2, \A u \in Sleepers : ns2[u] =
                   IF u = prior_tcb THEN next_sleeping[tcb] ELSE next_sleeping[u]
          PROVE  ListOn(Sleepers \ {tcb}, sleepqueue, ns2)
      <4>1. /\ sleepqueue \in Sleepers /\ tcb \in Sleepers /\ prior_tcb \in Sleepers
            /\ ListOn(Sleepers, sleepqueue, next_sleeping) /\ prior_tcb # tcb
            /\ next_sleeping[prior_tcb] = tcb /\ tcb # sleepqueue
        BY <1>1, <2>1
      <4> QED BY <2>2, <3>1, <4>1, WakeMiddle
    <3> QED BY <2>1, <3>1
  <2>4. next_sleeping'[prior_tcb] = next_sleeping[tcb] /\ prior_tcb \in T
    BY <2>1
  <2>5. tcb' \in T \cup {NO}
    BY <2>1, <2>3, <2>4 DEF ListOn
  <2>6. prior_tcb' = prior_tcb /\ sleepqueue # NO
    BY <1>1
  <2> HIDE DEF T, first
  <2>7. SleepqueueOK'
    BY <1>6, <1>8, <2>1, <2>3, <2>4, <2>5, <2>6 DEF SleepqueueOK, CursorOn
  <2> QED BY <1>4, <1>5, <2>7 DEF RunInv
<1> QED BY <1>7, <1>8

LEMMA DispatchRun ==
  ASSUME CalmInv, Dispatch
  PROVE  RunInv'
<1>1. /\ DispatchIdle \/ DispatchNext \/ DispatchSame
      /\ kpc = "wake" /\ kpc' = "user"
      /\ UNCHANGED <<next, prev, wake_at, sleepqueue, next_sleeping, char_thread>>
  BY DEF Dispatch, DispatchIdle, DispatchNext, DispatchSame, AfterWake, sleepVars
<1>2. /\ RingOn(Runnable, next, prev)
      /\ Runnable = {} <=> runqueue = NO
      /\ runqueue # NO => runqueue \in Runnable \/ next[runqueue] \in Runnable
  BY DEF CalmInv, RunInv, RunqueueOK
<1>3. /\ Runnable' = Runnable /\ Waiting' = Waiting
      /\ IF Runnable = {} THEN runqueue' = NO ELSE runqueue' \in Runnable
  <2>1. CASE DispatchIdle
    BY <1>2, <2>1 DEF DispatchIdle, AfterWake, Runnable, Waiting
  <2>2. CASE DispatchNext
    <3> DEFINE to == next[runqueue]
    <3>1. to \in Runnable /\ Runnable # {}
      BY <1>2, <2>2 DEF DispatchNext, AfterWake, RingOn
    <3>2. /\ runqueue' = to
          /\ \A u \in Threads : state'[u] =
               IF u = to THEN "RUNNING"
               ELSE IF u = runqueue /\ state[u] = "RUNNING" THEN "READY" ELSE state[u]
      BY <2>2 DEF DispatchNext
    <3> HIDE DEF to
    <3>3. Runnable' = Runnable /\ Waiting' = Waiting
      BY <3>1, <3>2 DEF Runnable, Waiting
    <3> QED BY <3>1, <3>2, <3>3
  <2>3. CASE DispatchSame
    <3>1. next[runqueue] = runqueue /\ runqueue # NO /\ UNCHANGED <<state, runqueue>>
      BY <2>3 DEF DispatchSame, AfterWake, SwitchWanted
    <3> QED BY <1>2, <3>1 DEF Runnable, Waiting
  <2> QED BY <1>1, <2>1, <2>2, <2>3
<1>4. RingOn(Runnable', next', prev')
  BY <1>1, <1>2, <1>3 DEF RingOn
<1>5. NO \notin Runnable
  BY Kinds, Indices
<1>6. RunqueueOK'
  BY <1>1, <1>3, <1>4, <1>5 DEF RunqueueOK
<1>7. WaitersOK'
  BY <1>1, <1>3 DEF CalmInv, RunInv, WaitersOK
<1>8. Sleepers' = Sleepers
  BY <1>1, <1>3 DEF Sleepers
<1>9. SleepqueueOK'
  BY <1>1, <1>8, SleepKept
<1> QED BY <1>6, <1>7, <1>9 DEF RunInv

-----------------------------------------------------------------------------
(* The theorems.                                                           *)

LEMMA NextRun ==
  ASSUME CalmInv, Next
  PROVE  RunInv'
<1>1. CASE Exit \/ Fault
  BY <1>1, TerminateRun DEF Exit, Fault
<1>2. CASE CreateProcess \/ CreateThread
  BY <1>2, CreateRun
<1>3. CASE \E n \in 1 .. MaxSleep : Sleep(n)
  BY <1>3, SleepRun
<1>4. CASE ReadBuffered \/ ReadWait
  BY <1>4, ReadRun
<1>5. CASE \E c \in Chars : UartStore(c) \/ UartDeliver(c) \/ UartFatal(c)
  BY <1>5, UartRun
<1>6. CASE TimerIrq \/ Tick
  BY <1>6, TimerRun
<1>7. CASE KernelStep
  BY <1>7, WakeRun, SkipRun, DispatchRun DEF KernelStep
<1>8. CASE ReadAstray \/ \E c \in Chars : DeliverAstray(c)
  BY <1>8, AstrayKeeps, RunStays
<1> QED BY <1>1, <1>2, <1>3, <1>4, <1>5, <1>6, <1>7, <1>8 DEF Next

LEMMA StutterRun ==
  ASSUME CalmInv, UNCHANGED vars
  PROVE  CalmInv'
<1>1. UNCHANGED <<state, wake_at, runqueue, next, prev, sleepqueue, next_sleeping,
                  char_thread, kpc, tcb, prior_tcb>>
  BY DEF vars, tcbVars, ringVars, sleepVars, wakeVars
<1>2. Runnable' = Runnable /\ Waiting' = Waiting /\ Sleepers' = Sleepers
  BY <1>1 DEF Runnable, Waiting, Sleepers
<1>3. RunqueueOK'
  BY <1>1, <1>2 DEF CalmInv, RunInv, RunqueueOK, RingOn
<1>4. WaitersOK'
  BY <1>1, <1>2 DEF CalmInv, RunInv, WaitersOK
<1>5. SleepqueueOK'
  BY <1>1, <1>2 DEF CalmInv, RunInv, SleepqueueOK, ListOn, CursorOn
<1>6. ~GapWake'
  BY <1>1, <1>2 DEF CalmInv, GapWake
<1> QED BY <1>3, <1>4, <1>5, <1>6, StutterType DEF CalmInv, RunInv

LEMMA CalmInit == Init => CalmInv
BY InitType, InitRun DEF CalmInv, GapWake, Init

LEMMA CalmStep == CalmInv /\ [CalmNext]_vars => CalmInv'
<1> SUFFICES ASSUME CalmInv, [CalmNext]_vars PROVE CalmInv'
  OBVIOUS
<1>1. CASE CalmNext
  BY <1>1, NextType, NextRun DEF CalmNext, CalmInv
<1>2. CASE UNCHANGED vars
  BY <1>2, StutterRun
<1> QED BY <1>1, <1>2

(* Without a wake-up into a gap the ring always holds exactly the runnable *)
(* threads.                                                                *)
THEOREM RunqueueCorrect == CalmSpec => []RunqueueOK
<1>1. CalmInv => RunqueueOK
  BY DEF CalmInv, RunInv
<1> QED BY <1>1, CalmInit, CalmStep, PTL DEF CalmSpec

(* Without a wake-up into a gap no waiting thread is forgotten: it is      *)
(* either the reader or has a wake time, never both.                       *)
THEOREM WaitersCorrect == CalmSpec => []WaitersOK
<1>1. CalmInv => WaitersOK
  BY DEF CalmInv, RunInv
<1> QED BY <1>1, CalmInit, CalmStep, PTL DEF CalmSpec

(* Without a wake-up into a gap the sleepqueue is a list, however many     *)
(* threads sleep, and although its repair drops some of them.              *)
THEOREM SleepqueueCorrect == CalmSpec => []SleepqueueOK
<1>1. CalmInv => SleepqueueOK
  BY DEF CalmInv, RunInv
<1> QED BY <1>1, CalmInit, CalmStep, PTL DEF CalmSpec

-----------------------------------------------------------------------------
(* No sleeping thread is dropped while at most three sleep: the repair     *)
(* that follows a wake-up at the head of the queue keeps two.              *)

FewSleepers == \E a, b, c \in Threads : Sleepers \subseteq {a, b, c}

(* Every thread of S is reached from head: a set without the head is       *)
(* entered from outside.                                                   *)
LinkedOn(S, head, ns) ==
    \A A \in SUBSET S : A # {} /\ head \notin A => \E t \in S \ A : ns[t] \in A

(* Every thread of S that is due is reached from the thread from: it is in *)
(* every set that holds from and is closed under ns.                       *)
AheadOn(S, from, ns, wa) ==
    \A C \in SUBSET S :
        from \in C \cup {NO} /\ (\A t \in C : ns[t] \in C \cup {NO})
        => \A t \in S \ C : wa[t] # 0

LEMMA FromHead ==
  ASSUME NEW S, NO \notin S, NEW head, NEW ns, NEW wa, LinkedOn(S, head, ns)
  PROVE  AheadOn(S, head, ns, wa)
<1> SUFFICES ASSUME NEW C \in SUBSET S, head \in C \cup {NO},
                    \A t \in C : ns[t] \in C \cup {NO},
                    NEW x \in S \ C
             PROVE  FALSE
  BY DEF AheadOn
<1> DEFINE A == S \ C
<1>1. A \in SUBSET S /\ A # {} /\ head \notin A
  OBVIOUS
<1>2. PICK t \in S \ A : ns[t] \in A
  BY <1>1 DEF LinkedOn
<1> QED BY <1>2

(* The sleeping thread c becomes the new head.                             *)
LEMMA PushLinks ==
  ASSUME NEW S, NEW c, c \notin S, NEW head, NEW ns, NEW ns2, LinkedOn(S, head, ns),
         ns2[c] = head, \A t \in S : ns2[t] = ns[t]
  PROVE  LinkedOn(S \cup {c}, c, ns2)
<1> SUFFICES ASSUME NEW A \in SUBSET (S \cup {c}), A # {}, c \notin A
             PROVE  \E t \in (S \cup {c}) \ A : ns2[t] \in A
  BY DEF LinkedOn
<1>1. A \in SUBSET S
  OBVIOUS
<1>2. CASE head \in A
  BY <1>2
<1>3. CASE head \notin A
  <2>1. PICK t \in S \ A : ns[t] \in A
    BY <1>1, <1>3 DEF LinkedOn
  <2> QED BY <2>1
<1> QED BY <1>2, <1>3

(* The thread t behind p is taken out of the list.                         *)
LEMMA CutLinks ==
  ASSUME NEW S, NEW head \in S, NEW ns, NEW ns2, NEW t \in S, NEW p \in S,
         ListOn(S, head, ns), LinkedOn(S, head, ns), NO \notin S,
         p # t, ns[p] = t, t # head,
         \A u \in S : ns2[u] = IF u = p THEN ns[t] ELSE ns[u]
  PROVE  LinkedOn(S \ {t}, head, ns2)
<1> SUFFICES ASSUME NEW A \in SUBSET (S \ {t}), A # {}, head \notin A
             PROVE  \E u \in (S \ {t}) \ A : ns2[u] \in A
  BY DEF LinkedOn
<1>1. PICK v \in S \ A : ns[v] \in A
  BY DEF LinkedOn
<1>2. PICK u \in S \ (A \cup {t}) : ns[u] \in A \cup {t}
  <2>1. A \cup {t} \in SUBSET S /\ head \notin A \cup {t} /\ A \cup {t} # {}
    OBVIOUS
  <2> QED BY <2>1 DEF LinkedOn
<1>3. CASE v # t
  BY <1>1, <1>3
<1>4. CASE v = t /\ ns[u] = t
  <2>1. u = p
    BY <1>2, <1>4 DEF ListOn
  <2> QED BY <1>1, <1>2, <1>4, <2>1
<1>5. CASE ns[u] # t
  BY <1>2, <1>5
<1> QED BY <1>3, <1>4, <1>5

LEMMA CutAhead ==
  ASSUME NEW S, NEW ns, NEW ns2, NEW t \in S, NEW p \in S, NEW wa, NEW wa2,
         AheadOn(S, t, ns, wa), ns[p] = t, p # t,
         \A u \in S : ns2[u] = IF u = p THEN ns[t] ELSE ns[u],
         \A u \in S \ {t} : wa2[u] = wa[u]
  PROVE  AheadOn(S \ {t}, ns[t], ns2, wa2)
<1> SUFFICES ASSUME NEW C \in SUBSET (S \ {t}), ns[t] \in C \cup {NO},
                    \A u \in C : ns2[u] \in C \cup {NO},
                    NEW x \in (S \ {t}) \ C
             PROVE  wa2[x] # 0
  BY DEF AheadOn
<1> DEFINE D == C \cup {t}
<1>1. D \in SUBSET S /\ t \in D /\ x \in S \ D
  OBVIOUS
<1>2. \A u \in D : ns[u] \in D \cup {NO}
  OBVIOUS
<1> HIDE DEF D
<1>3. wa[x] # 0
  BY <1>1, <1>2 DEF AheadOn
<1> QED BY <1>3

LEMMA SkipAhead ==
  ASSUME NEW S, NEW ns, NEW t \in S, NEW wa, AheadOn(S, t, ns, wa), wa[t] # 0
  PROVE  AheadOn(S, ns[t], ns, wa)
<1> SUFFICES ASSUME NEW C \in SUBSET S, ns[t] \in C \cup {NO},
                    \A u \in C : ns[u] \in C \cup {NO}, NEW x \in S \ C
             PROVE  wa[x] # 0
  BY DEF AheadOn
<1> DEFINE D == C \cup {t}
<1>1. D \in SUBSET S /\ t \in D /\ \A u \in D : ns[u] \in D \cup {NO}
  OBVIOUS
<1> HIDE DEF D
<1>2. \A y \in S \ D : wa[y] # 0
  BY <1>1 DEF AheadOn
<1> QED BY <1>2 DEF D

(* What the rebuilding loop makes of two threads or fewer.                 *)
LEMMA RebuiltLinks ==
  ASSUME NEW T \in SUBSET Threads, NEW ns, NEW ns2,
         \A x, y, z \in T : x = y \/ y = z \/ x = z,
         NEW first, first = (IF T = {} THEN NO ELSE Min(T)),
         \A u \in Threads : ns2[u] = IF u \notin T THEN ns[u]
                                   ELSE IF u # first THEN NO
                                   ELSE IF T = {first} THEN ns[u] ELSE Max(T)
  PROVE  LinkedOn(T, first, ns2)
<1> SUFFICES ASSUME NEW A \in SUBSET T, A # {}, first \notin A
             PROVE  \E t \in T \ A : ns2[t] \in A
  BY DEF LinkedOn
<1>1. PICK x \in A : x # first
  OBVIOUS
<1>2. first \in T /\ Max(T) \in T
  BY ThreadSets
<1>3. first <= x /\ x <= Max(T)
  BY ThreadSets
<1>4. Max(T) # first
  <2>1. first \in Nat /\ x \in Nat /\ Max(T) \in Nat
    BY <1>2, Indices
  <2> QED BY <1>1, <1>3, <2>1
<1>5. x = Max(T)
  BY <1>1, <1>2, <1>4
<1>6. ns2[first] = Max(T)
  <2>1. T # {first}
    BY <1>1
  <2> QED BY <1>2, <2>1
<1> QED BY <1>2, <1>5, <1>6

LinkInv ==
    /\ LinkedOn(Sleepers, sleepqueue, next_sleeping)
    /\ kpc = "wake" => AheadOn(Sleepers, tcb, next_sleeping, wake_at)

(* The sleepqueue stays, and nobody goes to sleep or wakes up; a handler   *)
(* that starts does so at the head.                                        *)
Quiet ==
    /\ UNCHANGED <<wake_at, sleepqueue, next_sleeping>>
    /\ kpc' = "wake" => tcb' = sleepqueue \/ UNCHANGED <<kpc, tcb>>
    /\ kpc' = "user" =>
         /\ kpc = "user"
         /\ \/ running' # NO \/ runqueue' # NO
            \/ UNCHANGED <<running, runqueue, timer, timer_pending>>

LEMMA SleepersAre ==
  /\ CalmInv => Sleepers = {t \in Threads : wake_at[t] # NEVER_SET}
  /\ CalmInv' => Sleepers' = {t \in Threads : wake_at'[t] # NEVER_SET}
BY DEF CalmInv, RunInv, WaitersOK, Sleepers, Waiting

LEMMA Moves ==
  ASSUME CalmInv, [CalmNext]_vars
  PROVE  \/ \E n \in 1 .. MaxSleep : Sleep(n)
         \/ WakeTcb \/ SkipTcb \/ Tick \/ Dispatch \/ Quiet
<1>1. ASSUME Exit \/ Fault PROVE Quiet
  <2>1. TerminateCurrent
    BY <1>1 DEF Exit, Fault
  <2> QED BY <2>1 DEF TerminateCurrent, EnterScheduler, Quiet, tcbVars, sleepVars
<1>2. ASSUME NEW call, InSyscall(call), NEW t, NEW i, NEW refs, NEW mapped,
             StartThread(t, i, refs, mapped)
      PROVE  Quiet
  BY <1>2 DEF StartThread, GoesAstray, EnterScheduler, Quiet, sleepVars
<1>3. ASSUME CreateProcess PROVE Quiet
  <2>1. InSyscall("process")
    BY <1>3 DEF CreateProcess
  <2>2. CASE FreeTables = {}
    BY <1>3, <2>1, <2>2 DEF CreateProcess, InSyscall, Quiet, sleepVars
  <2>3. CASE FreeTables # {}
    BY <1>2, <1>3, <2>1, <2>3 DEF CreateProcess
  <2> QED BY <2>2, <2>3
<1>4. ASSUME CreateThread PROVE Quiet
  <2>1. InSyscall("thread")
    BY <1>4 DEF CreateThread
  <2>2. CASE L2_table_i[runqueue] = NO
    BY <1>4, <2>2 DEF CreateThread, Quiet, tcbVars, sleepVars
  <2>3. CASE L2_table_i[runqueue] # NO
    BY <1>2, <1>4, <2>1, <2>3 DEF CreateThread
  <2> QED BY <2>2, <2>3
<1>5. ASSUME ReadBuffered \/ ReadWait PROVE Quiet
  BY <1>5 DEF ReadBuffered, ReadWait, InSyscall, EnterScheduler, Quiet, tcbVars, sleepVars
<1>6. ASSUME NEW c, UartStore(c) \/ UartFatal(c) PROVE Quiet
  BY <1>6 DEF UartStore, UartFatal, Quiet, tcbVars, ringVars, sleepVars, timerVars
<1>7. ASSUME NEW c, UartDeliver(c) PROVE Quiet
  <2>1. char_thread # NO /\ running' = char_thread /\ kpc = "user"
    BY <1>7 DEF UartDeliver, LoadContext
  <2> QED BY <1>7, <2>1 DEF UartDeliver, Quiet, sleepVars
<1>8. ASSUME TimerIrq PROVE Quiet
  BY <1>8 DEF TimerIrq, EnterScheduler, Quiet, tcbVars, sleepVars
<1>9. ASSUME UNCHANGED vars PROVE Quiet
  BY <1>9 DEF vars, tcbVars, ringVars, sleepVars, wakeVars, timerVars, Quiet
<1>10. ASSUME ReadAstray \/ \E c \in Chars : DeliverAstray(c) PROVE Quiet
  BY <1>10, AstrayKeeps DEF Quiet
<1> QED BY <1>1, <1>3, <1>4, <1>5, <1>6, <1>7, <1>8, <1>9, <1>10 DEF CalmNext, Next, KernelStep

LEMMA TickMoves ==
  ASSUME CalmInv, Tick
  PROVE  /\ UNCHANGED <<running, runqueue, sleepqueue, next_sleeping, kpc>>
         /\ kpc = "user" /\ ~ timer_pending /\ timer' = timer - 1
         /\ timer_pending' = (timer = 1)
         /\ \A t \in Threads :
              /\ wake_at'[t] = NEVER_SET <=> wake_at[t] = NEVER_SET
              /\ wake_at[t] # NEVER_SET => wake_at[t] \in Nat
              /\ wake_at'[t] = IF wake_at[t] > 0 THEN wake_at[t] - 1 ELSE wake_at[t]
<1>1. /\ UNCHANGED <<running, runqueue, sleepqueue, next_sleeping, kpc>>
      /\ kpc = "user" /\ ~ timer_pending /\ timer' = timer - 1
      /\ timer_pending' = (timer = 1)
  BY DEF Tick, ringVars, sleepVars
<1>2. \A t \in Threads : wake_at[t] \in Nat \cup {NEVER_SET}
  BY DEF CalmInv, TypeInv, TypeOK
<1>3. \A t \in Threads :
        wake_at'[t] = IF wake_at[t] > 0 THEN wake_at[t] - 1 ELSE wake_at[t]
  BY DEF Tick
<1> QED BY <1>1, <1>2, <1>3 DEF NEVER_SET

LEMMA LinkStep ==
  ASSUME CalmInv, CalmInv', LinkInv, FewSleepers, [CalmNext]_vars
  PROVE  LinkInv'
<1> DEFINE S == Sleepers
           ns == next_sleeping
<1>1. NO \notin S /\ NO \notin S' /\ S \in SUBSET Threads
  BY SleepersAre, Indices
<1>2. /\ S = {t \in Threads : wake_at[t] # NEVER_SET}
      /\ S' = {t \in Threads : wake_at'[t] # NEVER_SET}
      /\ \A t \in Threads : wake_at[t] \in Nat \cup {NEVER_SET}
  BY SleepersAre DEF CalmInv, TypeInv, TypeOK
<1>3. LinkedOn(S, sleepqueue, ns) /\ (kpc = "wake" => AheadOn(S, tcb, ns, wake_at))
  BY DEF LinkInv
<1>4. ASSUME LinkedOn(S', sleepqueue', ns'), kpc' = "wake" => tcb' = sleepqueue'
      PROVE  LinkInv'
  <2>1. AheadOn(S', sleepqueue', ns', wake_at')
    BY <1>1, <1>4, FromHead
  <2> QED BY <1>4, <2>1 DEF LinkInv
<1> HIDE DEF S, ns
<1>5. CASE Quiet
  <2>1. /\ S' = S /\ sleepqueue' = sleepqueue /\ ns' = ns /\ wake_at' = wake_at
        /\ kpc' = "wake" => tcb' = sleepqueue \/ UNCHANGED <<kpc, tcb>>
    BY <1>2, <1>5 DEF Quiet, ns
  <2>2. LinkedOn(S', sleepqueue', ns')
    BY <1>3, <2>1
  <2>3. CASE kpc' = "wake" => tcb' = sleepqueue
    BY <1>4, <2>1, <2>2, <2>3
  <2>4. CASE UNCHANGED <<kpc, tcb>>
    <3>1. kpc' = "wake" => AheadOn(S', tcb', ns', wake_at')
      BY <1>3, <2>1, <2>4
    <3> QED BY <2>2, <3>1 DEF LinkInv, S, ns
  <2> QED BY <2>1, <2>3, <2>4
<1>6. CASE Tick
  <2>1. S' = S /\ sleepqueue' = sleepqueue /\ ns' = ns /\ kpc' # "wake"
    BY <1>2, <1>6, TickMoves DEF ns
  <2>2. LinkedOn(S', sleepqueue', ns')
    BY <1>3, <2>1
  <2> QED BY <1>4, <2>1, <2>2
<1>7. CASE Dispatch
  <2>1. S' = S /\ sleepqueue' = sleepqueue /\ ns' = ns /\ kpc' # "wake"
    BY <1>2, <1>7 DEF Dispatch, sleepVars, ns
  <2>2. LinkedOn(S', sleepqueue', ns')
    BY <1>3, <2>1
  <2> QED BY <1>4, <2>1, <2>2
<1>8. ASSUME NEW n \in 1 .. MaxSleep, Sleep(n) PROVE LinkInv'
  <2> DEFINE c == runqueue
  <2>1. /\ c \in Threads /\ c \notin Waiting /\ n # NEVER_SET
    BY <1>8, CallerRuns DEF Sleep, NEVER_SET
  <2>2. /\ wake_at' = [wake_at EXCEPT ![c] = n] /\ sleepqueue' = c
        /\ next_sleeping' = [next_sleeping EXCEPT ![c] = sleepqueue] /\ tcb' = c
    BY <1>8 DEF Sleep, PushSleeper, EnterScheduler
  <2>3. \A u \in Threads : /\ wake_at'[u] = IF u = c THEN n ELSE wake_at[u]
                           /\ ns'[u] = IF u = c THEN sleepqueue ELSE ns[u]
    BY <2>1, <2>2 DEF CalmInv, TypeInv, TypeOK, ns
  <2>4. c \notin S
    BY <2>1 DEF S, Sleepers
  <2> HIDE DEF c
  <2>5. S' = S \cup {c}
    BY <1>2, <2>1, <2>3
  <2>6. LinkedOn(S \cup {c}, c, ns')
    BY <1>1, <1>3, <2>1, <2>3, <2>4, PushLinks
  <2> QED BY <1>4, <2>2, <2>5, <2>6
<1>9. CASE SkipTcb
  <2>1. /\ kpc = "wake" /\ tcb # NO /\ wake_at[tcb] > 0 /\ UNCHANGED wake_at
        /\ Advance(sleepqueue, next_sleeping, state, wake_at)
    BY <1>9 DEF SkipTcb, tcbVars
  <2>2. tcb \in S /\ next_sleeping[tcb] # sleepqueue
    BY <2>1, Cursor DEF S
  <2>3. S' = S /\ sleepqueue' = sleepqueue /\ ns' = ns /\ tcb' = ns[tcb]
    BY <1>2, <2>1, <2>2 DEF Advance, ns
  <2>4. LinkedOn(S', sleepqueue', ns')
    BY <1>3, <2>3
  <2>5. AheadOn(S, tcb, ns, wake_at) /\ wake_at[tcb] # 0
    BY <1>1, <1>2, <1>3, <2>1, <2>2 DEF NEVER_SET
  <2>6. AheadOn(S', tcb', ns', wake_at')
    BY <2>1, <2>2, <2>3, <2>5, SkipAhead
  <2> QED BY <2>4, <2>6 DEF LinkInv, S, ns
<1>10. CASE WakeTcb
  <2> DEFINE T == S \ {tcb}
             first == IF T = {} THEN NO ELSE Min(T)
  <2>1. /\ kpc = "wake" /\ tcb \in S /\ tcb \in Threads
        /\ ListOn(S, sleepqueue, ns)
        /\ \A u \in Threads : wake_at'[u] = IF u = tcb THEN NEVER_SET ELSE wake_at[u]
    BY <1>10, WakeMoves DEF S, ns
  <2>2. S' = T
    BY <1>2, <2>1
  <2>3. CASE prior_tcb = NO
    <3>1. /\ sleepqueue' = first /\ tcb' = first
          /\ \A u \in Threads : ns'[u] =
               IF u \notin T THEN ns[u]
               ELSE IF u # first THEN NO
               ELSE IF T = {first} THEN ns[u] ELSE Max(T)
      BY <1>10, <2>3, WakeMoves DEF S, ns
    <3>2. first = (IF T = {} THEN NO ELSE Min(T)) /\ T \in SUBSET Threads
      BY <1>1
    <3>3. \A x, y, z \in T : x = y \/ y = z \/ x = z
      <4>1. PICK a, b, c \in Threads : S \subseteq {a, b, c}
        BY DEF FewSleepers, S
      <4> QED BY <2>1, <4>1
    <3> HIDE DEF T, first
    <3>4. LinkedOn(T, first, ns')
      BY <3>1, <3>2, <3>3, RebuiltLinks
    <3> QED BY <1>4, <2>2, <3>1, <3>4
  <2>4. CASE prior_tcb # NO
    <3>1. /\ prior_tcb \in S /\ prior_tcb # tcb /\ ns[prior_tcb] = tcb
          /\ sleepqueue \in S /\ tcb # sleepqueue
          /\ sleepqueue' = sleepqueue /\ tcb' = ns[tcb]
          /\ \A u \in S : ns'[u] = IF u = prior_tcb THEN ns[tcb] ELSE ns[u]
      BY <1>10, <2>4, WakeMoves DEF S, ns
    <3>2. LinkedOn(T, sleepqueue, ns')
      BY <1>1, <1>3, <2>1, <3>1, CutLinks
    <3>3. \A u \in T : wake_at'[u] = wake_at[u]
      BY <1>1, <2>1
    <3> HIDE DEF T
    <3>4. AheadOn(S, tcb, ns, wake_at)
      BY <1>3, <2>1
    <3>5. AheadOn(T, ns[tcb], ns', wake_at')
      BY <2>1, <3>1, <3>3, <3>4, CutAhead DEF T
    <3> QED BY <2>2, <3>1, <3>2, <3>5 DEF LinkInv, S, ns
  <2> QED BY <2>3, <2>4
<1> QED BY <1>5, <1>6, <1>7, <1>8, <1>9, <1>10, Moves

LEMMA LinkInit == Init => LinkInv
<1> SUFFICES ASSUME Init PROVE LinkInv
  OBVIOUS
<1>1. Sleepers = {} /\ kpc = "user"
  BY DEF Init, Sleepers, Waiting
<1> QED BY <1>1 DEF LinkInv, LinkedOn

(* reset_scheduler_timer meets every sleeping thread.                      *)
LEMMA ChainHoldsAll ==
  ASSUME CalmInv, LinkInv
  PROVE  Sleepers \subseteq SleepChain
<1>1. NO \notin Sleepers /\ Sleepers \in SUBSET Threads
  BY SleepersAre, Indices
<1> SUFFICES ASSUME NEW x \in Sleepers, NEW S \in SUBSET Threads, sleepqueue \in S,
                    \A s \in S : next_sleeping[s] \in S \cup {NO}, x \notin S
             PROVE  FALSE
  BY <1>1 DEF SleepChain
<1> DEFINE A == Sleepers \ S
<1>2. A \in SUBSET Sleepers /\ A # {} /\ sleepqueue \notin A
  OBVIOUS
<1>3. PICK t \in Sleepers \ A : next_sleeping[t] \in A
  BY <1>2 DEF LinkInv, LinkedOn
<1> QED BY <1>1, <1>3

(* As long as no more than three threads sleep at a time, every one of     *)
(* them is found from sleepqueue, whatever the repair after a wake-up      *)
(* does (thread.c:452-454).  A fourth one may be lost.                     *)
THEOREM SleepersStayLinked == CalmSpec /\ []FewSleepers => []AllSleepersLinked
<1>1. CalmInv /\ LinkInv => AllSleepersLinked
  BY ChainHoldsAll DEF AllSleepersLinked
<1>2. CalmInv /\ LinkInv /\ FewSleepers /\ [CalmNext]_vars => CalmInv' /\ LinkInv'
  BY CalmStep, LinkStep
<1> QED BY <1>1, <1>2, CalmInit, LinkInit, PTL DEF CalmSpec

(* As long as no more than three threads sleep at a time, no handler that  *)
(* calls scheduler() ends with a thread left asleep whose time has come:   *)
(* wake_threads has met every sleeper, through all of its repairs          *)
(* (thread.c:426-475).                                                     *)
THEOREM NobodyOversleeps == CalmSpec /\ []FewSleepers => NobodyOverslept
<1>1. ASSUME CalmInv, LinkInv, Dispatch, NEW t \in Sleepers
      PROVE  wake_at[t] > 0
  <2>1. kpc = "wake" /\ tcb = NO
    BY <1>1 DEF Dispatch, DispatchIdle, DispatchNext, DispatchSame, AfterWake
  <2>2. AheadOn(Sleepers, NO, next_sleeping, wake_at)
    BY <1>1, <2>1 DEF LinkInv
  <2>3. \A x \in Sleepers \ {} : wake_at[x] # 0
    BY <2>2 DEF AheadOn
  <2>4. wake_at[t] \in Nat
    BY <1>1, SleepersAre DEF CalmInv, TypeInv, TypeOK
  <2> QED BY <1>1, <2>3, <2>4
<1>2. CalmInv /\ LinkInv => [Dispatch => \A t \in Sleepers : wake_at[t] > 0]_vars
  BY <1>1
<1>3. CalmInv /\ LinkInv /\ FewSleepers /\ [CalmNext]_vars => CalmInv' /\ LinkInv'
  BY CalmStep, LinkStep
<1> QED BY <1>2, <1>3, CalmInit, LinkInit, PTL DEF CalmSpec, NobodyOverslept

-----------------------------------------------------------------------------
(* The loop of wake_threads.                                               *)

(* Where the cursor is not the head yet and moves on along the list, it    *)
(* leaves the thread it stood at for good.                                 *)
LEMMA CursorLeaves ==
  ASSUME CalmInv, tcb \in Sleepers, tcb' = next_sleeping[tcb],
         UNCHANGED next_sleeping
  PROVE  Ahead' \subseteq Ahead /\ Ahead' # Ahead
<1>0. Sleepers \in SUBSET Threads /\ tcb \in Threads /\ NO \notin Threads
  BY SleepersAre, Indices
<1>1. /\ \A t \in Sleepers : next_sleeping[t] \in Sleepers \cup {NO}
      /\ \A A \in SUBSET Sleepers : A # {} => \E t \in A : next_sleeping[t] \notin A
  BY DEF CalmInv, RunInv, SleepqueueOK, ListOn
<1>2. /\ Ahead \in SUBSET Threads /\ Ahead' \in SUBSET Threads
      /\ \A t \in Threads : t \in Ahead <=>
           \A S \in SUBSET Threads :
              (tcb \in S \cup {NO} /\ \A s \in S : next_sleeping[s] \in S \cup {NO})
              => t \in S
      /\ \A t \in Threads : t \in Ahead' <=>
           \A S \in SUBSET Threads :
              (/\ next_sleeping[tcb] \in S \cup {NO}
               /\ \A s \in S : next_sleeping[s] \in S \cup {NO})
              => t \in S
  BY DEF Ahead
<1>3. Ahead' \subseteq Ahead
  BY <1>0, <1>2
<1>4. tcb \in Ahead
  BY <1>0, <1>2
<1>5. tcb \notin Ahead'
  <2> DEFINE Closed(S) == \A s \in S : next_sleeping[s] \in S \cup {NO}
             D == {x \in Sleepers : \A S \in SUBSET Sleepers :
                                       x \in S /\ Closed(S) => tcb \in S}
  <2>1. SUFFICES ASSUME \A S \in SUBSET Sleepers :
                          next_sleeping[tcb] \in S \cup {NO} /\ Closed(S) => tcb \in S
                 PROVE  FALSE
    BY <1>0, <1>2
  <2>2. next_sleeping[tcb] \in Sleepers
    <3>1. Closed({}) /\ {} \in SUBSET Sleepers
      OBVIOUS
    <3> QED BY <1>1, <2>1, <3>1
  <2>3. tcb \in D
    OBVIOUS
  <2>4. PICK x \in D : next_sleeping[x] \notin D
    <3>1. D \in SUBSET Sleepers /\ D # {}
      BY <2>3
    <3> QED BY <1>1, <3>1
  <2>5. next_sleeping[tcb] \in D
    BY <2>1, <2>2
  <2>6. x # tcb /\ x \in Sleepers
    BY <2>4, <2>5
  <2>7. next_sleeping[x] \in Sleepers
    <3>1. next_sleeping[x] = NO => Closed({x}) /\ {x} \in SUBSET Sleepers
      BY <2>6
    <3>2. next_sleeping[x] # NO
      BY <2>4, <2>6, <3>1
    <3> QED BY <1>1, <2>6, <3>2
  <2>8. PICK S \in SUBSET Sleepers : next_sleeping[x] \in S /\ Closed(S) /\ tcb \notin S
    BY <2>4, <2>7
  <2>9. Closed(S \cup {x}) /\ S \cup {x} \in SUBSET Sleepers /\ x \in S \cup {x}
    BY <2>6, <2>8
  <2>10. tcb \in S \cup {x}
    <3> HIDE DEF Closed
    <3> QED BY <2>4, <2>9
  <2> QED BY <2>6, <2>8, <2>10
<1> QED BY <1>3, <1>4, <1>5

(* Every iteration of the loop of wake_threads that is not the last wakes  *)
(* a thread for good or moves the cursor to where it does not come back    *)
(* from: with finitely many threads the loop ends, though every repair     *)
(* starts it over (thread.c:432-475).                                      *)
THEOREM WakeLoopProgresses == CalmSpec => LoopProgresses
<1> DEFINE Progress ==
             kpc = "wake" /\ kpc' = "wake" =>
               \/ Sleepers' \subseteq Sleepers /\ Sleepers' # Sleepers
               \/ Sleepers' = Sleepers /\ Ahead' \subseteq Ahead /\ Ahead' # Ahead
<1>1. ASSUME CalmInv, CalmInv', WakeTcb PROVE Progress
  <2>1. /\ tcb \in Sleepers /\ tcb \in Threads
        /\ \A u \in Threads : wake_at'[u] = IF u = tcb THEN NEVER_SET ELSE wake_at[u]
    BY <1>1, WakeMoves
  <2>2. Sleepers' = Sleepers \ {tcb}
    BY <1>1, <2>1, SleepersAre
  <2> QED BY <2>1, <2>2
<1>2. ASSUME CalmInv, CalmInv', SkipTcb PROVE Progress
  <2>1. /\ kpc = "wake" /\ tcb # NO /\ UNCHANGED <<wake_at, state, char_thread>>
        /\ Advance(sleepqueue, next_sleeping, state, wake_at)
    BY <1>2 DEF SkipTcb, tcbVars
  <2>2. tcb \in Sleepers /\ next_sleeping[tcb] # sleepqueue
    BY <1>2, <2>1, Cursor
  <2>3. tcb' = next_sleeping[tcb] /\ UNCHANGED next_sleeping
    BY <2>1, <2>2 DEF Advance
  <2>4. Sleepers' = Sleepers
    BY <2>1 DEF Sleepers, Waiting
  <2> QED BY <1>2, <2>2, <2>3, <2>4, CursorLeaves
<1>3. ASSUME NEW n, \/ Sleep(n) \/ Exit \/ Fault \/ CreateProcess \/ CreateThread
                    \/ ReadBuffered \/ ReadAstray \/ ReadWait
      PROVE  kpc = "user"
  BY <1>3 DEF Sleep, Exit, Fault, CreateProcess, CreateThread, ReadBuffered, ReadAstray,
              ReadWait, InSyscall
<1>4. ASSUME NEW c, \/ UartStore(c) \/ UartDeliver(c) \/ DeliverAstray(c) \/ UartFatal(c)
                    \/ TimerIrq \/ Tick
      PROVE  kpc = "user"
  BY <1>4 DEF UartStore, UartDeliver, DeliverAstray, UartFatal, TimerIrq, Tick
<1>5. Dispatch => kpc' = "user"
  BY DEF Dispatch
<1>6. CalmInv /\ CalmInv' /\ CalmNext => Progress
  <2> HIDE DEF Progress
  <2> SUFFICES ASSUME CalmInv, CalmInv', CalmNext PROVE Progress
    OBVIOUS
  <2>1. kpc = "user" \/ kpc' = "user" => Progress
    BY DEF Progress
  <2>2. (\E n \in 1 .. MaxSleep : Sleep(n)) => kpc = "user"
    BY <1>3
  <2>3. Exit \/ Fault \/ CreateProcess \/ CreateThread \/ ReadBuffered \/ ReadAstray
        \/ ReadWait => kpc = "user"
    BY <1>3
  <2>4. (\E c \in Chars : UartStore(c) \/ UartDeliver(c) \/ DeliverAstray(c) \/ UartFatal(c))
          => kpc = "user"
    BY <1>4
  <2>5. TimerIrq \/ Tick => kpc = "user"
    BY <1>4
  <2> QED BY <1>1, <1>2, <1>5, <2>1, <2>2, <2>3, <2>4, <2>5 DEF CalmNext, Next, KernelStep
<1>7. CalmInv /\ CalmInv' /\ [CalmNext]_vars => [Progress]_vars
  BY <1>6
<1>8. LoopProgresses <=> [][Progress]_vars
  BY DEF LoopProgresses
<1> HIDE DEF Progress
<1> QED BY <1>7, <1>8, CalmInit, CalmStep, PTL DEF CalmSpec

-----------------------------------------------------------------------------
(* The idle timer of the scheduler.                                        *)

(* reset_scheduler_timer at the end of a handler that found no ready       *)
(* thread: wake_threads has seen every thread that was due.                *)
LEMMA SoonestArmed ==
  ASSUME CalmInv, LinkInv, Dispatch, runqueue' = NO
  PROVE  \A t \in Sleepers : timer' <= wake_at[t]
<1>1. /\ kpc = "wake" /\ tcb = NO /\ runqueue = NO /\ ResetSchedulerTimer
  <2>1. runqueue = NO
    <3>1. NO \notin Runnable
      BY Kinds, Indices
    <3>2. CASE DispatchNext
      BY <3>1, <3>2 DEF DispatchNext, AfterWake, CalmInv, RunInv, RunqueueOK, RingOn
    <3>3. CASE DispatchIdle \/ DispatchSame
      BY <3>3 DEF DispatchIdle, DispatchSame
    <3> QED BY <3>2, <3>3 DEF Dispatch
  <2> QED BY <2>1 DEF Dispatch, DispatchIdle, DispatchNext, DispatchSame, AfterWake
<1>2. Sleepers \subseteq SleepChain /\ SleepChain \in SUBSET Threads
  BY ChainHoldsAll DEF SleepChain
<1>3. \A t \in Sleepers : wake_at[t] \in Nat /\ wake_at[t] # 0
  <2>1. AheadOn(Sleepers, NO, next_sleeping, wake_at)
    BY <1>1 DEF LinkInv
  <2>2. \A t \in Sleepers \ {} : wake_at[t] # 0
    BY <2>1 DEF AheadOn
  <2> QED BY <2>2, SleepersAre DEF CalmInv, TypeInv, TypeOK
<1>4. sleepqueue = NO => Sleepers = {}
  <2>1. NO \notin Sleepers
    BY SleepersAre, Indices
  <2> QED BY <2>1 DEF LinkInv, LinkedOn
<1>5. CASE sleepqueue # NO
  <2> DEFINE wakes == {wake_at[t] : t \in SleepChain}
  <2>1. timer' = IF \E w \in wakes : w <= 0 THEN TIMER_WRAP ELSE Min(wakes)
    BY <1>1, <1>5 DEF ResetSchedulerTimer
  <2>2. SleepChain \subseteq Sleepers
    <3>1. /\ Sleepers \in SUBSET Threads /\ sleepqueue \in Sleepers
          /\ \A t \in Sleepers : next_sleeping[t] \in Sleepers \cup {NO}
      BY <1>5, SleepersAre DEF CalmInv, RunInv, SleepqueueOK, ListOn
    <3> QED BY <3>1 DEF SleepChain
  <2>3. wakes \in SUBSET Nat /\ \A w \in wakes : w > 0
    BY <1>3, <2>2
  <2> QED BY <1>2, <1>3, <2>1, <2>3, MinExists
<1> QED BY <1>4, <1>5

LEMMA TimerStep ==
  ASSUME CalmInv, CalmInv', LinkInv, IdleTimerInTime, [CalmNext]_vars
  PROVE  IdleTimerInTime'
<1> SUFFICES ASSUME kpc' = "user", running' = NO, runqueue' = NO, ~ timer_pending',
                    NEW t \in Sleepers'
             PROVE  timer' <= wake_at'[t]
  BY DEF IdleTimerInTime
<1>1. /\ Sleepers = {x \in Threads : wake_at[x] # NEVER_SET}
      /\ Sleepers' = {x \in Threads : wake_at'[x] # NEVER_SET}
  BY SleepersAre
<1>2. CASE Quiet
  <2>1. kpc = "user" /\ UNCHANGED <<running, runqueue, timer, timer_pending, wake_at>>
    BY <1>2 DEF Quiet
  <2> QED BY <1>1, <2>1 DEF IdleTimerInTime
<1>3. CASE Tick
  <2>1. /\ kpc = "user" /\ running = NO /\ runqueue = NO /\ ~ timer_pending
        /\ timer' = timer - 1 /\ timer # 1
    BY <1>3, TickMoves
  <2>2. /\ t \in Sleepers /\ wake_at[t] \in Nat
        /\ wake_at'[t] = IF wake_at[t] > 0 THEN wake_at[t] - 1 ELSE wake_at[t]
    BY <1>1, <1>3, TickMoves
  <2>3. timer \in Nat /\ timer > 0 /\ timer <= wake_at[t]
    BY <2>1, <2>2 DEF CalmInv, TypeInv, TypeOK, IdleTimerInTime
  <2> QED BY <2>1, <2>2, <2>3
<1>4. CASE Dispatch
  <2>1. UNCHANGED wake_at
    BY <1>4 DEF Dispatch
  <2> QED BY <1>1, <1>4, <2>1, SoonestArmed
<1>5. CASE (\E n \in 1 .. MaxSleep : Sleep(n)) \/ WakeTcb \/ SkipTcb
  BY <1>5 DEF Sleep, EnterScheduler, WakeTcb, SkipTcb
<1> QED BY <1>2, <1>3, <1>4, <1>5, Moves

(* While the processor is idle the scheduler timer never fires after the   *)
(* first wake time (thread.c:309-311), as long as no more than three       *)
(* threads sleep at a time: no due thread is passed over, and the timer is *)
(* set to the soonest of all sleepers.                                     *)
THEOREM IdleTimerArmed == CalmSpec /\ []FewSleepers => []IdleTimerInTime
<1>1. Init => IdleTimerInTime
  BY Indices DEF Init, IdleTimerInTime
<1>2. CalmInv /\ LinkInv /\ FewSleepers /\ [CalmNext]_vars => CalmInv' /\ LinkInv'
  BY CalmStep, LinkStep
<1>3. CalmInv /\ CalmInv' /\ LinkInv /\ IdleTimerInTime /\ [CalmNext]_vars
        => IdleTimerInTime'
  BY TimerStep
<1> QED BY <1>1, <1>2, <1>3, CalmInit, LinkInit, PTL DEF CalmSpec

-----------------------------------------------------------------------------
(* If no thread ever sleeps there is nobody to wake into a gap.            *)

NobodySleeps == \A t \in Threads : wake_at[t] = NEVER_SET

LEMMA AwakeStep ==
  ASSUME "sleep" \notin Calls, CalmInv, NobodySleeps, [Next]_vars
  PROVE  NobodySleeps'
<1>1. ~ \E n \in 1 .. MaxSleep : Sleep(n)
  BY DEF Sleep, InSyscall
<1>2. CASE Exit \/ Fault \/ CreateProcess \/ CreateThread
  BY <1>2 DEF Exit, Fault, TerminateCurrent, CreateProcess, CreateThread,
     StartThread, tcbVars, NobodySleeps
<1>3. CASE \/ ReadBuffered \/ ReadAstray \/ ReadWait \/ TimerIrq \/ SkipTcb \/ Dispatch
           \/ UNCHANGED vars
  BY <1>3 DEF ReadBuffered, ReadAstray, ReadWait, TimerIrq, SkipTcb, Dispatch, vars, tcbVars,
     NobodySleeps
<1>4. CASE \E c \in Chars : UartStore(c) \/ UartDeliver(c) \/ DeliverAstray(c)
                             \/ UartFatal(c)
  BY <1>4 DEF UartStore, UartDeliver, DeliverAstray, UartFatal, tcbVars, NobodySleeps
<1>5. CASE Tick
  BY <1>5 DEF Tick, NobodySleeps, NEVER_SET
<1>6. CASE WakeTcb
  BY <1>6, Cursor DEF WakeTcb, CalmInv, RunInv, WaitersOK, NobodySleeps
<1> QED BY <1>1, <1>2, <1>3, <1>4, <1>5, <1>6 DEF Next, KernelStep

(* A system whose threads never sleep is calm in every execution, whatever *)
(* they create, read or end: all that is proved of CalmSpec holds for it.  *)
THEOREM SleeplessCalm ==
  ASSUME "sleep" \notin Calls
  PROVE  Spec => CalmSpec
<1> DEFINE Inv == CalmInv /\ NobodySleeps
<1>1. Init => Inv
  BY CalmInit DEF Init, NobodySleeps
<1>2. Inv /\ [Next]_vars => Inv' /\ [CalmNext]_vars
  <2> SUFFICES ASSUME Inv, [Next]_vars PROVE Inv' /\ [CalmNext]_vars
    OBVIOUS
  <2>1. NobodySleeps'
    BY AwakeStep
  <2>2. ~GapWake'
    <3>1. Waiting' \in SUBSET Threads
      BY DEF Waiting
    <3> QED BY <2>1, <3>1 DEF NobodySleeps, GapWake, NEVER_SET
  <2>3. [CalmNext]_vars
    BY <2>2 DEF CalmNext
  <2> QED BY <2>1, <2>3, CalmStep
<1> HIDE DEF Inv
<1> QED BY <1>1, <1>2, PTL DEF Spec, CalmSpec

(* Such a system keeps its runqueue intact, although a delivery leaves     *)
(* runqueue at the interrupted thread.                                     *)
THEOREM RunqueueWithoutSleep ==
  ASSUME "sleep" \notin Calls
  PROVE  Spec => [](RunqueueOK /\ WaitersOK)
<1>1. Spec => CalmSpec
  BY SleeplessCalm
<1> QED BY <1>1, RunqueueCorrect, WaitersCorrect, PTL

-----------------------------------------------------------------------------
(* Counting.                                                               *)

(* A set whose every element is the value of g at some element of B is no  *)
(* larger than B.                                                          *)
LEMMA Covered ==
  ASSUME NEW A, NEW B, NEW g, IsFiniteSet(B), \A a \in A : \E b \in B : g[b] = a
  PROVE  IsFiniteSet(A) /\ Cardinality(A) <= Cardinality(B)
<1> DEFINE f == [a \in A |-> CHOOSE b \in B : g[b] = a]
<1>1. \A a \in A : f[a] \in B /\ g[f[a]] = a
  OBVIOUS
<1>2. f \in [A -> B]
  BY <1>1
<1>3. \A a, b \in A : f[a] = f[b] => a = b
  BY <1>1
<1> HIDE DEF f
<1>4. f \in Injection(A, B)
  BY <1>2, <1>3 DEF Injection, IsInjective
<1> QED BY <1>4, FS_Injection

(* There are as many threads as tables, and no more threads than slots.    *)
LEMMA Sizes ==
  /\ IsFiniteSet(Threads) /\ Cardinality(Threads) = MAX_THREADS
  /\ IsFiniteSet(Tables) /\ Cardinality(Tables) = MAX_THREADS
  /\ IsFiniteSet(Stacks) /\ Cardinality(Stacks) = NumStacks
  /\ MAX_THREADS \in Nat /\ MAX_THREADS > 0
  /\ NumStacks \in Nat /\ MAX_THREADS <= NumStacks
  /\ RefLimit \in Nat /\ MAX_THREADS < RefLimit
<1>1. /\ MAX_THREADS \in Nat /\ MAX_THREADS > 0
      /\ NumStacks \in Nat /\ MAX_THREADS <= NumStacks
      /\ RefLimit \in Nat /\ MAX_THREADS < RefLimit
  BY ThreadsAssumption
<1>2. \A n \in Nat : n > 0 => IsFiniteSet(0 .. n - 1) /\ Cardinality(0 .. n - 1) = n
  <2> TAKE n \in Nat
  <2>1. n - 1 \in Int
    OBVIOUS
  <2>2. /\ IsFiniteSet(0 .. n - 1)
        /\ Cardinality(0 .. n - 1) = IF 0 > n - 1 THEN 0 ELSE (n - 1) - 0 + 1
    BY <2>1, FS_Interval
  <2> QED BY <2>2
<1> QED BY <1>1, <1>2 DEF Threads, Tables, Stacks

Users(i) == {t \in Live : L2_table_i[t] = i}

LEMMA UsersFinite ==
  ASSUME NEW S \in SUBSET Threads
  PROVE  /\ IsFiniteSet(S) /\ Cardinality(S) \in Nat
         /\ Cardinality(S) <= MAX_THREADS
         /\ S # Threads => Cardinality(S) < MAX_THREADS
<1>1. IsFiniteSet(S) /\ Cardinality(S) <= Cardinality(Threads)
      /\ (Cardinality(Threads) = Cardinality(S) => Threads = S)
  BY Sizes, FS_Subset
<1>2. Cardinality(S) \in Nat
  BY <1>1, FS_CardinalityType
<1> QED BY <1>1, <1>2, Sizes

-----------------------------------------------------------------------------
(* While a thread control block is free there is a free table, and a free  *)
(* stack slot in every table.                                              *)
LEMMA NothingRunsOut ==
  ASSUME TypeOK, MemoryOK, ~Stopped, FreeTcbs # {}
  PROVE  /\ FreeTables # {}
         /\ \A i \in Tables : Stacks \ L2_Tables[i] # {}
<1>1. Live \in SUBSET Threads /\ Live # Threads
  BY DEF Live, FreeTcbs
<1>2. IsFiniteSet(Live) /\ Cardinality(Live) \in Nat /\ Cardinality(Live) < MAX_THREADS
  BY <1>1, UsersFinite
<1>3. FreeTables # {}
  <2> SUFFICES ASSUME FreeTables = {} PROVE FALSE
    OBVIOUS
  <2>1. ASSUME NEW i \in Tables PROVE \E t \in Live : L2_table_i[t] = i
    <3>1. L2_Table_references[i] # 0
      BY DEF FreeTables
    <3>2. L2_Table_references[i] = Cardinality(Users(i))
      BY DEF MemoryOK, Users
    <3>3. Users(i) # {}
      BY <3>1, <3>2, FS_EmptySet
    <3> QED BY <3>3 DEF Users
  <2>2. Cardinality(Tables) <= Cardinality(Live)
    BY <1>2, <2>1, Covered
  <2> QED BY <1>2, <2>2, Sizes
<1>4. ASSUME NEW i \in Tables, Stacks \ L2_Tables[i] = {} PROVE FALSE
  <2>1. L2_Tables[i] = {stack_i[t] : t \in Users(i)}
    BY DEF MemoryOK, Users
  <2>2. \A s \in Stacks : \E t \in Live : stack_i[t] = s
    BY <1>4, <2>1 DEF Users
  <2>3. Cardinality(Stacks) <= Cardinality(Live)
    BY <1>2, <2>2, Covered
  <2> QED BY <1>2, <2>3, Sizes
<1> QED BY <1>3, <1>4

-----------------------------------------------------------------------------
(* The bookkeeping is an invariant, and no handler meets the index -1.     *)

MemInv == MemoryOK /\ kpc # "undefined"

LEMMA UsersBook ==
  ASSUME MemoryOK, ~Stopped, NEW i \in Tables
  PROVE  /\ L2_Table_references[i] = Cardinality(Users(i))
         /\ L2_Tables[i] = {stack_i[t] : t \in Users(i)}
         /\ Users(i) \in SUBSET Threads
BY DEF MemoryOK, Users, Live

(* Nothing that MemoryOK speaks of changes.                                *)
LEMMA MemoryKept ==
  ASSUME MemInv, UNCHANGED <<L2_table_i, stack_i, L2_Table_references, L2_Tables>>,
         Live' = Live, kpc' # "undefined", Stopped => Stopped'
  PROVE  MemInv'
BY DEF MemInv, MemoryOK

LEMMA InitMem == Init => MemInv
<1> SUFFICES ASSUME Init PROVE MemInv
  OBVIOUS
<1>1. /\ state = [t \in Threads |-> IF t = 0 THEN "READY" ELSE "TERMINATED"]
      /\ stack_i = [t \in Threads |-> IF t = 0 THEN NumStacks - 1 ELSE 0]
      /\ L2_table_i = [t \in Threads |-> 0]
      /\ L2_Table_references = [i \in Tables |-> IF i = 0 THEN 1 ELSE 0]
      /\ L2_Tables = [i \in Tables |-> IF i = 0 THEN {NumStacks - 1} ELSE {}]
      /\ kpc = "user"
  BY DEF Init
<1>2. Live = {0} /\ stack_i[0] = NumStacks - 1 /\ L2_table_i[0] = 0
  BY <1>1, Indices DEF Live
<1>3. ASSUME NEW i \in Tables
      PROVE  {t \in Live : L2_table_i[t] = i} = IF i = 0 THEN {0} ELSE {}
  BY <1>2
<1>4. Cardinality({0}) = 1 /\ Cardinality({}) = 0
  BY FS_Singleton, FS_EmptySet
<1>5. ASSUME NEW i \in Tables
      PROVE  LET users == {t \in Live : L2_table_i[t] = i}
             IN  /\ L2_Table_references[i] = Cardinality(users)
                 /\ L2_Tables[i] = {stack_i[t] : t \in users}
  <2>1. CASE i = 0
    BY <1>1, <1>2, <1>3, <1>4, <2>1
  <2>2. CASE i # 0
    BY <1>1, <1>3, <1>4, <2>2
  <2> QED BY <2>1, <2>2
<1>6. \A t \in Live : L2_table_i[t] \in Tables /\ stack_i[t] \in Stacks
  BY <1>2, Indices
<1>7. \A t, u \in Live : t = u
  BY <1>2
<1>8. \A t \in Live : stack_i[t] \in L2_Tables[L2_table_i[t]]
  BY <1>1, <1>2, Indices
<1> QED BY <1>1, <1>5, <1>6, <1>7, <1>8 DEF MemInv, MemoryOK

(* A thread ends: its table loses one user and exactly its stack.          *)
LEMMA TerminateMem ==
  ASSUME CalmInv, MemInv, NEW call, InSyscall(call), TerminateCurrent
  PROVE  MemInv'
<1>1. TypeOK /\ MemoryOK /\ kpc = "user" /\ ~Stopped
  BY DEF CalmInv, TypeInv, MemInv, InSyscall, Stopped
<1> PICK c \in Live : c = runqueue /\ c \in Threads
  BY CallerRuns DEF Live, Runnable
<1> PICK k \in Tables : k = L2_table_i[c] /\ k # NO
  BY <1>1, Indices DEF MemoryOK
<1>2. stack_i[c] # NO
  BY <1>1, Indices DEF MemoryOK, Stacks
<1>3. /\ state' = [state EXCEPT ![c] = "TERMINATED"]
      /\ L2_Table_references' = [L2_Table_references EXCEPT ![k] = (@ - 1) % RefLimit]
      /\ L2_Tables' = [L2_Tables EXCEPT ![k] = @ \ {stack_i[c]}]
      /\ UNCHANGED <<stack_i, L2_table_i>> /\ kpc' = "wake"
  BY <1>2 DEF TerminateCurrent, ReleaseTable, UnmapStack, EnterScheduler
<1>4. Live' = Live \ {c}
  BY <1>1, <1>3 DEF Live, TypeOK
<1>5. \A i \in Tables : Users(i)' = Users(i) \ (IF i = k THEN {c} ELSE {})
  BY <1>1, <1>3, <1>4 DEF Users
<1>6. ASSUME NEW i \in Tables
      PROVE  /\ L2_Table_references'[i] = Cardinality(Users(i)')
             /\ L2_Tables'[i] = {stack_i'[t] : t \in Users(i)'}
  <2>1. CASE i # k
    <3>1. Users(i)' = Users(i)
      BY <1>5, <2>1
    <3>2. L2_Table_references'[i] = L2_Table_references[i] /\ L2_Tables'[i] = L2_Tables[i]
      BY <1>1, <1>3, <2>1 DEF TypeOK
    <3>3. /\ L2_Table_references[i] = Cardinality(Users(i))
          /\ L2_Tables[i] = {stack_i[t] : t \in Users(i)}
      BY <1>1, UsersBook
    <3> QED BY <1>3, <3>1, <3>2, <3>3
  <2>2. CASE i = k
    <3>1. c \in Users(k) /\ Users(k)' = Users(k) \ {c}
      <4>1. c \in Users(k)
        BY DEF Users
      <4> QED BY <1>5, <4>1
    <3>2. IsFiniteSet(Users(k)) /\ Cardinality(Users(k)) \in Nat
          /\ Cardinality(Users(k)) <= MAX_THREADS
      BY <1>1, UsersBook, UsersFinite
    <3>3. Cardinality(Users(k)') = Cardinality(Users(k)) - 1
      <4>1. Cardinality(Users(k) \ {c}) = Cardinality(Users(k)) - 1
        BY <3>1, <3>2, FS_RemoveElement
      <4> QED BY <3>1, <4>1
    <3>4. Cardinality(Users(k)) # 0
      BY <3>1, <3>2, FS_EmptySet
    <3>5. L2_Table_references'[k] = (Cardinality(Users(k)) - 1) % RefLimit
      BY <1>1, <1>3, UsersBook DEF TypeOK
    <3>6. \A n \in Nat : n > 0 /\ n <= MAX_THREADS => (n - 1) % RefLimit = n - 1
      BY Sizes
    <3>7. L2_Table_references'[k] = Cardinality(Users(k)')
      BY <3>2, <3>3, <3>4, <3>5, <3>6
    <3>8. \A t \in Users(k) : t # c => stack_i[t] # stack_i[c]
      BY <1>1 DEF MemoryOK, Users
    <3>9. L2_Tables'[k] = {stack_i[t] : t \in Users(k)} \ {stack_i[c]}
      BY <1>1, <1>3, UsersBook DEF TypeOK
    <3>10. L2_Tables'[k] = {stack_i'[t] : t \in Users(k)'}
      BY <1>3, <3>1, <3>8, <3>9
    <3> QED BY <2>2, <3>7, <3>10
  <2> QED BY <2>1, <2>2
<1>7. ASSUME NEW i \in Tables
      PROVE  LET users == {t \in Live' : L2_table_i'[t] = i}
             IN  /\ L2_Table_references'[i] = Cardinality(users)
                 /\ L2_Tables'[i] = {stack_i'[t] : t \in users}
  BY <1>6 DEF Users
<1>8. /\ \A t \in Live' : L2_table_i'[t] \in Tables /\ stack_i'[t] \in Stacks
      /\ \A t, u \in Live' :
           t # u /\ L2_table_i'[t] = L2_table_i'[u] => stack_i'[t] # stack_i'[u]
  BY <1>1, <1>3, <1>4 DEF MemoryOK
<1>9. \A t \in Live' : stack_i'[t] \in L2_Tables'[L2_table_i'[t]]
  <2> SUFFICES ASSUME NEW t \in Live' PROVE stack_i'[t] \in L2_Tables'[L2_table_i'[t]]
    OBVIOUS
  <2>1. PICK j \in Tables : j = L2_table_i'[t] /\ t \in Users(j)'
    BY <1>8 DEF Users
  <2> QED BY <1>6, <2>1
<1>10. MemoryOK'
  BY <1>7, <1>8, <1>9 DEF MemoryOK
<1> QED BY <1>3, <1>10 DEF MemInv

(* A thread starts: its table gains one user and a slot nobody had.        *)
LEMMA StartMem ==
  ASSUME CalmInv, MemInv, ~Stopped, NEW t \in FreeTcbs, NEW i \in Tables,
         StartThread(t, i, (L2_Table_references[i] + 1) % RefLimit, L2_Tables[i])
  PROVE  MemInv'
<1>1. /\ t \in Threads /\ t \notin Live /\ TypeOK /\ MemoryOK
      /\ Live \in SUBSET Threads /\ Live # Threads
  BY DEF CalmInv, TypeInv, MemInv, Live, FreeTcbs
<1> DEFINE free == Stacks \ L2_Tables[i]
           slot == Max(free)
<1>2. free # {} /\ slot \in Stacks /\ slot \notin L2_Tables[i] /\ slot # NO
  <2>1. free # {}
    BY <1>1, NothingRunsOut
  <2> QED BY <2>1, StackSets, Indices
<1>3. /\ L2_table_i' = [L2_table_i EXCEPT ![t] = i]
      /\ L2_Table_references' =
           [L2_Table_references EXCEPT ![i] = (L2_Table_references[i] + 1) % RefLimit]
      /\ stack_i' = [stack_i EXCEPT ![t] = slot]
      /\ L2_Tables' = [L2_Tables EXCEPT ![i] = L2_Tables[i] \cup {slot}]
      /\ \/ state' = [state EXCEPT ![t] = "READY"] /\ kpc' = "wake"
         \/ UNCHANGED state /\ kpc' \in {"halted", "overwritten"}
  BY <1>2 DEF StartThread, GoesAstray, EnterScheduler
<1> HIDE DEF slot
<1>4. CASE UNCHANGED state /\ kpc' \in {"halted", "overwritten"}
  <2>1. Live' = Live /\ Stopped'
    BY <1>4 DEF Live, Stopped
  <2>2. \A u \in Live : L2_table_i'[u] = L2_table_i[u] /\ stack_i'[u] = stack_i[u]
    BY <1>1, <1>3 DEF TypeOK
  <2>3. \A j \in Tables : L2_Tables[j] \subseteq L2_Tables'[j]
    BY <1>1, <1>3 DEF TypeOK
  <2>4. /\ \A u \in Live' : /\ L2_table_i'[u] \in Tables /\ stack_i'[u] \in Stacks
                            /\ stack_i'[u] \in L2_Tables'[L2_table_i'[u]]
        /\ \A u, v \in Live' :
             u # v /\ L2_table_i'[u] = L2_table_i'[v] => stack_i'[u] # stack_i'[v]
    BY <1>1, <2>1, <2>2, <2>3 DEF MemoryOK
  <2> QED BY <1>4, <2>1, <2>4 DEF MemInv, MemoryOK
<1> SUFFICES ASSUME state' = [state EXCEPT ![t] = "READY"] /\ kpc' = "wake"
             PROVE  MemInv'
  BY <1>3, <1>4
<1>5. Live' = Live \cup {t}
  BY <1>1, <1>3 DEF Live, TypeOK
<1>6. /\ L2_table_i'[t] = i /\ stack_i'[t] = slot
      /\ \A u \in Live : L2_table_i'[u] = L2_table_i[u] /\ stack_i'[u] = stack_i[u]
  BY <1>1, <1>3 DEF TypeOK
<1>7. \A j \in Tables : Users(j)' = Users(j) \cup (IF j = i THEN {t} ELSE {})
  BY <1>1, <1>5, <1>6 DEF Users
<1>8. ASSUME NEW j \in Tables
      PROVE  /\ L2_Table_references'[j] = Cardinality(Users(j)')
             /\ L2_Tables'[j] = {stack_i'[u] : u \in Users(j)'}
  <2>1. \A u \in Users(j) : stack_i'[u] = stack_i[u]
    BY <1>6 DEF Users
  <2>2. CASE j # i
    <3>1. Users(j)' = Users(j)
      BY <1>7, <2>2
    <3>2. L2_Table_references'[j] = L2_Table_references[j] /\ L2_Tables'[j] = L2_Tables[j]
      BY <1>1, <1>3, <2>2 DEF TypeOK
    <3>3. /\ L2_Table_references[j] = Cardinality(Users(j))
          /\ L2_Tables[j] = {stack_i[u] : u \in Users(j)}
      BY <1>1, UsersBook
    <3> QED BY <2>1, <3>1, <3>2, <3>3
  <2>3. CASE j = i
    <3>1. t \notin Users(i) /\ Users(i)' = Users(i) \cup {t}
      BY <1>1, <1>7 DEF Users
    <3>2. IsFiniteSet(Users(i)) /\ Cardinality(Users(i)) \in Nat
          /\ Cardinality(Users(i)) < MAX_THREADS
      <4>1. Users(i) \in SUBSET Threads /\ Users(i) # Threads
        BY <1>1, <3>1, UsersBook
      <4> QED BY <4>1, UsersFinite
    <3>3. Cardinality(Users(i)') = Cardinality(Users(i)) + 1
      BY <3>1, <3>2, FS_AddElement
    <3>4. L2_Table_references'[i] = (Cardinality(Users(i)) + 1) % RefLimit
      BY <1>1, <1>3, UsersBook DEF TypeOK
    <3>5. \A n \in Nat : n < MAX_THREADS => (n + 1) % RefLimit = n + 1
      BY Sizes
    <3>6. L2_Table_references'[i] = Cardinality(Users(i)')
      BY <3>2, <3>3, <3>4, <3>5
    <3>7. L2_Tables'[i] = {stack_i[u] : u \in Users(i)} \cup {slot}
      BY <1>1, <1>3, UsersBook DEF TypeOK
    <3>8. L2_Tables'[i] = {stack_i'[u] : u \in Users(i)'}
      BY <1>6, <2>1, <2>3, <3>1, <3>7
    <3> QED BY <2>3, <3>6, <3>8
  <2> QED BY <2>2, <2>3
<1>9. ASSUME NEW u \in Live, L2_table_i[u] = i PROVE stack_i[u] # slot
  <2>1. u \in Users(i)
    BY <1>9 DEF Users
  <2> QED BY <1>1, <1>2, <2>1, UsersBook
<1>10. \A u \in Live' : L2_table_i'[u] \in Tables /\ stack_i'[u] \in Stacks
  BY <1>1, <1>2, <1>5, <1>6 DEF MemoryOK
<1>11. \A u, v \in Live' :
         u # v /\ L2_table_i'[u] = L2_table_i'[v] => stack_i'[u] # stack_i'[v]
  BY <1>1, <1>5, <1>6, <1>9 DEF MemoryOK
<1>12. \A u \in Live' : stack_i'[u] \in L2_Tables'[L2_table_i'[u]]
  <2> SUFFICES ASSUME NEW u \in Live' PROVE stack_i'[u] \in L2_Tables'[L2_table_i'[u]]
    OBVIOUS
  <2>1. PICK j \in Tables : j = L2_table_i'[u] /\ u \in Users(j)'
    BY <1>10 DEF Users
  <2> QED BY <1>8, <2>1
<1>13. MemoryOK'
  BY <1>8, <1>10, <1>11, <1>12 DEF MemoryOK, Users
<1> QED BY <1>3, <1>13 DEF MemInv

LEMMA CreateMem ==
  ASSUME CalmInv, MemInv, CreateProcess \/ CreateThread
  PROVE  MemInv'
<1>1. TypeOK /\ MemoryOK /\ ~Stopped /\ FreeTcbs # {} /\ Min(FreeTcbs) \in FreeTcbs
  <2>1. FreeTcbs # {} /\ FreeTcbs \in SUBSET Threads
    BY DEF CreateProcess, CreateThread, FreeTcbs
  <2>2. ~Stopped
    BY DEF CreateProcess, CreateThread, InSyscall, Stopped
  <2> QED BY <2>1, <2>2, ThreadSets DEF CalmInv, TypeInv, MemInv
<1>2. CASE CreateProcess
  <2> DEFINE i == Min(FreeTables)
  <2>1. FreeTables # {} /\ FreeTables \in SUBSET Threads
    BY <1>1, NothingRunsOut, Indices DEF FreeTables
  <2>2. i \in Tables /\ L2_Table_references[i] = 0
    <3>1. i \in FreeTables
      BY <2>1, ThreadSets
    <3> QED BY <3>1 DEF FreeTables
  <2>3. StartThread(Min(FreeTcbs), i, 1, {})
    BY <1>2, <2>1 DEF CreateProcess
  <2> HIDE DEF i
  <2>4. Users(i) = {}
    <3>1. IsFiniteSet(Users(i)) /\ Cardinality(Users(i)) = 0
      BY <1>1, <2>2, UsersBook, UsersFinite
    <3> QED BY <3>1, FS_EmptySet
  <2>5. L2_Tables[i] = {}
    BY <1>1, <2>2, <2>4, UsersBook
  <2>6. (L2_Table_references[i] + 1) % RefLimit = 1
    BY <2>2, Sizes
  <2> QED BY <1>1, <2>2, <2>3, <2>5, <2>6, StartMem
<1>3. CASE CreateThread
  <2> DEFINE i == L2_table_i[runqueue]
  <2>1. runqueue \in Live
    BY <1>3, CallerRuns DEF CreateThread, Live, Runnable
  <2>2. i \in Tables /\ i # NO
    BY <1>1, <2>1, Indices DEF MemoryOK
  <2>3. StartThread(Min(FreeTcbs), i, (L2_Table_references[i] + 1) % RefLimit,
                    L2_Tables[i])
    BY <1>3, <2>2 DEF CreateThread
  <2> QED BY <1>1, <2>2, <2>3, StartMem
<1> QED BY <1>2, <1>3

(* All other steps leave the live threads and their memory alone.          *)
LEMMA OtherMem ==
  ASSUME CalmInv, MemInv,
         \/ \E n \in 1 .. MaxSleep : Sleep(n)
         \/ ReadBuffered \/ ReadAstray \/ ReadWait
         \/ \E c \in Chars : UartStore(c) \/ UartDeliver(c) \/ DeliverAstray(c)
                            \/ UartFatal(c)
         \/ TimerIrq \/ Tick \/ KernelStep
  PROVE  MemInv'
<1>1. TypeOK /\ ~Stopped
  <2>1. kpc \in {"user", "wake"}
    BY DEF Sleep, ReadBuffered, ReadAstray, ReadWait, InSyscall, UartStore,
       UartDeliver, DeliverAstray, UartFatal, TimerIrq, Tick, KernelStep,
       WakeTcb, SkipTcb, Dispatch, DispatchIdle, DispatchNext, DispatchSame,
       AfterWake, SwitchWanted
  <2> QED BY <2>1 DEF CalmInv, TypeInv, Stopped
<1>2. CASE \E n \in 1 .. MaxSleep : Sleep(n)
  <2>1. runqueue \in Runnable /\ state' = [state EXCEPT ![runqueue] = "WAITING"]
    BY <1>2, CallerRuns DEF Sleep
  <2>2. Live' = Live
    BY <1>1, <2>1 DEF Live, Runnable, TypeOK
  <2> QED BY <1>1, <1>2, <2>2, MemoryKept DEF Sleep, memVars, EnterScheduler
<1>3. CASE ReadBuffered
  BY <1>1, <1>3, MemoryKept DEF ReadBuffered, tcbVars, memVars, Live, InSyscall
<1>4. CASE ReadWait
  <2>1. runqueue \in Runnable /\ state' = [state EXCEPT ![runqueue] = "WAITING"]
    BY <1>4, CallerRuns DEF ReadWait
  <2>2. Live' = Live
    BY <1>1, <2>1 DEF Live, Runnable, TypeOK
  <2> QED BY <1>1, <1>4, <2>2, MemoryKept DEF ReadWait, memVars, EnterScheduler
<1>5. CASE \E c \in Chars : UartStore(c) \/ UartFatal(c)
  BY <1>1, <1>5, MemoryKept DEF UartStore, UartFatal, tcbVars, memVars, Live
<1>6. CASE \E c \in Chars : UartDeliver(c)
  <2>1. /\ char_thread \in Waiting /\ (runqueue # NO => runqueue \in Runnable)
        /\ state' = [t \in Threads |-> IF t = char_thread THEN "RUNNING"
                                       ELSE IF t = runqueue THEN "READY"
                                       ELSE state[t]]
    BY <1>6, UserRing DEF UartDeliver, CalmInv, RunInv, WaitersOK
  <2>2. Live' = Live
    BY <2>1, Indices DEF Live, Runnable, Waiting
  <2> QED BY <1>1, <1>6, <2>2, MemoryKept DEF UartDeliver, memVars
<1>7. CASE TimerIrq \/ Tick \/ SkipTcb
  BY <1>1, <1>7, MemoryKept DEF TimerIrq, Tick, SkipTcb, EnterScheduler, tcbVars,
     memVars, Live
<1>8. CASE WakeTcb
  <2>1. tcb \in Sleepers /\ state' = [state EXCEPT ![tcb] = "READY"]
    BY <1>8, Cursor DEF WakeTcb
  <2>2. Live' = Live
    BY <1>1, <2>1 DEF Live, Sleepers, Waiting, TypeOK
  <2> QED BY <1>1, <1>8, <2>2, MemoryKept DEF WakeTcb, memVars
<1>9. CASE Dispatch
  <2>1. Live' = Live
    <3>1. CASE DispatchNext
      <4>1. runqueue # NO /\ next[runqueue] \in Runnable
        BY <3>1 DEF DispatchNext, AfterWake, CalmInv, RunInv, RunqueueOK, RingOn
      <4> QED BY <3>1, <4>1 DEF DispatchNext, Live, Runnable
    <3>2. CASE DispatchIdle \/ DispatchSame
      BY <3>2 DEF DispatchIdle, DispatchSame, Live
    <3> QED BY <1>9, <3>1, <3>2 DEF Dispatch
  <2> QED BY <1>1, <1>9, <2>1, MemoryKept DEF Dispatch, memVars
<1>10. CASE ReadAstray \/ \E c \in Chars : DeliverAstray(c)
  BY <1>1, <1>10, AstrayKeeps, MemoryKept
<1> QED BY <1>2, <1>3, <1>4, <1>5, <1>6, <1>7, <1>8, <1>9, <1>10 DEF KernelStep

LEMMA MemStep == CalmInv /\ MemInv /\ [CalmNext]_vars => MemInv'
<1> SUFFICES ASSUME CalmInv, MemInv, [CalmNext]_vars PROVE MemInv'
  OBVIOUS
<1>1. CASE Exit \/ Fault
  BY <1>1, TerminateMem DEF Exit, Fault
<1>2. CASE CreateProcess \/ CreateThread
  BY <1>2, CreateMem
<1>3. CASE UNCHANGED vars
  BY <1>3, MemoryKept DEF MemInv, vars, tcbVars, memVars, Live, Stopped
<1> QED BY <1>1, <1>2, <1>3, OtherMem DEF CalmNext, Next

(* Without a wake-up into a gap the reference counts and the stack pages   *)
(* are those of the live threads, for every number of threads and slots.   *)
THEOREM MemoryCorrect == CalmSpec => []MemoryOK
<1>1. MemInv => MemoryOK
  BY DEF MemInv
<1> QED BY <1>1, InitMem, MemStep, CalmInit, CalmStep, PTL DEF CalmSpec

(* Without a wake-up into a gap no table and no stack slot runs out before *)
(* the thread control blocks do, so no handler uses an index of -1.        *)
THEOREM AllocationCorrect == CalmSpec => []AllocationOK
<1>1. CalmInv /\ MemInv => AllocationOK
  BY NothingRunsOut DEF CalmInv, TypeInv, MemInv, AllocationOK
<1> QED BY <1>1, InitMem, MemStep, CalmInit, CalmStep, PTL DEF CalmSpec

-----------------------------------------------------------------------------
(* Address spaces.  What the scheduler relies on when it lets the only     *)
(* runnable thread go on without a context switch: a thread that is marked *)
(* running while runqueue points to it has its registers and its table     *)
(* loaded.                                                                 *)

Loaded(t) == running = t /\ L1 = L2_table_i[t]

AddrInv ==
    /\ AddressSpaceOK
    /\ runqueue # NO /\ state[runqueue] = "RUNNING" => Loaded(runqueue)

LEMMA InitAddr == Init => AddrInv
BY Indices DEF Init, AddrInv, AddressSpaceOK

(* A step into the kernel that loads no context and marks nobody running.  *)
LEMMA AddrEnter ==
  ASSUME AddrInv, kpc' # "user", UNCHANGED <<running, L1>>,
         runqueue' # NO /\ state'[runqueue'] = "RUNNING" =>
           /\ runqueue' = runqueue /\ runqueue # NO
           /\ state[runqueue] = "RUNNING"
           /\ L2_table_i'[runqueue] = L2_table_i[runqueue]
  PROVE  AddrInv'
BY DEF AddrInv, AddressSpaceOK, Loaded

(* A step that neither changes who is runnable nor what is loaded.         *)
LEMMA AddrKept ==
  ASSUME AddrInv,
         UNCHANGED <<state, runqueue, running, L1, L2_table_i>>,
         kpc' = "user" => kpc = "user"
  PROVE  AddrInv'
BY DEF AddrInv, AddressSpaceOK, Loaded, Runnable

LEMMA LeaveAddr ==
  ASSUME CalmInv, MemInv, AddrInv,
         Exit \/ Fault \/ ReadWait \/ \E n \in 1 .. MaxSleep : Sleep(n)
  PROVE  AddrInv'
<1>1. runqueue \in Threads /\ runqueue # NO /\ runqueue \in Live
  BY CallerRuns DEF Exit, Fault, ReadWait, Sleep, Live, Runnable
<1>2. L2_table_i[runqueue] # NO /\ stack_i[runqueue] # NO
  BY <1>1, Indices DEF MemInv, MemoryOK, Stacks
<1>3. /\ RemoveFromRunqueue(runqueue) /\ UNCHANGED <<running, L1, L2_table_i>>
      /\ kpc' = "wake"
      /\ \E s \in {"WAITING", "TERMINATED"} :
            state' = [state EXCEPT ![runqueue] = s]
  BY <1>2 DEF Exit, Fault, TerminateCurrent, ReadWait, Sleep, EnterScheduler
<1>4. runqueue' = NO \/ runqueue' = runqueue
  BY <1>3 DEF RemoveFromRunqueue
<1>5. state'[runqueue] # "RUNNING"
  BY <1>1, <1>3 DEF CalmInv, TypeInv, TypeOK
<1> QED BY <1>3, <1>4, <1>5, AddrEnter

LEMMA CreateAddr ==
  ASSUME CalmInv, MemInv, AddrInv, CreateProcess \/ CreateThread
  PROVE  AddrInv'
<1>1. TypeOK /\ MemoryOK /\ ~Stopped /\ FreeTcbs # {} /\ Min(FreeTcbs) \in FreeTcbs
  <2>1. FreeTcbs # {} /\ FreeTcbs \in SUBSET Threads
    BY DEF CreateProcess, CreateThread, FreeTcbs
  <2>2. ~Stopped
    BY DEF CreateProcess, CreateThread, InSyscall, Stopped
  <2> QED BY <2>1, <2>2, ThreadSets DEF CalmInv, TypeInv, MemInv
<1>2. runqueue \in Runnable /\ runqueue \in Threads /\ runqueue # NO
  BY CallerRuns DEF CreateProcess, CreateThread
<1>3. PICK t \in FreeTcbs :
        \E i, refs, mapped : StartThread(t, i, refs, mapped)
  <2>1. FreeTables # {} /\ L2_table_i[runqueue] # NO
    BY <1>1, <1>2, NothingRunsOut, Indices DEF MemoryOK, Live, Runnable
  <2> QED BY <1>1, <2>1 DEF CreateProcess, CreateThread
<1>4. t \in Threads /\ t # runqueue
  BY <1>2 DEF FreeTcbs, Runnable
<1>5. /\ UNCHANGED <<running, L1>> /\ kpc' # "user"
      /\ \E i : L2_table_i' = [L2_table_i EXCEPT ![t] = i]
      /\ \/ UNCHANGED <<state, runqueue>>
         \/ state' = [state EXCEPT ![t] = "READY"] /\ AddToRunqueue(t)
  BY <1>3 DEF StartThread, GoesAstray, EnterScheduler, ringVars
<1>6. runqueue' = runqueue /\ state'[runqueue] = state[runqueue]
  BY <1>1, <1>2, <1>4, <1>5 DEF AddToRunqueue, TypeOK
<1>7. L2_table_i'[runqueue] = L2_table_i[runqueue]
  BY <1>1, <1>2, <1>4, <1>5 DEF TypeOK
<1> QED BY <1>2, <1>5, <1>6, <1>7, AddrEnter

LEMMA DeliverAddr ==
  ASSUME CalmInv, AddrInv, NEW c \in Chars, UartDeliver(c)
  PROVE  AddrInv'
<1>1. char_thread \in Threads /\ runqueue # char_thread
  <2>1. char_thread \in Waiting
    BY DEF UartDeliver, CalmInv, RunInv, WaitersOK
  <2> QED BY <2>1, UserRing, Kinds, Indices DEF UartDeliver
<1>2. /\ state' = [t \in Threads |-> IF t = char_thread THEN "RUNNING"
                                     ELSE IF t = runqueue THEN "READY"
                                     ELSE state[t]]
      /\ AddToRunqueue(char_thread)
      /\ running' = char_thread /\ L1' = L2_table_i'[char_thread]
  BY DEF UartDeliver, LoadContext
<1>3. runqueue \in Threads \cup {NO}
  BY DEF CalmInv, TypeInv, TypeOK
<1>4. AddressSpaceOK'
  BY <1>1, <1>2 DEF AddressSpaceOK, Runnable
<1>5. CASE runqueue = NO
  BY <1>2, <1>4, <1>5 DEF AddToRunqueue, AddrInv, Loaded
<1>6. CASE runqueue # NO
  <2>1. runqueue' = runqueue /\ state'[runqueue] = "READY"
    BY <1>1, <1>2, <1>3, <1>6 DEF AddToRunqueue
  <2> QED BY <1>4, <2>1 DEF AddrInv
<1> QED BY <1>5, <1>6

LEMMA WakeAddr ==
  ASSUME CalmInv, AddrInv, WakeTcb
  PROVE  AddrInv'
<1>1. tcb \in Threads /\ tcb \in Waiting
  BY Cursor DEF WakeTcb
<1>2. /\ state' = [state EXCEPT ![tcb] = "READY"] /\ AddToRunqueue(tcb)
      /\ UNCHANGED <<running, L1, L2_table_i>> /\ kpc' = "wake"
  BY DEF WakeTcb
<1>3. \A u \in Threads : state'[u] = IF u = tcb THEN "READY" ELSE state[u]
  BY <1>1, <1>2 DEF CalmInv, TypeInv, TypeOK
<1>4. runqueue \in Threads \cup {NO}
  BY DEF CalmInv, TypeInv, TypeOK
<1>5. runqueue' = (IF runqueue = NO THEN tcb ELSE runqueue)
  BY <1>2 DEF AddToRunqueue
<1>6. runqueue' # NO /\ state'[runqueue'] = "RUNNING" =>
        runqueue' = runqueue /\ runqueue # NO /\ state[runqueue] = "RUNNING"
  BY <1>1, <1>3, <1>4, <1>5
<1> QED BY <1>2, <1>6, AddrEnter

LEMMA DispatchAddr ==
  ASSUME CalmInv, AddrInv, Dispatch
  PROVE  AddrInv'
<1>1. runqueue \in Threads \cup {NO} /\ UNCHANGED L2_table_i
  BY DEF Dispatch, CalmInv, TypeInv, TypeOK
<1>2. CASE DispatchIdle
  BY <1>1, <1>2 DEF DispatchIdle, AfterWake, AddrInv, AddressSpaceOK
<1>3. CASE DispatchNext
  <2>1. next[runqueue] \in Threads
    BY <1>3 DEF DispatchNext, AfterWake, CalmInv, RunInv, RunqueueOK, RingOn, Runnable
  <2>2. /\ runqueue' = next[runqueue] /\ state'[next[runqueue]] = "RUNNING"
        /\ running' = next[runqueue] /\ L1' = L2_table_i'[next[runqueue]]
    BY <1>1, <1>3, <2>1 DEF DispatchNext, LoadContext
  <2> QED BY <2>1, <2>2 DEF AddrInv, AddressSpaceOK, Loaded, Runnable
<1>4. CASE DispatchSame
  <2>1. /\ runqueue # NO /\ next[runqueue] = runqueue /\ state[runqueue] # "READY"
        /\ UNCHANGED <<state, runqueue, running, L1>>
    BY <1>4 DEF DispatchSame, AfterWake, SwitchWanted
  <2>2. runqueue \in Runnable
    BY <2>1 DEF CalmInv, RunInv, RunqueueOK
  <2>3. state[runqueue] = "RUNNING"
    BY <2>1, <2>2 DEF Runnable
  <2> QED BY <1>1, <2>1, <2>2, <2>3 DEF AddrInv, AddressSpaceOK, Loaded, Runnable
<1> QED BY <1>2, <1>3, <1>4 DEF Dispatch

LEMMA AddrStep == CalmInv /\ MemInv /\ AddrInv /\ [CalmNext]_vars => AddrInv'
<1> SUFFICES ASSUME CalmInv, MemInv, AddrInv, [CalmNext]_vars PROVE AddrInv'
  OBVIOUS
<1>1. CASE Exit \/ Fault \/ ReadWait \/ \E n \in 1 .. MaxSleep : Sleep(n)
  BY <1>1, LeaveAddr
<1>2. CASE CreateProcess \/ CreateThread
  BY <1>2, CreateAddr
<1>3. CASE \/ ReadBuffered \/ \E c \in Chars : UartStore(c) \/ UartFatal(c)
           \/ TimerIrq \/ Tick \/ SkipTcb \/ UNCHANGED vars
  BY <1>3, AddrKept DEF ReadBuffered, UartStore, UartFatal, TimerIrq, Tick, SkipTcb,
     EnterScheduler, vars, tcbVars, ringVars
<1>4. CASE \E c \in Chars : UartDeliver(c)
  BY <1>4, DeliverAddr
<1>5. CASE WakeTcb \/ Dispatch
  BY <1>5, WakeAddr, DispatchAddr
<1>6. CASE ReadAstray \/ \E c \in Chars : DeliverAstray(c)
  BY <1>6, AstrayKeeps, AddrEnter
<1> QED BY <1>1, <1>2, <1>3, <1>4, <1>5, <1>6 DEF CalmNext, Next, KernelStep

(* Without a wake-up into a gap no thread ever runs in the address space   *)
(* of another process, also after a delivery that leaves runqueue behind.  *)
THEOREM AddressSpaceCorrect == CalmSpec => []AddressSpaceOK
<1>1. AddrInv => AddressSpaceOK
  BY DEF AddrInv
<1> QED BY <1>1, InitAddr, AddrStep, InitMem, MemStep, CalmInit, CalmStep,
           PTL DEF CalmSpec
-----------------------------------------------------------------------------
(* With two live threads there is nobody to wake into a gap: one of them   *)
(* keeps the ring, and it takes two more to leave it.                      *)

TwoLive == \E a, b \in Threads : Live \subseteq {a, b}

LEMMA GapNeedsThree ==
  ASSUME CalmInv, TwoLive, [Next]_vars
  PROVE  ~GapWake'
<1> SUFFICES ASSUME kpc' = "wake", runqueue' # NO, runqueue' \notin Runnable',
                    NEW t \in Waiting', wake_at'[t] = 0
             PROVE  FALSE
  BY DEF GapWake
<1> DEFINE c == runqueue
<1>1. /\ Runnable = {x \in Threads : state[x] \in {"READY", "RUNNING"}}
      /\ Waiting = {x \in Threads : state[x] = "WAITING"}
      /\ \A x \in Threads : state[x] # "TERMINATED" <=> x \in Live
  BY DEF Runnable, Waiting, Live
<1>2. ASSUME NEW call, InSyscall(call), RemoveFromRunqueue(c),
             NEW s \in {"WAITING", "TERMINATED"},
             state' = [state EXCEPT ![c] = s],
             t \in Waiting
      PROVE  FALSE
  <2>1. c \in Runnable /\ c \in Threads
    BY <1>2, CallerRuns
  <2>2. RunqueueOK' /\ Runnable' = Runnable \ {c}
    BY <1>2, Unlink
  <2>3. PICK r \in Runnable : r # c
    BY <2>2 DEF RunqueueOK
  <2>4. c # t /\ r # t /\ {c, r, t} \subseteq Live
    BY <1>1, <1>2, <2>1, <2>3
  <2> QED BY <2>3, <2>4 DEF TwoLive
<1>3. CASE Exit \/ Fault
  <2>1. PICK call \in {"exit", "fault"} : InSyscall(call) /\ TerminateCurrent
    BY <1>3 DEF Exit, Fault
  <2>2. kpc = "user"
    BY <2>1 DEF InSyscall
  <2>3. RemoveFromRunqueue(c) /\ state' = [state EXCEPT ![c] = "TERMINATED"]
    BY <2>1 DEF TerminateCurrent
  <2>4. t \in Waiting
    BY <2>1, <2>3, Unlink
  <2> QED BY <1>2, <2>1, <2>3, <2>4
<1>4. CASE CreateProcess \/ CreateThread
  <2>1. PICK call \in {"process", "thread"} : InSyscall(call)
    BY <1>4 DEF CreateProcess, CreateThread
  <2>2. c \in Runnable /\ c \in Threads /\ kpc = "user" /\ c # NO
    BY <2>1, CallerRuns
  <2>3. PICK u, i, refs, mapped : StartThread(u, i, refs, mapped)
    BY <1>4, <2>2 DEF CreateProcess, CreateThread
  <2>4. state' = [state EXCEPT ![u] = "READY"] /\ runqueue' = c
    BY <2>2, <2>3 DEF StartThread, GoesAstray, EnterScheduler, AddToRunqueue
  <2>5. state'[c] \in {"READY", "RUNNING"}
    BY <1>1, <2>2, <2>4 DEF CalmInv, TypeInv, TypeOK
  <2> QED BY <2>2, <2>4, <2>5 DEF Runnable
<1>5. ASSUME NEW n \in 1 .. MaxSleep, Sleep(n) PROVE FALSE
  <2>1. /\ InSyscall("sleep") /\ RemoveFromRunqueue(c)
        /\ state' = [state EXCEPT ![c] = "WAITING"]
        /\ wake_at' = [wake_at EXCEPT ![c] = n]
    BY <1>5 DEF Sleep
  <2>2. c \in Threads
    BY <2>1, CallerRuns
  <2>3. wake_at'[c] = n /\ n # 0
    BY <2>1, <2>2 DEF CalmInv, TypeInv, TypeOK
  <2>4. t \in Waiting
    BY <2>1, <2>3, Unlink
  <2> QED BY <1>2, <2>1, <2>4
<1>6. CASE ReadBuffered \/ ReadWait
  <2>1. InSyscall("read") /\ kpc = "user"
    BY <1>6 DEF ReadBuffered, ReadWait, InSyscall
  <2>2. /\ RemoveFromRunqueue(c) /\ state' = [state EXCEPT ![c] = "WAITING"]
        /\ UNCHANGED wake_at
    BY <1>6, <2>1 DEF ReadBuffered, ReadWait
  <2>3. c \in Threads /\ c \notin Waiting
    BY <2>1, CallerRuns
  <2>4. wake_at[c] # 0
    BY <2>3 DEF CalmInv, RunInv, WaitersOK, NEVER_SET
  <2>5. t \in Waiting
    BY <2>1, <2>2, <2>4, Unlink
  <2> QED BY <1>2, <2>1, <2>2, <2>5
<1>7. CASE \E ch \in Chars : UartStore(ch) \/ UartDeliver(ch) \/ UartFatal(ch)
  BY <1>7 DEF UartStore, UartDeliver, UartFatal
<1>8. CASE Tick \/ Dispatch
  BY <1>8 DEF Tick, Dispatch
<1>9. CASE TimerIrq
  <2>1. kpc = "user" /\ UNCHANGED <<state, runqueue>>
    BY <1>9 DEF TimerIrq, tcbVars, ringVars
  <2> QED BY <2>1, UserRing DEF Runnable
<1>10. CASE WakeTcb
  <2>1. /\ kpc = "wake" /\ wake_at[tcb] = 0 /\ tcb \in Waiting /\ tcb \in Threads
        /\ \A u \in Threads : state'[u] = IF u = tcb THEN "READY" ELSE state[u]
        /\ AddToRunqueue(tcb)
    BY <1>10, WakeMoves
  <2>2. c = NO \/ c \in Runnable
    BY <2>1 DEF CalmInv, GapWake
  <2>3. runqueue' = IF c = NO THEN tcb ELSE c
    BY <2>1 DEF AddToRunqueue
  <2> QED BY <2>1, <2>2, <2>3 DEF Runnable
<1>11. CASE SkipTcb \/ UNCHANGED vars
  <2>1. UNCHANGED <<state, runqueue, wake_at, kpc>>
    BY <1>11 DEF SkipTcb, vars, tcbVars, ringVars
  <2> QED BY <2>1 DEF CalmInv, GapWake, Runnable, Waiting
<1>12. CASE ReadAstray \/ \E ch \in Chars : DeliverAstray(ch)
  BY <1>12, AstrayKeeps
<1> QED BY <1>3, <1>4, <1>5, <1>6, <1>7, <1>8, <1>9, <1>10, <1>11, <1>12 DEF Next, KernelStep

(* Two live threads are calm: all that is proved of CalmSpec holds for     *)
(* every execution in which no more than two threads live at a time.       *)
THEOREM TwoThreadsCalm == Spec /\ []TwoLive => CalmSpec
<1>1. CalmInv /\ TwoLive /\ [Next]_vars => CalmInv' /\ [CalmNext]_vars
  <2>1. CalmInv /\ TwoLive /\ [Next]_vars => [CalmNext]_vars
    BY GapNeedsThree DEF CalmNext
  <2> QED BY <2>1, CalmStep
<1> QED BY <1>1, CalmInit, PTL DEF Spec, CalmSpec

(* While no more than two threads live at a time the queues and the books  *)
(* of the address spaces are right in every execution, with any system     *)
(* calls, sleeps, characters and faults: no thread is lost, and none runs  *)
(* in another one's address space (thread.c:80-130, 426-475).             *)
THEOREM TwoThreadsSafe ==
  Spec /\ []TwoLive => [](RunqueueOK /\ WaitersOK /\ SleepqueueOK /\ MemoryOK
                          /\ AllocationOK /\ AddressSpaceOK)
BY TwoThreadsCalm, RunqueueCorrect, WaitersCorrect, SleepqueueCorrect,
   MemoryCorrect, AllocationCorrect, AddressSpaceCorrect, PTL
=============================================================================
