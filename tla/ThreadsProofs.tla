---------------------------- MODULE ThreadsProofs ---------------------------
(***************************************************************************)
(* Proofs about the scheduler core, for every number of threads.           *)
(***************************************************************************)
EXTENDS ThreadsProps, FiniteSetTheorems, WellFoundedInduction, TLAPS

-----------------------------------------------------------------------------
(* Facts about numbers and the constants.                                  *)

(* A nonempty set of naturals has a least element, and Min is it.          *)
LEMMA MinExists ==
  ASSUME NEW S \in SUBSET Nat, S # {}
  PROVE  Min(S) \in S /\ \A x \in S : Min(S) <= x
<1>1. PICK m \in S : \A k \in S : ~(<<k, m>> \in OpToRel(<, Nat))
  BY WFMin, NatLessThanWellFounded
<1>2. \A k \in S : m <= k
  <2> SUFFICES ASSUME NEW k \in S, k < m PROVE FALSE
    OBVIOUS
  <2>1. <<k, m>> \in Nat \X Nat /\ <<k, m>>[1] < <<k, m>>[2]
    OBVIOUS
  <2>2. <<k, m>> \in OpToRel(<, Nat)
    BY ONLY <2>1 DEF OpToRel
  <2> QED BY <1>1, <2>2
<1> QED BY <1>2 DEF Min

(* A nonempty set of naturals with a bound has a greatest element.         *)
LEMMA MaxExists ==
  ASSUME NEW n \in Nat, NEW S \in SUBSET (0 .. n), S # {}
  PROVE  Max(S) \in S /\ \A x \in S : x <= Max(S)
<1> DEFINE T == {n - x : x \in S}
<1>1. T \in SUBSET Nat /\ T # {}
  <2>1. \A x \in S : x \in 0 .. n
    OBVIOUS
  <2>2. \A x \in S : n - x \in Nat
    BY <2>1
  <2> QED BY <2>2
<1>2. Min(T) \in T /\ \A x \in T : Min(T) <= x
  BY <1>1, MinExists
<1>3. PICK m \in S : n - m = Min(T)
  BY <1>2
<1>4. \A x \in S : x <= m
  <2> TAKE x \in S
  <2>1. n - m <= n - x
    BY <1>2, <1>3
  <2>2. m \in Int /\ x \in Int
    OBVIOUS
  <2> QED BY <2>1, <2>2
<1> QED BY <1>4 DEF Max

(* No thread, table or stack slot has the index -1.                        *)
LEMMA Indices ==
  /\ NO \notin Threads /\ NO \notin Tables /\ NO \notin Stacks
  /\ Tables = Threads /\ 0 \in Threads /\ NumStacks - 1 \in Stacks
  /\ Threads \in SUBSET Nat
BY ThreadsAssumption DEF NO, Threads, Tables, Stacks

(* The least and the greatest thread (or table) of a set.                  *)
LEMMA ThreadSets ==
  ASSUME NEW S \in SUBSET Threads, S # {}
  PROVE  /\ Min(S) \in S /\ Max(S) \in S
         /\ \A x \in S : Min(S) <= x /\ x <= Max(S)
<1>1. MAX_THREADS - 1 \in Nat /\ Threads = 0 .. (MAX_THREADS - 1)
  BY ThreadsAssumption DEF Threads
<1>2. S \in SUBSET Nat
  BY Indices
<1>3. Min(S) \in S /\ \A x \in S : Min(S) <= x
  BY <1>2, MinExists
<1>4. Max(S) \in S /\ \A x \in S : x <= Max(S)
  BY <1>1, MaxExists
<1> QED BY <1>3, <1>4

(* The highest stack slot of a set.                                        *)
LEMMA StackSets ==
  ASSUME NEW S \in SUBSET Stacks, S # {}
  PROVE  Max(S) \in S
<1>1. NumStacks - 1 \in Nat /\ Stacks = 0 .. (NumStacks - 1)
  BY ThreadsAssumption DEF Stacks
<1> QED BY <1>1, MaxExists

(* The reference counters stay within their width.                         *)
LEMMA RefWidth ==
  /\ \A r \in 0 .. RefLimit - 1 : /\ (r - 1) % RefLimit \in 0 .. RefLimit - 1
                                  /\ (r + 1) % RefLimit \in 0 .. RefLimit - 1
  /\ 0 \in 0 .. RefLimit - 1 /\ 1 \in 0 .. RefLimit - 1
<1>1. RefLimit \in Nat /\ RefLimit > 1
  BY ThreadsAssumption
<1> QED BY <1>1

(* Storing and taking a character keep the ring buffer well formed.        *)
LEMMA BufferType ==
  ASSUME NEW b \in RingBuffers, NEW c \in Chars
  PROVE  PutChar(b, c) \in RingBuffers
<1>1. \A i \in Slots : NextSlot(i) \in Slots
  BY BufferAssumption DEF Slots, NextSlot
<1> QED BY <1>1 DEF PutChar, RingBuffers

LEMMA GetType ==
  ASSUME NEW b \in RingBuffers
  PROVE  GetChar(b) \in RingBuffers
<1>1. \A i \in Slots : NextSlot(i) \in Slots
  BY BufferAssumption DEF Slots, NextSlot
<1> QED BY <1>1 DEF GetChar, RingBuffers

LEMMA EmptyBufferType == EmptyBuffer \in RingBuffers
BY BufferAssumption DEF EmptyBuffer, RingBuffers, Slots

-----------------------------------------------------------------------------
(* The links of the ring, whatever the ring looks like.                    *)

Links(nx, pv) ==
    /\ nx \in [Threads -> Threads \cup {NO}]
    /\ pv \in [Threads -> Threads \cup {NO}]
    /\ \A t \in Threads : nx[t] = NO <=> pv[t] = NO
    /\ \A t \in Threads : nx[t] # NO => nx[nx[t]] # NO /\ nx[pv[t]] # NO

(* add_tcb_to_runqueue links t and unlinks nobody.                         *)
LEMMA AddLinks ==
  ASSUME NEW t \in Threads, Links(next, prev), AddToRunqueue(t),
         runqueue \in Threads \cup {NO}, runqueue # NO => next[runqueue] # NO
  PROVE  /\ Links(next', prev') /\ runqueue' \in Threads
         /\ runqueue' = (IF runqueue = NO THEN t ELSE runqueue)
         /\ next'[t] # NO
         /\ \A u \in Threads : next[u] # NO => next'[u] # NO
<1>1. CASE runqueue = NO
  <2>1. /\ prev' = [prev EXCEPT ![t] = t] /\ next' = [next EXCEPT ![t] = t]
        /\ runqueue' = t
    BY <1>1 DEF AddToRunqueue
  <2>2. \A u \in Threads : /\ prev'[u] = IF u = t THEN t ELSE prev[u]
                           /\ next'[u] = IF u = t THEN t ELSE next[u]
    BY <2>1 DEF Links
  <2>3. \A u \in Threads : next[u] # NO => next'[u] # NO
    BY <2>2, Indices
  <2>4. ASSUME NEW u \in Threads, next'[u] # NO
        PROVE  next'[next'[u]] # NO /\ next'[prev'[u]] # NO
    <3>1. CASE u = t
      BY <2>2, <3>1, Indices
    <3>2. CASE u # t
      <4>1. next'[u] = next[u] /\ prev'[u] = prev[u] /\ next[u] # NO
        BY <2>2, <2>4, <3>2
      <4>2. /\ next[u] \in Threads /\ prev[u] \in Threads
            /\ next[next[u]] # NO /\ next[prev[u]] # NO
        BY <4>1 DEF Links
      <4> QED BY <2>3, <4>1, <4>2
    <3> QED BY <3>1, <3>2
  <2> QED BY <1>1, <2>1, <2>2, <2>3, <2>4, Indices DEF Links
<1>2. CASE runqueue # NO
  <2>1. next[runqueue] \in Threads /\ runqueue \in Threads
    BY <1>2 DEF Links
  <2>2. /\ prev' = [prev EXCEPT ![t] = runqueue, ![next[runqueue]] = t]
        /\ next' = [next EXCEPT ![t] = next[runqueue], ![runqueue] = t]
        /\ runqueue' = runqueue
    BY <1>2 DEF AddToRunqueue
  <2>3. \A u \in Threads :
          /\ prev'[u] = IF u = next[runqueue] THEN t
                        ELSE IF u = t THEN runqueue ELSE prev[u]
          /\ next'[u] = IF u = runqueue THEN t
                        ELSE IF u = t THEN next[runqueue] ELSE next[u]
    BY <2>1, <2>2 DEF Links
  <2>4. /\ next' \in [Threads -> Threads \cup {NO}]
        /\ prev' \in [Threads -> Threads \cup {NO}]
    BY <2>1, <2>2 DEF Links
  <2>5. next[next[runqueue]] # NO /\ next[runqueue] # NO
    BY <1>2, <2>1 DEF Links
  <2>6. \A u \in Threads : next'[u] = NO <=> prev'[u] = NO
    BY <1>2, <2>1, <2>3, <2>5, Indices DEF Links
  <2>7. \A u \in Threads : next[u] # NO => next'[u] # NO
    BY <2>1, <2>3, Indices
  <2>8. next'[t] # NO
    BY <2>1, <2>3, Indices
  <2>9. ASSUME NEW u \in Threads, next'[u] # NO
        PROVE  next'[next'[u]] # NO /\ next'[prev'[u]] # NO
    <3>1. \A v \in Threads : v = t \/ next[v] # NO => next'[v] # NO
      BY <2>7, <2>8
    <3>2. u = t \/ next[u] # NO
      BY <1>2, <2>3, <2>9
    <3>3. \/ next'[u] \in {t, next[runqueue]}
          \/ next'[u] = next[u] /\ next[u] # NO
      BY <2>3, <3>2
    <3>4. \/ prev'[u] \in {t, runqueue}
          \/ prev'[u] = prev[u] /\ next[u] # NO
      BY <2>3, <3>2
    <3>5. next'[u] \in Threads /\ (next'[u] = t \/ next[next'[u]] # NO)
      BY <2>1, <2>5, <3>3 DEF Links
    <3>6. prev'[u] \in Threads /\ (prev'[u] = t \/ next[prev'[u]] # NO)
      BY <1>2, <2>1, <3>4, Indices DEF Links
    <3> QED BY <3>1, <3>5, <3>6
  <2> QED BY <1>2, <2>2, <2>1, <2>4, <2>6, <2>7, <2>8, <2>9 DEF Links
<1> QED BY <1>1, <1>2

(* remove_tcb_from_runqueue unlinks nobody's links from others.            *)
LEMMA RemoveLinks ==
  ASSUME NEW t \in Threads, Links(next, prev), RemoveFromRunqueue(t),
         next[t] # NO, runqueue \in Threads \cup {NO}
  PROVE  /\ Links(next', prev')
         /\ runqueue' \in {runqueue, NO}
         /\ \A u \in Threads : next[u] # NO => next'[u] # NO
<1>1. CASE prev[t] = t
  BY <1>1 DEF Links, RemoveFromRunqueue
<1>2. CASE prev[t] # t
  <2>1. next[t] \in Threads /\ prev[t] \in Threads
    BY DEF Links
  <2>2. /\ next' = [next EXCEPT ![prev[t]] = next[t]]
        /\ prev' = [prev EXCEPT ![next[t]] = prev[t]]
        /\ runqueue' = runqueue
    BY <1>2 DEF RemoveFromRunqueue
  <2>3. prev[prev[t]] # NO /\ prev[next[t]] # NO
    BY <2>1, Indices DEF Links
  <2> QED BY <2>1, <2>2, <2>3, Indices DEF Links
<1> QED BY <1>1, <1>2

-----------------------------------------------------------------------------
(* Types and pointers: one lemma per handler.                              *)

TypeInv == TypeOK /\ PointersOK

LEMMA LinksInv ==
  ASSUME TypeInv
  PROVE  /\ Links(next, prev) /\ runqueue \in Threads \cup {NO}
         /\ runqueue # NO => next[runqueue] # NO
BY DEF TypeInv, TypeOK, PointersOK, Links

(* The caller of a system call is linked.                                  *)
LEMMA CallerLinked ==
  ASSUME TypeInv, NEW call, InSyscall(call)
  PROVE  runqueue \in Threads /\ next[runqueue] # NO /\ kpc = "user"
BY DEF TypeInv, TypeOK, PointersOK, InSyscall

LEMMA InitType == Init => TypeInv
<1> SUFFICES ASSUME Init PROVE TypeInv
  OBVIOUS
<1>1. TIMER_INTERVAL \in Nat /\ TIMER_INTERVAL > 0 /\ 0 \in 0 .. RefLimit - 1
      /\ 1 \in 0 .. RefLimit - 1 /\ NumStacks - 1 \in Stacks /\ 0 \in Stacks
  BY ThreadsAssumption DEF Stacks
<1>2. TypeOK
  BY <1>1, Indices, EmptyBufferType DEF Init, TypeOK
<1>3. PointersOK
  BY Indices DEF Init, PointersOK
<1> QED BY <1>2, <1>3 DEF TypeInv

LEMMA TerminateType ==
  ASSUME TypeInv, NEW call, InSyscall(call), TerminateCurrent
  PROVE  TypeInv'
<1>1. runqueue \in Threads /\ next[runqueue] # NO /\ kpc = "user"
  BY CallerLinked
<1>2. CASE L2_table_i[runqueue] = NO \/ stack_i[runqueue] = NO
  BY <1>1, <1>2 DEF TerminateCurrent, TypeInv, TypeOK, PointersOK, tcbVars,
     ringVars, sleepVars, memVars, wakeVars, timerVars, Runnable
<1>3. CASE ~ (L2_table_i[runqueue] = NO \/ stack_i[runqueue] = NO)
  <2>1. /\ RemoveFromRunqueue(runqueue)
        /\ state' = [state EXCEPT ![runqueue] = "TERMINATED"]
        /\ ReleaseTable(L2_table_i[runqueue])
        /\ UnmapStack(L2_table_i[runqueue], stack_i[runqueue])
        /\ kpc' = "wake" /\ tcb' = sleepqueue /\ prior_tcb' = NO
        /\ UNCHANGED <<wake_at, stack_i, L2_table_i, sleepqueue, next_sleeping,
                       char_thread, running, L1, timer, timer_pending,
                       uart_input_buffer>>
    BY <1>3 DEF TerminateCurrent, EnterScheduler, sleepVars, timerVars
  <2>2. /\ Links(next', prev') /\ runqueue' \in {runqueue, NO}
        /\ \A u \in Threads : next[u] # NO => next'[u] # NO
    BY <1>1, <2>1, LinksInv, RemoveLinks
  <2>3. L2_table_i[runqueue] \in Tables
    BY <1>1, <1>3 DEF TypeInv, TypeOK
  <2>4. L2_Table_references' \in [Tables -> 0 .. RefLimit - 1]
    BY <2>1, <2>3, RefWidth DEF ReleaseTable, TypeInv, TypeOK
  <2>5. L2_Tables' \in [Tables -> SUBSET Stacks]
    BY <2>1, <2>3 DEF UnmapStack, TypeInv, TypeOK
  <2>6. TypeOK'
    BY <1>1, <2>1, <2>2, <2>4, <2>5 DEF TypeInv, TypeOK, Links
  <2>7. PointersOK'
    BY <1>1, <2>1, <2>2 DEF TypeInv, TypeOK, PointersOK, Links
  <2> QED BY <2>6, <2>7 DEF TypeInv
<1> QED BY <1>2, <1>3

LEMMA StartType ==
  ASSUME TypeInv, NEW call, InSyscall(call),
         NEW t \in Threads, NEW i \in Tables, NEW refs \in 0 .. RefLimit - 1,
         NEW mapped \in SUBSET Stacks, StartThread(t, i, refs, mapped)
  PROVE  TypeInv'
<1> DEFINE free == Stacks \ mapped
           slot == IF free = {} THEN NO ELSE Max(free)
<1>1. runqueue \in Threads /\ next[runqueue] # NO /\ kpc = "user"
  BY CallerLinked
<1>2. slot \in Stacks \cup {NO}
  BY StackSets
<1>3. /\ L2_table_i' = [L2_table_i EXCEPT ![t] = i]
      /\ L2_Table_references' = [L2_Table_references EXCEPT ![i] = refs]
      /\ stack_i' = [stack_i EXCEPT ![t] = slot]
      /\ L2_Tables' = [L2_Tables EXCEPT ![i] = mapped \cup ({slot} \ {NO})]
      /\ UNCHANGED <<wake_at, sleepqueue, next_sleeping, char_thread, running,
                     L1, timer, timer_pending, uart_input_buffer>>
  BY DEF StartThread, sleepVars, timerVars
<1> HIDE DEF slot
<1>4. /\ L2_table_i' \in [Threads -> Tables \cup {NO}]
      /\ L2_Table_references' \in [Tables -> 0 .. RefLimit - 1]
      /\ stack_i' \in [Threads -> Stacks \cup {NO}]
      /\ L2_Tables' \in [Tables -> SUBSET Stacks]
  BY <1>2, <1>3 DEF TypeInv, TypeOK
<1>5. CASE /\ kpc' \in {"halted", "overwritten"}
           /\ UNCHANGED <<state, ringVars, wakeVars>>
  <2>1. UNCHANGED <<state, runqueue, next, prev, tcb, prior_tcb>>
    BY <1>5 DEF ringVars, wakeVars
  <2> QED BY <1>3, <1>4, <1>5, <2>1 DEF TypeInv, TypeOK, PointersOK
<1>6. CASE /\ state' = [state EXCEPT ![t] = "READY"] /\ AddToRunqueue(t)
           /\ EnterScheduler(sleepqueue)
  <2>1. /\ state' = [state EXCEPT ![t] = "READY"] /\ AddToRunqueue(t)
        /\ kpc' = "wake" /\ tcb' = sleepqueue /\ prior_tcb' = NO
    BY <1>6 DEF EnterScheduler
  <2>2. /\ Links(next', prev') /\ runqueue' = runqueue
        /\ \A u \in Threads : next[u] # NO => next'[u] # NO
    BY <1>1, <2>1, LinksInv, AddLinks, Indices
  <2>3. TypeOK'
    BY <1>1, <1>3, <1>4, <2>1, <2>2 DEF TypeInv, TypeOK, Links
  <2>4. PointersOK'
    BY <1>1, <1>3, <2>1, <2>2 DEF TypeInv, TypeOK, PointersOK, Links
  <2> QED BY <2>3, <2>4 DEF TypeInv
<1> QED BY <1>5, <1>6 DEF StartThread, GoesAstray

LEMMA CreateType ==
  ASSUME TypeInv, CreateProcess \/ CreateThread
  PROVE  TypeInv'
<1>1. FreeTcbs # {} => Min(FreeTcbs) \in Threads
  BY ThreadSets DEF FreeTcbs
<1>2. CASE CreateProcess /\ FreeTables = {}
  <2>1. /\ L2_table_i' = [L2_table_i EXCEPT ![Min(FreeTcbs)] = NO]
        /\ UNCHANGED <<state, wake_at, stack_i, runqueue, next, prev, sleepqueue,
                       next_sleeping, L2_Table_references, L2_Tables,
                       char_thread, running, L1, kpc, tcb, prior_tcb, timer,
                       timer_pending, uart_input_buffer>>
    BY <1>2 DEF CreateProcess, ringVars, sleepVars, memVars, wakeVars, timerVars
  <2>2. TypeOK'
    BY <2>1 DEF TypeInv, TypeOK
  <2>3. PointersOK'
    BY <2>1 DEF TypeInv, PointersOK
  <2> QED BY <2>2, <2>3 DEF TypeInv
<1>3. CASE CreateProcess /\ FreeTables # {}
  <2>1. Min(FreeTables) \in Tables
    BY <1>3, ThreadSets, Indices DEF FreeTables
  <2>2. /\ InSyscall("process")
        /\ StartThread(Min(FreeTcbs), Min(FreeTables), 1, {})
        /\ FreeTcbs # {}
    BY <1>3 DEF CreateProcess
  <2> QED BY <1>1, <2>1, <2>2, RefWidth, StartType
<1>4. CASE CreateThread
  <2>1. InSyscall("thread") /\ FreeTcbs # {}
    BY <1>4 DEF CreateThread
  <2>2. runqueue \in Threads /\ kpc = "user"
    BY <2>1, CallerLinked
  <2>3. CASE L2_table_i[runqueue] = NO
    BY <1>4, <2>2, <2>3 DEF CreateThread, TypeInv, TypeOK, PointersOK, tcbVars,
       ringVars, sleepVars, memVars, wakeVars, timerVars
  <2>4. CASE L2_table_i[runqueue] # NO
    <3> DEFINE i == L2_table_i[runqueue]
    <3>1. StartThread(Min(FreeTcbs), i, (L2_Table_references[i] + 1) % RefLimit,
                      L2_Tables[i])
      BY <1>4, <2>4 DEF CreateThread
    <3>2. i \in Tables
      BY <2>2, <2>4 DEF TypeInv, TypeOK
    <3>3. /\ L2_Table_references[i] \in 0 .. RefLimit - 1
          /\ L2_Tables[i] \in SUBSET Stacks
      BY <3>2 DEF TypeInv, TypeOK
    <3>4. (L2_Table_references[i] + 1) % RefLimit \in 0 .. RefLimit - 1
      BY <3>3, RefWidth
    <3> QED BY <1>1, <2>1, <3>1, <3>2, <3>3, <3>4, StartType
  <2> QED BY <2>3, <2>4
<1> QED BY <1>2, <1>3, <1>4

LEMMA SleepType ==
  ASSUME TypeInv, NEW n \in 1 .. MaxSleep, Sleep(n)
  PROVE  TypeInv'
<1>1. runqueue \in Threads /\ next[runqueue] # NO /\ kpc = "user"
  BY CallerLinked DEF Sleep
<1>2. /\ state' = [state EXCEPT ![runqueue] = "WAITING"]
      /\ wake_at' = [wake_at EXCEPT ![runqueue] = n]
      /\ RemoveFromRunqueue(runqueue)
      /\ next_sleeping' = [next_sleeping EXCEPT ![runqueue] = sleepqueue]
      /\ sleepqueue' = runqueue
      /\ kpc' = "wake" /\ tcb' = runqueue /\ prior_tcb' = NO
      /\ UNCHANGED <<stack_i, L2_table_i, L2_Table_references, L2_Tables,
                     char_thread, running, L1, timer, timer_pending,
                     uart_input_buffer>>
  BY DEF Sleep, PushSleeper, EnterScheduler, memVars, timerVars
<1>3. /\ Links(next', prev') /\ runqueue' \in {runqueue, NO}
      /\ \A u \in Threads : next[u] # NO => next'[u] # NO
  BY <1>1, <1>2, LinksInv, RemoveLinks
<1>4. n \in Nat
  BY ThreadsAssumption
<1>5. TypeOK'
  BY <1>1, <1>2, <1>3, <1>4 DEF TypeInv, TypeOK, Links
<1>6. PointersOK'
  BY <1>1, <1>2, <1>3 DEF TypeInv, TypeOK, PointersOK, Links
<1> QED BY <1>5, <1>6 DEF TypeInv

LEMMA ReadType ==
  ASSUME TypeInv, ReadBuffered \/ ReadWait
  PROVE  TypeInv'
<1>1. CASE ReadBuffered
  <2>1. GetChar(uart_input_buffer) \in RingBuffers
    BY BufferType, GetType DEF TypeInv, TypeOK
  <2>2. /\ uart_input_buffer' = GetChar(uart_input_buffer)
        /\ UNCHANGED <<state, wake_at, stack_i, L2_table_i, runqueue, next, prev,
                       sleepqueue, next_sleeping, L2_Table_references,
                       L2_Tables, char_thread, running, L1, kpc, tcb,
                       prior_tcb, timer, timer_pending>>
    BY <1>1 DEF ReadBuffered, tcbVars, ringVars, sleepVars, memVars, wakeVars,
       timerVars
  <2>3. TypeOK'
    BY <2>1, <2>2 DEF TypeInv, TypeOK
  <2>4. PointersOK'
    BY <2>2 DEF TypeInv, PointersOK
  <2> QED BY <2>3, <2>4 DEF TypeInv
<1>2. CASE ReadWait
  <2>1. runqueue \in Threads /\ next[runqueue] # NO /\ kpc = "user"
    BY <1>2, CallerLinked DEF ReadWait
  <2>2. /\ state' = [state EXCEPT ![runqueue] = "WAITING"]
        /\ RemoveFromRunqueue(runqueue) /\ char_thread' = runqueue
        /\ kpc' = "wake" /\ tcb' = sleepqueue /\ prior_tcb' = NO
        /\ UNCHANGED <<wake_at, stack_i, L2_table_i, sleepqueue, next_sleeping,
                       L2_Table_references, L2_Tables, running, L1, timer,
                       timer_pending, uart_input_buffer>>
    BY <1>2 DEF ReadWait, EnterScheduler, sleepVars, memVars, timerVars
  <2>3. /\ Links(next', prev') /\ runqueue' \in {runqueue, NO}
        /\ \A u \in Threads : next[u] # NO => next'[u] # NO
    BY <2>1, <2>2, LinksInv, RemoveLinks
  <2>4. TypeOK'
    BY <2>1, <2>2, <2>3 DEF TypeInv, TypeOK, Links
  <2>5. PointersOK'
    BY <2>1, <2>2, <2>3 DEF TypeInv, TypeOK, PointersOK, Links
  <2> QED BY <2>4, <2>5 DEF TypeInv
<1> QED BY <1>1, <1>2

LEMMA UartType ==
  ASSUME TypeInv, NEW c \in Chars, UartStore(c) \/ UartDeliver(c) \/ UartFatal(c)
  PROVE  TypeInv'
<1>1. CASE UartStore(c)
  <2>1. PutChar(uart_input_buffer, c) \in RingBuffers
    BY BufferType DEF TypeInv, TypeOK
  <2>2. /\ uart_input_buffer' = PutChar(uart_input_buffer, c)
        /\ UNCHANGED <<state, wake_at, stack_i, L2_table_i, runqueue, next, prev,
                       sleepqueue, next_sleeping, L2_Table_references,
                       L2_Tables, char_thread, running, L1, kpc, tcb,
                       prior_tcb, timer, timer_pending>>
    BY <1>1 DEF UartStore, tcbVars, ringVars, sleepVars, memVars, wakeVars,
       timerVars
  <2>3. TypeOK'
    BY <2>1, <2>2 DEF TypeInv, TypeOK
  <2>4. PointersOK'
    BY <2>2 DEF TypeInv, PointersOK
  <2> QED BY <2>3, <2>4 DEF TypeInv
<1>2. CASE UartDeliver(c)
  <2>1. GetChar(PutChar(uart_input_buffer, c)) \in RingBuffers
    BY BufferType, GetType DEF TypeInv, TypeOK
  <2>2. char_thread \in Threads /\ kpc = "user"
    BY <1>2 DEF UartDeliver, TypeInv, TypeOK
  <2>3. /\ uart_input_buffer' = GetChar(PutChar(uart_input_buffer, c))
        /\ state' = [t \in Threads |-> IF t = char_thread THEN "RUNNING"
                                       ELSE IF t = runqueue THEN "READY"
                                       ELSE state[t]]
        /\ AddToRunqueue(char_thread)
        /\ running' = char_thread /\ L1' = L2_table_i[char_thread]
        /\ timer' = TIMER_INTERVAL /\ char_thread' = NO
        /\ UNCHANGED <<wake_at, stack_i, L2_table_i, sleepqueue, next_sleeping,
                       L2_Table_references, L2_Tables, kpc, tcb, prior_tcb,
                       timer_pending>>
    BY <1>2 DEF UartDeliver, LoadContext, sleepVars, memVars, wakeVars
  <2>4. /\ Links(next', prev') /\ runqueue' \in Threads
        /\ runqueue' = (IF runqueue = NO THEN char_thread ELSE runqueue)
        /\ next'[char_thread] # NO
        /\ \A u \in Threads : next[u] # NO => next'[u] # NO
    BY <2>2, <2>3, LinksInv, AddLinks
  <2>5. TIMER_INTERVAL \in Nat /\ TIMER_INTERVAL > 0
    BY ThreadsAssumption
  <2>6. state' \in [Threads -> {"READY", "RUNNING", "WAITING", "TERMINATED"}]
    BY <2>3 DEF TypeInv, TypeOK
  <2>7. TypeOK'
    BY <2>1, <2>2, <2>3, <2>4, <2>5, <2>6 DEF TypeInv, TypeOK, Links
  <2>8. PointersOK'
    BY <2>2, <2>3, <2>4, Indices, LinksInv DEF PointersOK, Links
  <2> QED BY <2>7, <2>8 DEF TypeInv
<1>3. CASE UartFatal(c)
  BY <1>3 DEF UartFatal, TypeInv, TypeOK, PointersOK, tcbVars, ringVars,
     sleepVars, memVars, wakeVars, timerVars
<1> QED BY <1>1, <1>2, <1>3

LEMMA TimerType ==
  ASSUME TypeInv, TimerIrq \/ Tick
  PROVE  TypeInv'
<1>1. CASE TimerIrq
  BY <1>1 DEF TimerIrq, EnterScheduler, TypeInv, TypeOK, PointersOK, tcbVars,
     ringVars, sleepVars, memVars
<1>2. CASE Tick
  <2>1. timer \in Nat /\ timer > 0 /\ wake_at \in [Threads -> Nat \cup {NEVER_SET}]
    BY <1>2 DEF Tick, TypeInv, TypeOK
  <2>2. /\ timer' = timer - 1 /\ timer_pending' = (timer = 1)
        /\ wake_at' = [t \in Threads |-> IF wake_at[t] > 0 THEN wake_at[t] - 1
                                         ELSE wake_at[t]]
    BY <1>2 DEF Tick
  <2>3. \A t \in Threads : wake_at'[t] \in Nat \cup {NEVER_SET}
    BY <2>1, <2>2 DEF NEVER_SET
  <2>4. wake_at' \in [Threads -> Nat \cup {NEVER_SET}]
    BY <2>2, <2>3
  <2>5. timer' \in Nat /\ (timer # 1 => timer' > 0)
    BY <2>1, <2>2
  <2>9. timer_pending' \in BOOLEAN /\ (~timer_pending' => timer # 1)
    BY ONLY <2>2, Zenon
  <2>6. UNCHANGED <<state, stack_i, L2_table_i, runqueue, next, prev,
                    sleepqueue, next_sleeping, L2_Table_references, L2_Tables,
                    char_thread, running, L1, kpc, tcb, prior_tcb,
                    uart_input_buffer>>
    BY <1>2 DEF Tick, ringVars, sleepVars, memVars, wakeVars
  <2>7. TypeOK'
    BY <2>4, <2>5, <2>9, <2>6 DEF TypeInv, TypeOK
  <2>8. PointersOK'
    BY <2>6 DEF TypeInv, PointersOK
  <2> QED BY <2>7, <2>8 DEF TypeInv
<1> QED BY <1>1, <1>2

(* A handler that goes astray has changed the buffer and states at most.   *)
LEMMA AstrayType ==
  ASSUME TypeInv, ReadAstray \/ \E c \in Chars : DeliverAstray(c)
  PROVE  TypeInv'
<1>1. uart_input_buffer' \in RingBuffers
  BY BufferType, GetType DEF ReadAstray, DeliverAstray, TypeInv, TypeOK
<1>2. state' \in [Threads -> {"READY", "RUNNING", "WAITING", "TERMINATED"}]
  BY DEF ReadAstray, DeliverAstray, tcbVars, TypeInv, TypeOK
<1>3. /\ kpc' \in {"halted", "overwritten"}
      /\ UNCHANGED <<wake_at, stack_i, L2_table_i, runqueue, next, prev,
                     sleepqueue, next_sleeping, L2_Table_references,
                     L2_Tables, char_thread, running, L1, tcb, prior_tcb,
                     timer, timer_pending>>
  BY DEF ReadAstray, DeliverAstray, GoesAstray, tcbVars, ringVars, sleepVars,
     memVars, wakeVars, timerVars
<1>4. TypeOK'
  BY <1>1, <1>2, <1>3 DEF TypeInv, TypeOK
<1>5. PointersOK'
  BY <1>3 DEF TypeInv, PointersOK
<1> QED BY <1>4, <1>5 DEF TypeInv

(* Advance leaves a sleepqueue of threads, whatever it is given.           *)
LEMMA AdvanceType ==
  ASSUME TypeInv, tcb \in Threads, NEW sq \in Threads \cup {NO},
         NEW ns \in [Threads -> Threads \cup {NO}], NEW st, NEW wa,
         Advance(sq, ns, st, wa)
  PROVE  /\ sleepqueue' \in Threads \cup {NO} /\ tcb' \in Threads \cup {NO}
         /\ next_sleeping' \in [Threads -> Threads \cup {NO}]
<1> DEFINE sleepers == {t \in Threads : st[t] = "WAITING" /\ wa[t] # NEVER_SET}
           first == IF sleepers = {} THEN NO ELSE Min(sleepers)
<1>1. CASE ns[tcb] # sq
  BY <1>1 DEF Advance
<1>2. CASE ns[tcb] = sq
  <2>1. first \in Threads \cup {NO} /\ (sleepers # {} => Max(sleepers) \in Threads)
    BY ThreadSets
  <2>2. /\ sleepqueue' = first /\ tcb' = first
        /\ next_sleeping' = [t \in Threads |->
                               IF t \notin sleepers THEN ns[t]
                               ELSE IF t # first THEN NO
                               ELSE IF sleepers = {first} THEN ns[t]
                               ELSE Max(sleepers)]
    BY <1>2 DEF Advance
  <2> HIDE DEF sleepers, first
  <2>3. \A t \in Threads : next_sleeping'[t] \in Threads \cup {NO}
    <3> TAKE t \in Threads
    <3>1. t \in sleepers => sleepers # {}
      OBVIOUS
    <3> QED BY <2>1, <2>2, <3>1
  <2> QED BY <2>1, <2>2, <2>3
<1> QED BY <1>1, <1>2

LEMMA WakeType ==
  ASSUME TypeInv, WakeTcb \/ SkipTcb
  PROVE  TypeInv'
<1>1. tcb \in Threads /\ kpc = "wake" /\ kpc' = "wake"
  BY DEF WakeTcb, SkipTcb, TypeInv, TypeOK
<1>2. CASE WakeTcb
  <2> DEFINE sq == IF prior_tcb = NO THEN next_sleeping[tcb] ELSE sleepqueue
             ns == IF prior_tcb = NO THEN next_sleeping
                   ELSE [next_sleeping EXCEPT ![prior_tcb] = next_sleeping[tcb]]
             st == [state EXCEPT ![tcb] = "READY"]
             wa == [wake_at EXCEPT ![tcb] = NEVER_SET]
  <2>1. /\ Advance(sq, ns, st, wa) /\ state' = st /\ wake_at' = wa
        /\ AddToRunqueue(tcb)
        /\ UNCHANGED <<stack_i, L2_table_i, L2_Table_references, L2_Tables,
                       char_thread, running, L1, kpc, prior_tcb, timer,
                       timer_pending, uart_input_buffer>>
    BY <1>2 DEF WakeTcb, memVars, timerVars
  <2>2. /\ Links(next', prev') /\ runqueue' \in Threads
        /\ runqueue' = (IF runqueue = NO THEN tcb ELSE runqueue)
        /\ next'[tcb] # NO
        /\ \A u \in Threads : next[u] # NO => next'[u] # NO
    BY <1>1, <2>1, LinksInv, AddLinks
  <2>3. sq \in Threads \cup {NO} /\ ns \in [Threads -> Threads \cup {NO}]
    BY <1>1 DEF TypeInv, TypeOK
  <2>4. state' \in [Threads -> {"READY", "RUNNING", "WAITING", "TERMINATED"}]
        /\ wake_at' \in [Threads -> Nat \cup {NEVER_SET}]
    BY <1>1, <2>1 DEF TypeInv, TypeOK
  <2> HIDE DEF sq, ns, st, wa
  <2>5. /\ sleepqueue' \in Threads \cup {NO} /\ tcb' \in Threads \cup {NO}
        /\ next_sleeping' \in [Threads -> Threads \cup {NO}]
    BY <1>1, <2>1, <2>3, AdvanceType
  <2>6. TypeOK'
    BY <1>1, <2>1, <2>2, <2>4, <2>5 DEF TypeInv, TypeOK, Links
  <2>7. PointersOK'
    BY <1>1, <2>1, <2>2 DEF TypeInv, TypeOK, PointersOK, Links
  <2> QED BY <2>6, <2>7 DEF TypeInv
<1>3. CASE SkipTcb
  <2>1. /\ Advance(sleepqueue, next_sleeping, state, wake_at)
        /\ prior_tcb' = tcb
        /\ UNCHANGED <<state, wake_at, stack_i, L2_table_i, runqueue, next, prev,
                       L2_Table_references, L2_Tables, char_thread, running,
                       L1, kpc, timer, timer_pending, uart_input_buffer>>
    BY <1>3 DEF SkipTcb, tcbVars, ringVars, memVars, timerVars
  <2>2. /\ sleepqueue \in Threads \cup {NO}
        /\ next_sleeping \in [Threads -> Threads \cup {NO}]
    BY DEF TypeInv, TypeOK
  <2>3. /\ sleepqueue' \in Threads \cup {NO} /\ tcb' \in Threads \cup {NO}
        /\ next_sleeping' \in [Threads -> Threads \cup {NO}]
    BY <1>1, <2>1, <2>2, AdvanceType
  <2>4. TypeOK'
    BY <1>1, <2>1, <2>3 DEF TypeInv, TypeOK
  <2>5. PointersOK'
    BY <1>1, <2>1 DEF TypeInv, PointersOK
  <2> QED BY <2>4, <2>5 DEF TypeInv
<1> QED BY <1>2, <1>3

(* The scheduler timer is always set to something in the future.           *)
LEMMA TimerSet ==
  ASSUME TypeInv, ResetSchedulerTimer
  PROVE  timer' \in Nat /\ timer' > 0
<1> DEFINE wakes == {wake_at[t] : t \in SleepChain}
<1>1. /\ TIMER_INTERVAL \in Nat /\ TIMER_INTERVAL > 0
      /\ TIMER_WRAP \in Nat /\ TIMER_WRAP > 0
  BY ThreadsAssumption
<1>2. timer' = IF runqueue # NO \/ sleepqueue = NO THEN TIMER_INTERVAL
               ELSE IF \E w \in wakes : w <= 0 THEN TIMER_WRAP
                    ELSE Min(wakes)
  BY DEF ResetSchedulerTimer
<1>3. CASE runqueue = NO /\ sleepqueue # NO /\ \A w \in wakes : ~(w <= 0)
  <2>1. sleepqueue \in SleepChain
    BY <1>3 DEF SleepChain, TypeInv, TypeOK
  <2>2. SleepChain \subseteq Threads
    BY DEF SleepChain
  <2>3. \A w \in wakes : w \in Nat \cup {NEVER_SET}
    BY <2>2 DEF TypeInv, TypeOK
  <2>4. wakes \in SUBSET Nat /\ wakes # {} /\ \A w \in wakes : w > 0
    BY <1>3, <2>1, <2>3 DEF NEVER_SET
  <2>5. Min(wakes) \in wakes
    BY <2>4, MinExists
  <2> HIDE DEF wakes
  <2>6. timer' = Min(wakes)
    BY <1>2, <1>3
  <2> QED BY <2>4, <2>5, <2>6
<1> QED BY <1>1, <1>2, <1>3

LEMMA DispatchType ==
  ASSUME TypeInv, Dispatch
  PROVE  TypeInv'
<1>1. /\ DispatchIdle \/ DispatchNext \/ DispatchSame
      /\ ResetSchedulerTimer /\ kpc' = "user" /\ prior_tcb' = NO
      /\ UNCHANGED <<next, prev, wake_at, stack_i, L2_table_i, sleepqueue,
                     next_sleeping, L2_Table_references, L2_Tables,
                     char_thread, tcb, timer_pending, uart_input_buffer>>
  BY DEF Dispatch, sleepVars, memVars
<1>2. timer' \in Nat /\ timer' > 0
  BY <1>1, TimerSet
<1>3. /\ state' \in [Threads -> {"READY", "RUNNING", "WAITING", "TERMINATED"}]
      /\ runqueue' \in Threads \cup {NO} /\ running' \in Threads \cup {NO}
      /\ L1' \in Tables \cup {NO}
      /\ running' # NO => runqueue' # NO
      /\ runqueue' # NO => next[runqueue'] # NO
  <2>1. CASE DispatchIdle
    BY <2>1, LinksInv DEF DispatchIdle, AfterWake, TypeInv, TypeOK
  <2>2. CASE DispatchNext
    <3> DEFINE to == next[runqueue]
    <3>1. runqueue \in Threads /\ to \in Threads /\ next[to] # NO
      BY <2>2, LinksInv DEF DispatchNext, Links
    <3>2. /\ state' = [t \in Threads |->
                         IF t = to THEN "RUNNING"
                         ELSE IF t = runqueue /\ state[t] = "RUNNING"
                              THEN "READY" ELSE state[t]]
          /\ runqueue' = to /\ running' = to /\ L1' = L2_table_i[to]
      BY <2>2 DEF DispatchNext, LoadContext
    <3> QED BY <3>1, <3>2, Indices DEF TypeInv, TypeOK
  <2>3. CASE DispatchSame
    BY <2>3, LinksInv DEF DispatchSame, TypeInv, TypeOK
  <2> QED BY <1>1, <2>1, <2>2, <2>3
<1>4. TypeOK'
  BY <1>1, <1>2, <1>3 DEF TypeInv, TypeOK
<1>5. PointersOK'
  BY <1>1, <1>3 DEF TypeInv, PointersOK
<1> QED BY <1>4, <1>5 DEF TypeInv

LEMMA StutterType ==
  ASSUME TypeInv, UNCHANGED vars
  PROVE  TypeInv'
BY DEF TypeInv, TypeOK, PointersOK, vars, tcbVars, ringVars, sleepVars,
   memVars, wakeVars, timerVars

LEMMA NextType == TypeInv /\ [Next]_vars => TypeInv'
<1> SUFFICES ASSUME TypeInv, [Next]_vars PROVE TypeInv'
  OBVIOUS
<1>1. CASE Exit \/ Fault
  BY <1>1, TerminateType DEF Exit, Fault
<1>2. CASE CreateProcess \/ CreateThread
  BY <1>2, CreateType
<1>3. CASE \E n \in 1 .. MaxSleep : Sleep(n)
  BY <1>3, SleepType
<1>4. CASE ReadBuffered \/ ReadWait
  BY <1>4, ReadType
<1>5. CASE \E c \in Chars : UartStore(c) \/ UartDeliver(c) \/ UartFatal(c)
  BY <1>5, UartType
<1>6. CASE TimerIrq \/ Tick
  BY <1>6, TimerType
<1>7. CASE KernelStep
  BY <1>7, WakeType, DispatchType DEF KernelStep
<1>8. CASE ReadAstray \/ \E c \in Chars : DeliverAstray(c)
  BY <1>8, AstrayType
<1>9. CASE UNCHANGED vars
  BY <1>9, StutterType
<1> QED BY <1>1, <1>2, <1>3, <1>4, <1>5, <1>6, <1>7, <1>8, <1>9 DEF Next

(* The scheduler never leaves its types: in particular no counter, index   *)
(* or timer the handlers compute falls outside its range.                  *)
THEOREM TypeCorrect == Spec => []TypeOK
<1>1. Init => TypeInv
  BY InitType
<1>2. TypeInv /\ [Next]_vars => TypeInv'
  BY NextType
<1>3. TypeInv => TypeOK
  BY DEF TypeInv
<1> QED BY <1>1, <1>2, <1>3, PTL DEF Spec

(* No handler follows a NULL pointer: a thread that calls the kernel finds *)
(* runqueue set, and the links of add and remove lead to linked threads,   *)
(* even in the executions in which the ring falls apart.                   *)
THEOREM PointersSafe == Spec => []PointersOK
<1>1. Init => TypeInv
  BY InitType
<1>2. TypeInv /\ [Next]_vars => TypeInv'
  BY NextType
<1>3. TypeInv => PointersOK
  BY DEF TypeInv
<1> QED BY <1>1, <1>2, <1>3, PTL DEF Spec
=============================================================================
