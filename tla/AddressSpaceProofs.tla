------------------------- MODULE AddressSpaceProofs -------------------------
(***************************************************************************)
(* Virtual memory, for every layout and every number of threads, tables    *)
(* and pages: the translations the processor holds while user code runs    *)
(* are those of the running thread's table, the instructions of a process  *)
(* write neither another's memory nor text, stacks have guard pages, and   *)
(* the kernel finds the memory of every thread.                            *)
(***************************************************************************)
EXTENDS SchedulerProofs, LayoutProofs, Tlb

CalmMemoryNext == MemoryNext /\ ~GapWake'

(* Memory without a wake-up into a gap of the runqueue.                    *)
CalmMemorySpec == MemoryInit /\ [][CalmMemoryNext]_memoryVars

LEMMA CalmMemoryStep == [CalmMemoryNext]_memoryVars => [CalmNext]_vars
BY DEF CalmMemoryNext, MemoryNext, CalmNext, memoryVars

LEMMA CalmMemoryInit == MemoryInit => Init
BY DEF MemoryInit

-----------------------------------------------------------------------------
(* The TLB.                                                                *)

LEMMA CachableIs ==
  Cachable = IF L1 = NO THEN {}
             ELSE {L1} \X {p \in 0 .. L2_SIZE - 1 : p \in StacksOf(L1) \cup GlobalPages}
BY EntryValid DEF Cachable

(* The translations of a table survive as long as no stack is unmapped.    *)
LEMMA CachableGrows ==
  ASSUME UNCHANGED L1, L1 # NO => L2_Tables[L1] \subseteq L2_Tables'[L1]
  PROVE  Cachable \subseteq Cachable'
<1>1. CASE L1 = NO
  BY <1>1 DEF Cachable
<1>2. CASE L1 # NO
  <2>1. StacksOf(L1) \subseteq {SlotPage(s) : s \in L2_Tables'[L1]}
    BY <1>2 DEF StacksOf
  <2>2. Cachable' = {L1} \X {p \in 0 .. L2_SIZE - 1 :
                               p \in {SlotPage(s) : s \in L2_Tables'[L1]} \cup GlobalPages}
    <3>1. ASSUME NEW p
          PROVE  1 \in L2Entry(L1, {SlotPage(s) : s \in L2_Tables'[L1]}, p).bits
                 <=> p \in {SlotPage(s) : s \in L2_Tables'[L1]} \cup GlobalPages
      BY EntryValid
    <3> QED BY <1>2, <3>1 DEF Cachable, StacksOf
  <2> QED BY <1>2, <2>1, <2>2, CachableIs
<1> QED BY <1>1, <1>2

(* Between an interrupt and the dispatch that lets the same thread go on   *)
(* the translations are still those of its table.                          *)
TlbInv ==
    /\ NoStaleTranslation
    /\ kpc = "wake" /\ runqueue # NO /\ state[runqueue] = "RUNNING" =>
         tlb \subseteq Cachable

LEMMA InitTlb == MemoryInit => TlbInv
BY DEF MemoryInit, Init, TlbInv, NoStaleTranslation

(* A step that neither invalidates nor unmaps anything, and after which    *)
(* only a thread that had the processor before may have it.                *)
LEMMA TlbKept ==
  ASSUME TlbInv, AddrInv, UNCHANGED L1,
         tlb' = Cachable' \cup tlb,
         L1 # NO => L2_Tables[L1] \subseteq L2_Tables'[L1],
         kpc' = "user" /\ running' # NO =>
           \/ kpc = "user" /\ running # NO
           \/ kpc = "wake" /\ runqueue # NO /\ state[runqueue] = "RUNNING",
         kpc' = "wake" /\ runqueue' # NO /\ state'[runqueue'] = "RUNNING" =>
           /\ kpc \in {"user", "wake"} /\ runqueue # NO
           /\ state[runqueue] = "RUNNING"
  PROVE  TlbInv'
<1>1. Cachable \subseteq Cachable'
  BY CachableGrows
<1>2. runqueue # NO /\ state[runqueue] = "RUNNING" => running # NO
  BY DEF AddrInv, Loaded
<1> QED BY <1>1, <1>2 DEF TlbInv, NoStaleTranslation

(* A thread ends or waits: whatever is unmapped, nobody is running then.   *)
LEMMA LeaveTlb ==
  ASSUME CalmInv, MemInv,
         Exit \/ Fault \/ ReadWait \/ \E n \in 1 .. MaxSleep : Sleep(n)
  PROVE  TlbInv'
<1>1. runqueue \in Threads /\ runqueue \in Live
  BY CallerRuns DEF Exit, Fault, ReadWait, Sleep, Live, Runnable
<1>2. L2_table_i[runqueue] # NO /\ stack_i[runqueue] # NO
  BY <1>1, Indices DEF MemInv, MemoryOK, Stacks
<1>3. /\ RemoveFromRunqueue(runqueue) /\ kpc' = "wake"
      /\ \E s \in {"WAITING", "TERMINATED"} :
            state' = [state EXCEPT ![runqueue] = s]
  BY <1>2 DEF Exit, Fault, TerminateCurrent, ReadWait, Sleep, EnterScheduler
<1>4. runqueue' = NO \/ runqueue' = runqueue
  BY <1>3 DEF RemoveFromRunqueue
<1>5. state'[runqueue] # "RUNNING"
  BY <1>1, <1>3 DEF CalmInv, TypeInv, TypeOK
<1> QED BY <1>3, <1>4, <1>5 DEF TlbInv, NoStaleTranslation

(* A new thread only adds a stack.                                         *)
LEMMA CreateTlb ==
  ASSUME CalmInv, MemInv, AddrInv, TlbInv, CreateProcess \/ CreateThread,
         tlb' = Cachable' \cup tlb
  PROVE  TlbInv'
<1>1. TypeOK /\ MemoryOK /\ ~Stopped /\ FreeTcbs # {} /\ Min(FreeTcbs) \in FreeTcbs
  <2>1. FreeTcbs # {} /\ FreeTcbs \in SUBSET Threads
    BY DEF CreateProcess, CreateThread, FreeTcbs
  <2>2. ~Stopped
    BY DEF CreateProcess, CreateThread, InSyscall, Stopped
  <2> QED BY <2>1, <2>2, ThreadSets DEF CalmInv, TypeInv, MemInv
<1>2. runqueue \in Runnable /\ runqueue \in Threads /\ runqueue # NO /\ kpc = "user"
  BY CallerRuns DEF CreateProcess, CreateThread
<1>3. PICK t \in FreeTcbs, i \in Tables :
        \E refs, mapped :
          StartThread(t, i, refs, mapped) /\ L2_Tables[i] \subseteq mapped
  <2>1. CASE CreateProcess
    <3>1. FreeTables # {} /\ FreeTables \in SUBSET Threads
      BY <1>1, NothingRunsOut, Indices DEF FreeTables
    <3>2. Min(FreeTables) \in Tables /\ L2_Table_references[Min(FreeTables)] = 0
      BY <3>1, ThreadSets DEF FreeTables
    <3>3. ASSUME NEW i \in Tables, L2_Table_references[i] = 0 PROVE L2_Tables[i] = {}
      <4>1. IsFiniteSet(Users(i)) /\ Cardinality(Users(i)) = 0
        BY <1>1, <3>3, UsersBook, UsersFinite
      <4>2. Users(i) = {}
        BY <4>1, FS_EmptySet
      <4> QED BY <1>1, <4>2, UsersBook
    <3>4. StartThread(Min(FreeTcbs), Min(FreeTables), 1, {})
      BY <2>1, <3>1 DEF CreateProcess
    <3> QED BY <1>1, <3>2, <3>3, <3>4
  <2>2. CASE CreateThread
    <3>1. L2_table_i[runqueue] \in Tables /\ L2_table_i[runqueue] # NO
      BY <1>1, <1>2, Indices DEF MemoryOK, Live, Runnable
    <3> QED BY <1>1, <2>2, <3>1 DEF CreateThread
  <2> QED BY <2>1, <2>2
<1>4. t \in Threads /\ t # runqueue
  BY <1>2 DEF FreeTcbs, Runnable
<1>5. /\ UNCHANGED <<running, L1>> /\ kpc' # "user"
      /\ \E new : L2_Tables[i] \subseteq new /\ L2_Tables' = [L2_Tables EXCEPT ![i] = new]
      /\ \/ UNCHANGED <<state, runqueue>>
         \/ state' = [state EXCEPT ![t] = "READY"] /\ AddToRunqueue(t)
  BY <1>3 DEF StartThread, GoesAstray, EnterScheduler, ringVars
<1>6. runqueue' = runqueue /\ state'[runqueue] = state[runqueue]
  BY <1>1, <1>2, <1>4, <1>5 DEF AddToRunqueue, TypeOK
<1>7. L1 # NO => L2_Tables[L1] \subseteq L2_Tables'[L1]
  BY <1>1, <1>5 DEF TypeOK
<1> QED BY <1>2, <1>5, <1>6, <1>7, TlbKept

LEMMA WakeTlb ==
  ASSUME CalmInv, AddrInv, TlbInv, WakeTcb, tlb' = Cachable' \cup tlb
  PROVE  TlbInv'
<1>1. tcb \in Threads /\ runqueue \in Threads \cup {NO}
  BY Cursor DEF WakeTcb, CalmInv, TypeInv, TypeOK
<1>2. /\ state' = [state EXCEPT ![tcb] = "READY"] /\ AddToRunqueue(tcb)
      /\ UNCHANGED <<L1, L2_Tables>> /\ kpc = "wake" /\ kpc' = "wake"
  BY DEF WakeTcb, memVars
<1>3. \A u \in Threads : state'[u] = IF u = tcb THEN "READY" ELSE state[u]
  BY <1>1, <1>2 DEF CalmInv, TypeInv, TypeOK
<1>4. runqueue' = (IF runqueue = NO THEN tcb ELSE runqueue)
  BY <1>2 DEF AddToRunqueue
<1>5. runqueue' # NO /\ state'[runqueue'] = "RUNNING" =>
        runqueue # NO /\ state[runqueue] = "RUNNING"
  BY <1>1, <1>3, <1>4
<1> QED BY <1>2, <1>5, TlbKept

LEMMA DispatchTlb ==
  ASSUME CalmInv, AddrInv, TlbInv, Dispatch, ~DispatchNext, tlb' = Cachable' \cup tlb
  PROVE  TlbInv'
<1>1. kpc = "wake" /\ kpc' = "user" /\ UNCHANGED L2_Tables
  BY DEF Dispatch, DispatchIdle, DispatchNext, DispatchSame, AfterWake, memVars
<1>2. CASE DispatchIdle
  BY <1>1, <1>2 DEF DispatchIdle, TlbInv, NoStaleTranslation
<1>3. CASE DispatchSame
  <2>1. /\ runqueue # NO /\ next[runqueue] = runqueue /\ state[runqueue] # "READY"
        /\ UNCHANGED <<state, runqueue, running, L1>>
    BY <1>3 DEF DispatchSame, AfterWake, SwitchWanted
  <2>2. state[runqueue] = "RUNNING"
    BY <2>1 DEF CalmInv, RunInv, RunqueueOK, Runnable
  <2> QED BY <1>1, <2>1, <2>2, TlbKept
<1> QED BY <1>2, <1>3 DEF Dispatch

LEMMA TlbStep ==
  CalmInv /\ MemInv /\ AddrInv /\ TlbInv /\ [CalmMemoryNext]_memoryVars => TlbInv'
<1> SUFFICES ASSUME CalmInv, MemInv, AddrInv, TlbInv, [CalmMemoryNext]_memoryVars
             PROVE  TlbInv'
  OBVIOUS
<1>1. CASE UNCHANGED memoryVars
  <2>1. UNCHANGED <<kpc, running, runqueue, state, L1, L2_Tables, tlb>>
    BY <1>1 DEF memoryVars, vars, tcbVars, ringVars, memVars
  <2>2. Cachable' = Cachable
    BY <2>1 DEF Cachable, StacksOf
  <2> QED BY <2>1, <2>2 DEF TlbInv, NoStaleTranslation
<1>2. CASE MemoryNext /\ Invalidate
  <2>1. tlb' = Cachable'
    BY <1>2 DEF MemoryNext
  <2> QED BY <2>1 DEF TlbInv, NoStaleTranslation
<1>3. CASE MemoryNext /\ ~Invalidate
  <2>1. Next /\ tlb' = Cachable' \cup tlb
        /\ ~DispatchNext /\ ~ \E c \in Chars : UartDeliver(c)
    BY <1>3 DEF MemoryNext, Invalidate
  <2>2. CASE Exit \/ Fault \/ ReadWait \/ \E n \in 1 .. MaxSleep : Sleep(n)
    BY <2>2, LeaveTlb
  <2>3. CASE CreateProcess \/ CreateThread
    BY <2>1, <2>3, CreateTlb
  <2>4. CASE \/ ReadBuffered \/ \E c \in Chars : UartStore(c) \/ UartFatal(c)
             \/ TimerIrq \/ Tick \/ SkipTcb
    <3>1. /\ UNCHANGED <<running, runqueue, state, L1, L2_Tables>>
          /\ kpc' = "user" => kpc = "user"
          /\ kpc \in {"user", "wake"}
      BY <2>4 DEF ReadBuffered, UartStore, UartFatal, TimerIrq, Tick, SkipTcb,
         EnterScheduler, InSyscall, tcbVars, ringVars, memVars
    <3> QED BY <2>1, <3>1, TlbKept
  <2>5. CASE WakeTcb
    BY <2>1, <2>5, WakeTlb
  <2>6. CASE Dispatch
    BY <2>1, <2>6, DispatchTlb
  <2>7. CASE ReadAstray \/ \E c \in Chars : DeliverAstray(c)
    <3>1. /\ kpc = "user" /\ kpc' # "user"
          /\ UNCHANGED <<running, runqueue, L1, L2_Tables>>
          /\ UNCHANGED state \/ state'[runqueue] # "RUNNING" \/ runqueue = NO
      BY <2>7, AstrayKeeps
    <3> QED BY <2>1, <3>1, TlbKept
  <2> QED BY <2>1, <2>2, <2>3, <2>4, <2>5, <2>6, <2>7 DEF Next, KernelStep
<1> QED BY <1>1, <1>2, <1>3 DEF CalmMemoryNext

(* Without a wake-up into a gap user code never runs on a translation of   *)
(* another table or of an unmapped stack, although terminate_thread does   *)
(* not invalidate the TLB: a context is always loaded before.              *)
THEOREM TranslationsFresh == CalmMemorySpec => []NoStaleTranslation
<1>1. TlbInv => NoStaleTranslation
  BY DEF TlbInv
<1> QED BY <1>1, InitTlb, TlbStep, InitAddr, AddrStep, InitMem, MemStep, CalmInit,
           CalmStep, CalmMemoryInit, CalmMemoryStep, PTL DEF CalmMemorySpec

-----------------------------------------------------------------------------
(* Isolation.                                                              *)

(* No section of mmu_init is writable for user code.                       *)
LEMMA SharedReadOnly == SharedUserWritable = {}
<1>1. ASSUME NEW a PROVE ~ Permitted("User", "write", Translate(NoTable, {}, a))
  <2> DEFINE entry == MmuEntry(AlignDown(a))
  <2>1. \E adr, xn, pxn : \E right \in {0, 1, 5, 7} :
          entry = SectionEntry(adr, right, xn, pxn)
    BY DEF MmuEntry, RIGHT_NO_ACCESS, RIGHT_SYS_ONLY, RIGHT_SYS_READ_ONLY,
       RIGHT_BOTH_READ_ONLY
  <2>2. RightOf(entry.bits, 10, 15) # 3
    BY <2>1, SectionRight
  <2>3. Translate(NoTable, {}, a).right = RightOf(entry.bits, 10, 15)
    BY DEF Translate
  <2> QED BY <2>2, <2>3 DEF Permitted, Writable
<1> QED BY <1>1 DEF SharedUserWritable, SharedFrames

LEMMA StackPagesOf ==
  ASSUME TypeOK, NEW i \in Tables
  PROVE  StacksOf(i) \in SUBSET StackPages
BY MemoryAssumption DEF StacksOf, TypeOK

(* Every frame a process can write is a page of its own memory.            *)
LEMMA FrameOf ==
  ASSUME TypeOK, NEW i \in Tables, NEW f \in FramesOf(i)
  PROVE  \E p \in 0 .. L2_SIZE - 1 :
            /\ f = ThreadRamStart(i) + p * PAGE
            /\ p \in StacksOf(i) \cup GlobalPages
<1> DEFINE S == StacksOf(i)
<1>1. S \in SUBSET StackPages /\ i \in Nat
  BY StackPagesOf, Indices
<1>2. f \in {Walk[<<i, S, a>>].pa :
              a \in {a \in UserSection : Permitted("User", "write", Walk[<<i, S, a>>])}}
  BY <1>1 DEF FramesOf, UserFrames, Frames
<1>3. PICK a \in UserSection : f = Walk[<<i, S, a>>].pa /\ Permitted("User", "write", Walk[<<i, S, a>>])
  BY <1>2
<1>4. Walk[<<i, S, a>>] = Translate(i, S, a)
  BY <1>1 DEF Walk
<1>5. PICK p \in 0 .. L2_SIZE - 1 : a = ram_user_start + p * PAGE
  BY DEF UserSection
<1>6. Translate(i, S, a).valid
  BY <1>3, <1>4 DEF Permitted
<1> QED BY <1>1, <1>3, <1>4, <1>5, <1>6, UserWalk

(* The memory of the processes lies behind the kernel and inside the RAM.  *)
LEMMA TableInRam ==
  ASSUME NEW i \in Tables
  PROVE  /\ ThreadRamStart(i) \in Int /\ ThreadRamStart(i) >= phys_ram_user_start
         /\ ThreadRamStart(i) + L1_PAGE_SIZE <= RAM_END
<1>1. phys_ram_user_start \in Int /\ RAM_END \in Nat /\ L1_PAGE_SIZE \in Nat \ {0}
  BY UserLayout, PageSizes
<1>2. i \in Nat /\ MAX_THREADS \in Nat /\ i + 1 <= MAX_THREADS
  BY ThreadsAssumption DEF Tables
<1>3. \A n, k, m \in Nat : k + 1 <= m => n * k + n <= n * m /\ n * k >= 0
  <2> TAKE n, k, m \in Nat
  <2> HAVE k + 1 <= m
  <2> DEFINE d == m - (k + 1)
  <2>1. d \in Nat /\ m = k + 1 + d
    OBVIOUS
  <2> HIDE DEF d
  <2>2. n * m = n * k + n + n * d /\ n * d >= 0 /\ n * k >= 0
    BY <2>1
  <2>3. n * m \in Int /\ n * k \in Int /\ n * d \in Int
    BY <2>1
  <2> QED BY <2>2, <2>3
<1>4. RAM_END >= phys_ram_user_start + 4 * (L1_PAGE_SIZE * MAX_THREADS)
  BY MemoryAssumption DEF ThreadRamStart
<1>5. L1_PAGE_SIZE * i \in Nat /\ L1_PAGE_SIZE * MAX_THREADS \in Nat
      /\ L1_PAGE_SIZE * i + L1_PAGE_SIZE <= L1_PAGE_SIZE * MAX_THREADS
  BY <1>1, <1>2, <1>3
<1>6. ThreadRamStart(i) = phys_ram_user_start + 4 * (L1_PAGE_SIZE * i)
  BY DEF ThreadRamStart
<1> HIDE DEF L1_PAGE_SIZE
<1> QED BY <1>1, <1>4, <1>5, <1>6

LEMMA PagesInRam ==
  ASSUME NEW i \in Tables, NEW p \in 0 .. L2_SIZE - 1
  PROVE  LET f == ThreadRamStart(i) + p * PAGE
         IN  f >= phys_ram_user_start /\ f < RAM_END
<1>1. p * PAGE \in 0 .. L1_PAGE_SIZE - 1
  BY PageOffset
<1>2. phys_ram_user_start \in Int /\ RAM_END \in Nat /\ L1_PAGE_SIZE \in Nat \ {0}
  BY UserLayout, PageSizes
<1> QED BY <1>1, <1>2, TableInRam

LEMMA WritesIsolated == TypeOK => UserWritesIsolated
<1> SUFFICES ASSUME TypeOK PROVE UserWritesIsolated
  OBVIOUS
<1>1. \A i \in Tables : \A f \in FramesOf(i) : f >= phys_ram_user_start /\ f < RAM_END
  BY FrameOf, PagesInRam
<1>2. \A i, j \in Tables : i # j => FramesOf(i) \cap FramesOf(j) = {}
  BY FrameOf, PagesApart, Indices
<1> QED BY <1>1, <1>2, SharedReadOnly DEF UserWritesIsolated

(* In no execution do the tables let the instructions of two processes     *)
(* write the same frame, or those of one a frame of the kernel, whatever   *)
(* the sizes of pages, sections and program.                               *)
THEOREM UserWritesSeparate == MemorySpec => []UserWritesIsolated
<1>1. MemoryInit => Init
  BY DEF MemoryInit
<1>2. [MemoryNext]_memoryVars => [Next]_vars
  BY DEF MemoryNext, memoryVars
<1>3. MemorySpec => Spec
  BY <1>1, <1>2, PTL DEF MemorySpec, Spec
<1> QED BY <1>3, TypeCorrect, WritesIsolated, PTL

-----------------------------------------------------------------------------
(* The first stack pointer of a thread.                                    *)

(* ALIGN_SP rounds down to a multiple of 8, by less than 8.                *)
LEMMA AlignSp ==
  ASSUME NEW sp \in Int
  PROVE  /\ ALIGN_SP(sp) \in Int /\ ALIGN_SP(sp) % STACK_ALIGNMENT = 0
         /\ ALIGN_SP(sp) <= sp /\ sp - ALIGN_SP(sp) < STACK_ALIGNMENT
         /\ \A k \in Int : 8 * k <= sp => 8 * k <= ALIGN_SP(sp)
BY DEF ALIGN_SP, STACK_ALIGNMENT

LEMMA PageAligned ==
  ASSUME NEW p \in Int
  PROVE  /\ ram_user_start \in Int /\ p * PAGE \in Int
         /\ \E k \in Int : ram_user_start + p * PAGE = 8 * k
<1>1. PICK u \in Int : ram_user_start = L1_PAGE_SIZE * u
  BY UserLayout
<1>2. PICK m \in Int : PAGE = 8 * m
  BY AddressSpaceAssumption
<1>3. \A n, w : n \in Int /\ w \in Int => n * w \in Int
  OBVIOUS
<1>4. ((8 * m) * L2_SIZE) * u + p * (8 * m) = 8 * (m * (L2_SIZE * u) + m * p)
  BY <1>1, <1>2, PageSizes
<1>5. m * (L2_SIZE * u) + m * p \in Int
  BY <1>3, PageSizes
<1>6. ram_user_start + p * PAGE = 8 * (m * (L2_SIZE * u) + m * p)
  BY <1>1, <1>2, <1>4, PageSizes
<1>7. ram_user_start \in Int /\ p * PAGE \in Int
  BY <1>1, <1>3, PageSizes
<1> QED BY <1>5, <1>6, <1>7

LEMMA ArgumentIs ==
  ASSUME NEW i \in Int, NEW page \in Int, NEW size \in Int
  PROVE  /\ ArgumentOf(i, page, size) = ram_user_start + page * PAGE + PAGE - size
         /\ ArgumentOf(i, page, size) \in Int
<1>1. ThreadRamStart(i) \in Int
  <2>1. PICK v \in Int : ThreadRamStart(i) = L1_PAGE_SIZE * (v + 4 * i)
    BY RamStart
  <2> QED BY <2>1, PageSizes
<1>2. page * PAGE \in Int /\ PAGE \in Int /\ (page + 1) * PAGE = page * PAGE + PAGE
      /\ ram_user_start \in Int
  BY PageAligned, PageSizes
<1>3. ArgumentOf(i, page, size) =
        ThreadRamStart(i) + (page + 1) * PAGE - size - ThreadRamStart(i) + ram_user_start
  BY <1>1, <1>2 DEF ArgumentOf, phys2virt_adr, StackBase
<1> QED BY <1>1, <1>2, <1>3

LEMMA ArgumentsHold == MemoryOK => ArgumentsFit
<1> SUFFICES ASSUME MemoryOK, NEW t \in Live, NEW size \in 0 .. PAGE
             PROVE  LET page == SlotPage(stack_i[t])
                        bottom == ram_user_start + page * PAGE
                        arg == ArgumentOf(L2_table_i[t], page, size)
                        sp == StackPointerOf(L2_table_i[t], page, size)
                    IN  /\ sp % STACK_ALIGNMENT = 0
                        /\ bottom <= sp /\ sp <= arg /\ arg - sp < STACK_ALIGNMENT
                        /\ arg + size = bottom + PAGE
  BY DEF ArgumentsFit
<1> DEFINE page == SlotPage(stack_i[t])
           i == L2_table_i[t]
           bottom == ram_user_start + page * PAGE
           arg == ArgumentOf(i, page, size)
           sp == StackPointerOf(i, page, size)
<1>1. i \in Int /\ page \in Int /\ size \in Int /\ size <= PAGE /\ PAGE \in Int
  <2>1. i \in Tables /\ stack_i[t] \in Stacks
    BY DEF MemoryOK
  <2>2. page \in StackPages
    BY <2>1, MemoryAssumption
  <2>3. page \in Int
    BY <2>2, PageSizes DEF StackPages
  <2>4. i \in Int
    <3>1. \A j \in Tables : j \in Int
      BY Indices
    <3> QED BY <2>1, <3>1
  <2>5. PAGE \in Int /\ size \in Int /\ size <= PAGE
    BY PageSizes
  <2> QED BY <2>3, <2>4, <2>5
<1> HIDE DEF page, i
<1>2. arg = bottom + PAGE - size /\ arg \in Int /\ bottom \in Int
  <2>1. arg = ram_user_start + page * PAGE + PAGE - size /\ arg \in Int
    BY <1>1, ArgumentIs
  <2>2. ram_user_start \in Int /\ page * PAGE \in Int
    BY <1>1, PageAligned
  <2> QED BY <1>1, <2>1, <2>2
<1>3. sp = ALIGN_SP(arg)
  BY DEF StackPointerOf
<1>4. PICK k \in Int : bottom = 8 * k
  BY <1>1, PageAligned
<1> HIDE DEF arg, bottom, sp
<1>5. /\ sp \in Int /\ sp % STACK_ALIGNMENT = 0 /\ sp <= arg
      /\ arg - sp < STACK_ALIGNMENT /\ (8 * k <= arg => 8 * k <= sp)
  BY <1>2, <1>3, AlignSp
<1>6. bottom <= arg /\ arg + size = bottom + PAGE
  BY <1>1, <1>2
<1>7. bottom <= sp
  BY <1>4, <1>5, <1>6
<1> QED BY <1>5, <1>6, <1>7 DEF arg, bottom, sp, page, i

(* Without a wake-up into a gap every thread starts with an aligned stack  *)
(* pointer inside its own stack page and its argument above it, for every  *)
(* size of the argument up to a page.                                      *)
THEOREM StackPointersRight == CalmMemorySpec => []ArgumentsFit
<1>1. MemInv => ArgumentsFit
  BY ArgumentsHold DEF MemInv
<1> QED BY <1>1, InitMem, MemStep, CalmInit, CalmStep, CalmMemoryInit,
           CalmMemoryStep, PTL DEF CalmMemorySpec

-----------------------------------------------------------------------------
(* The kernel's own view of the memory of a process.                       *)

(* The kernel may write every page of every table, at its own address.     *)
LEMMA KernelMaps ==
  ASSUME NEW i \in Tables, NEW p \in 0 .. L2_SIZE - 1
  PROVE  LET f == ThreadRamStart(i) + p * PAGE
             tr == Translate(NoTable, {}, f)
         IN  Permitted("Kernel", "write", tr) /\ tr.pa = f
<1> DEFINE f == ThreadRamStart(i) + p * PAGE
           tr == Translate(NoTable, {}, f)
<1>1. i \in Nat
  BY Indices
<1>2. PICK v \in Int : /\ phys_ram_user_start = L1_PAGE_SIZE * v
                      /\ ThreadRamStart(i) = L1_PAGE_SIZE * (v + 4 * i)
  BY <1>1, RamStart
<1>3. PICK d \in Int : /\ d = L1_PAGE_SIZE * (v + 4 * i)
                      /\ f = d + p * PAGE /\ p * PAGE \in 0 .. L1_PAGE_SIZE - 1
  BY <1>1, <1>2, PageSizes, PageOffset
<1>4. AlignDown(f) = d /\ AlignDown(d) = d /\ f % L1_PAGE_SIZE = p * PAGE
      /\ AlignDown(phys_ram_user_start) = phys_ram_user_start
  <2>1. v + 4 * i \in Int /\ 0 \in 0 .. L1_PAGE_SIZE - 1
    BY <1>1, PageSizes
  <2>2. AlignDown(L1_PAGE_SIZE * (v + 4 * i) + 0) = d /\ AlignDown(f) = d
    BY <1>3, <2>1, AlignDownIs
  <2>3. f % L1_PAGE_SIZE = p * PAGE
    BY <1>3, <2>1, DivUnique, PageSizes
  <2>4. AlignDown(L1_PAGE_SIZE * v + 0) = phys_ram_user_start
    BY <1>2, <2>1, AlignDownIs
  <2> QED BY <1>2, <1>3, <2>2, <2>3, <2>4, PageSizes
<1>5. d >= phys_ram_user_start /\ d <= RAM_END
  <2>1. f >= phys_ram_user_start /\ f < RAM_END
    BY PagesInRam
  <2>2. d <= f
    BY <1>3
  <2>3. L1_PAGE_SIZE * v <= f => L1_PAGE_SIZE * v <= AlignDown(f)
    BY <1>3, AlignBounds
  <2> QED BY <1>2, <1>3, <1>4, <2>1, <2>2, <2>3, PageSizes
<1>6. d > ram_user_start
  BY <1>5, UserLayout, PageSizes
<1>7. /\ ~ In(d, text_kernel_start, text_kernel_end)
      /\ ~ In(d, bss_kernel_start, ram_kernel_end)
      /\ ~ In(d, orig_globals_start, orig_globals_end)
  BY <1>6, ProgramFirst, AlignBounds DEF In
<1>8. In(d, phys_ram_user_start, phys_ram_user_end)
  <2>1. d <= AlignDown(RAM_END)
    <3>1. v + 4 * i \in Int /\ RAM_END \in Int
      BY <1>1, PageSizes
    <3> QED BY <1>3, <1>5, <3>1, AlignBounds
  <2> QED BY <1>4, <1>5, <2>1 DEF In, phys_ram_user_end
<1>9. MmuEntry(d) = SectionEntry(d, 1, 1, 1)
  BY <1>7, <1>8 DEF MmuEntry, RIGHT_SYS_ONLY
<1>10. tr.valid /\ tr.right = 1 /\ tr.pa = d + p * PAGE
  <2>1. /\ tr.valid = (1 \in MmuEntry(d).bits)
        /\ tr.right = RightOf(MmuEntry(d).bits, 10, 15)
        /\ tr.pa = MmuEntry(d).adr + p * PAGE
    BY <1>4 DEF Translate
  <2>2. MmuEntry(d).adr = d /\ 1 \in MmuEntry(d).bits
    BY <1>4, <1>9 DEF SectionEntry
  <2>3. RightOf(MmuEntry(d).bits, 10, 15) = 1
    BY <1>9, SectionRight
  <2> QED BY <2>1, <2>2, <2>3
<1> QED BY <1>3, <1>10 DEF Permitted, Writable

LEMMA PageEnds ==
  ASSUME NEW i \in Tables, NEW p \in 0 .. L2_SIZE - 1
  PROVE  LET f == ThreadRamStart(i) + p * PAGE
         IN  f >= 0 /\ f + PAGE <= RAM_END
<1>1. (p + 1) * PAGE = p * PAGE + PAGE /\ p * PAGE \in Nat /\ PAGE \in Nat
  BY PageSizes, PageOffset
<1>2. p * PAGE + PAGE <= L1_PAGE_SIZE
  <2>1. \A m, n \in Nat : \A q \in 0 .. n - 1 : q * m + m <= m * n
    <3> TAKE m, n \in Nat
    <3> TAKE q \in 0 .. n - 1
    <3> DEFINE d == n - q - 1
    <3>1. d \in Nat /\ n = q + 1 + d
      OBVIOUS
    <3> HIDE DEF d
    <3>2. m * n = q * m + m + m * d /\ m * d >= 0
      BY <3>1
    <3>3. q * m \in Int /\ m * d \in Int
      BY <3>1
    <3> QED BY <3>2, <3>3
  <2> QED BY <2>1, PageSizes
<1>3. phys_ram_user_start \in Int /\ phys_ram_user_start >= 0
  <2>1. PICK u \in Int : ram_user_start = L1_PAGE_SIZE * u
                        /\ phys_ram_user_start = L1_PAGE_SIZE * (u + 1)
    BY UserLayout
  <2>2. phys_ram_user_start = ram_user_start + L1_PAGE_SIZE
    BY <2>1, PageSizes
  <2> QED BY <2>2, ProgramFirst, PageSizes
<1> HIDE DEF L1_PAGE_SIZE
<1> QED BY <1>1, <1>2, <1>3, TableInRam, PageSizes

(* Each of these pages lies in a section that all tables share.            *)
LEMMA KernelPages ==
  ASSUME NEW i \in Tables, NEW p \in 0 .. L2_SIZE - 1
  PROVE  ThreadRamStart(i) + p * PAGE \in SharedKernelWritable
<1> DEFINE f == ThreadRamStart(i) + p * PAGE
<1>1. f \in {q * PAGE : q \in 0 .. (RAM_END \div PAGE) - 1}
  <2>1. PICK q \in Int : f = PAGE * q
    <3>1. i \in Int /\ p \in Int
      BY Indices
    <3> QED BY <3>1, PageNumber
  <2>2. f >= 0 /\ f + PAGE <= RAM_END
    BY PageEnds
  <2>3. q >= 0
    <3>1. PAGE \in Nat \ {0} /\ PAGE * q >= 0
      BY <2>1, <2>2, PageSizes
    <3> QED BY <3>1
  <2>4. q + 1 <= RAM_END \div PAGE
    <3>1. PAGE * (q + 1) <= RAM_END /\ RAM_END \in Int /\ q + 1 \in Int
      BY <2>1, <2>2, PageSizes
    <3> QED BY <3>1, DivBounds, PageSizes
  <2>5. RAM_END \div PAGE \in Int
    BY PageSizes
  <2>6. q \in 0 .. (RAM_END \div PAGE) - 1 /\ f = q * PAGE
    BY <2>1, <2>3, <2>4, <2>5, PageSizes
  <2> QED BY <2>6
<1>2. f \notin UserSection
  <2> SUFFICES ASSUME NEW q \in 0 .. L2_SIZE - 1, f = ram_user_start + q * PAGE
               PROVE  FALSE
    BY DEF UserSection
  <2>1. q * PAGE \in 0 .. L1_PAGE_SIZE - 1
    BY PageOffset
  <2>2. f >= phys_ram_user_start
    BY PagesInRam
  <2>3. PICK u \in Int : ram_user_start = L1_PAGE_SIZE * u
                        /\ phys_ram_user_start = L1_PAGE_SIZE * (u + 1)
    BY UserLayout
  <2>4. phys_ram_user_start = ram_user_start + L1_PAGE_SIZE /\ ram_user_start \in Int
    BY <2>3, PageSizes
  <2> QED BY <2>1, <2>2, <2>4, PageSizes
<1> QED BY <1>1, <1>2, KernelMaps DEF SharedKernelWritable, SharedFrames, OtherSections

LEMMA KernelReachesHolds == TypeOK /\ MemoryOK => KernelReachesThreads
<1> SUFFICES ASSUME TypeOK, MemoryOK, NEW t \in Live, NEW a \in UserSection,
                    Permitted("User", "write",
                              Walk[<<L2_table_i[t], StacksOf(L2_table_i[t]), a>>])
             PROVE  LET tr == Walk[<<L2_table_i[t], StacksOf(L2_table_i[t]), a>>]
                    IN  /\ virt2phys_adr(a, L2_table_i[t]) = tr.pa
                        /\ tr.pa \in SharedKernelWritable
  BY DEF KernelReachesThreads
<1> DEFINE i == L2_table_i[t]
           S == StacksOf(i)
<1>1. i \in Tables
  BY DEF MemoryOK
<1>2. S \in SUBSET StackPages /\ i \in Nat
  BY <1>1, StackPagesOf, Indices
<1>3. Walk[<<i, S, a>>] = Translate(i, S, a)
  BY <1>1, <1>2 DEF Walk
<1>4. PICK p \in 0 .. L2_SIZE - 1 : a = ram_user_start + p * PAGE
  BY DEF UserSection
<1>5. Walk[<<i, S, a>>].pa = ThreadRamStart(i) + p * PAGE
  <2>1. Translate(i, S, a).valid
    BY <1>3 DEF Permitted
  <2> QED BY <1>2, <1>3, <1>4, <2>1, UserWalk
<1>6. virt2phys_adr(a, i) = ThreadRamStart(i) + p * PAGE
  <2>1. ThreadRamStart(i) \in Int /\ ram_user_start \in Int /\ p * PAGE \in Int
    BY <1>1, TableInRam, ProgramFirst, PageOffset
  <2> QED BY <1>4, <2>1 DEF virt2phys_adr
<1>7. ThreadRamStart(i) + p * PAGE \in SharedKernelWritable
  BY <1>1, KernelPages
<1> QED BY <1>5, <1>6, <1>7

(* Without a wake-up into a gap the kernel always reaches the memory of a  *)
(* waiting or new thread without its table: what virt2phys_adr gives for   *)
(* an address of the thread is the thread's own frame, and writable.       *)
THEOREM KernelReaches == CalmMemorySpec => []KernelReachesThreads
<1>1. CalmInv /\ MemInv => KernelReachesThreads
  BY KernelReachesHolds DEF CalmInv, TypeInv, MemInv
<1> QED BY <1>1, InitMem, MemStep, CalmInit, CalmStep, CalmMemoryInit,
           CalmMemoryStep, PTL DEF CalmMemorySpec

-----------------------------------------------------------------------------
(* Text is not writable.                                                   *)

(* A page of the user section that can be reached cannot be executed.      *)
LEMMA StacksNeverRun ==
  ASSUME TypeOK, NEW i \in Tables
  PROVE  /\ UserExecutable[<<i, StacksOf(i)>>] = {}
         /\ KernelExecutable[<<i, StacksOf(i)>>] = {}
<1> DEFINE S == StacksOf(i)
<1>1. S \in SUBSET StackPages /\ i \in Nat
  BY StackPagesOf, Indices
<1>2. ASSUME NEW a \in UserSection, NEW mode
      PROVE  ~ Permitted(mode, "fetch", Walk[<<i, S, a>>])
  <2>1. PICK p \in 0 .. L2_SIZE - 1 : a = ram_user_start + p * PAGE
    BY DEF UserSection
  <2>2. Translate(i, S, a).valid => Translate(i, S, a).xn
    BY <1>1, <2>1, UserWalk
  <2>3. Walk[<<i, S, a>>] = Translate(i, S, a)
    BY <1>1 DEF Walk
  <2> QED BY <2>2, <2>3 DEF Permitted
<1>3. ASSUME NEW mode
      PROVE  Frames(mode, "fetch")[<<i, S>>] =
               {Walk[<<i, S, a>>].pa :
                  a \in {a \in UserSection : Permitted(mode, "fetch", Walk[<<i, S, a>>])}}
  BY <1>1 DEF Frames
<1> QED BY <1>2, <1>3 DEF UserExecutable, KernelExecutable

LEMMA CodeHolds == TypeOK => CodeIsReadOnly
<1> SUFFICES ASSUME TypeOK, NEW i \in Tables
             PROVE  ExecutableFrames(i) \cap (FramesOf(i) \cup SharedKernelWritable) = {}
  BY DEF CodeIsReadOnly
<1>1. OtherSections \in SUBSET Int
  BY PageSizes DEF OtherSections
<1>2. ExecutableFrames(i) = SharedExecutable
  BY StacksNeverRun DEF ExecutableFrames
<1>3. ASSUME NEW f \in SharedExecutable
      PROVE  f \in Int /\ f < phys_ram_user_start /\ 4 \notin MmuEntry(AlignDown(f)).bits
  <2>1. PICK a \in OtherSections :
               /\ f = Translate(NoTable, {}, a).pa
               /\ \/ Permitted("User", "fetch", Translate(NoTable, {}, a))
                  \/ Permitted("Kernel", "fetch", Translate(NoTable, {}, a))
    BY DEF SharedExecutable, SharedFrames
  <2> QED BY <1>1, <2>1, TextIs
<1>4. ASSUME NEW f \in FramesOf(i)
      PROVE  f >= phys_ram_user_start
  BY FrameOf, PagesInRam
<1>5. ASSUME NEW f \in SharedKernelWritable
      PROVE  4 \in MmuEntry(AlignDown(f)).bits
  <2>1. PICK a \in OtherSections :
               /\ f = Translate(NoTable, {}, a).pa
               /\ Permitted("Kernel", "write", Translate(NoTable, {}, a))
    BY DEF SharedKernelWritable, SharedFrames
  <2> QED BY <1>1, <2>1, DataIs
<1>6. phys_ram_user_start \in Int
  BY UserLayout, PageSizes
<1> QED BY <1>2, <1>3, <1>4, <1>5, <1>6

(* In no execution can a frame be executed in one mode and written in any, *)
(* neither by the process that runs nor by the kernel.                     *)
THEOREM TextReadOnly == MemorySpec => []CodeIsReadOnly
<1>1. MemoryInit => Init
  BY DEF MemoryInit
<1>2. [MemoryNext]_memoryVars => [Next]_vars
  BY DEF MemoryNext, memoryVars
<1>3. MemorySpec => Spec
  BY <1>1, <1>2, PTL DEF MemorySpec, Spec
<1> QED BY <1>3, TypeCorrect, CodeHolds, PTL

-----------------------------------------------------------------------------
(* Guard pages.                                                            *)

LEMMA GuardsHold ==
  ASSUME PagesOf(GlobalsSize) \notin StackPages, TypeOK, MemoryOK
  PROVE  StacksGuarded
<1> SUFFICES ASSUME NEW t \in Live
             PROVE  LET page == SlotPage(stack_i[t])
                        base == ThreadRamStart(L2_table_i[t])
                    IN  /\ base + page * PAGE \in FramesOf(L2_table_i[t])
                        /\ base + (page - 1) * PAGE \notin FramesOf(L2_table_i[t])
  BY DEF StacksGuarded
<1> DEFINE i == L2_table_i[t]
           S == StacksOf(i)
           page == SlotPage(stack_i[t])
           a == ram_user_start + page * PAGE
           base == ThreadRamStart(i)
<1>1. i \in Tables /\ i \in Nat /\ S \in SUBSET StackPages
  BY StackPagesOf, Indices DEF MemoryOK
<1>2. stack_i[t] \in L2_Tables[i]
  BY DEF MemoryOK
<1>3. page \in S
  BY <1>2 DEF StacksOf
<1> HIDE DEF page
<1>4. /\ page \in 1 .. L2_SIZE - 2 /\ page % 2 = 0 /\ page \notin GlobalPages
      /\ page \in StackPages
  BY <1>1, <1>3 DEF StackPages
<1>5. page \in 0 .. L2_SIZE - 1 /\ page \in Int /\ page - 1 \in 0 .. L2_SIZE - 1
  BY <1>4, PageSizes
<1>6. base + page * PAGE \in FramesOf(i)
  <2>1. a \in UserSection
    BY <1>5 DEF UserSection
  <2>2. Walk[<<i, S, a>>] = Translate(i, S, a)
    BY <1>1, <2>1 DEF Walk
  <2>3. /\ Walk[<<i, S, a>>].valid /\ Walk[<<i, S, a>>].right = RIGHT_FULL_ACCESS
        /\ Walk[<<i, S, a>>].pa = base + page * PAGE
    BY <1>1, <1>3, <1>5, <2>2, UserWalk
  <2>4. Permitted("User", "write", Walk[<<i, S, a>>])
    BY <2>3 DEF Permitted, Writable, RIGHT_FULL_ACCESS
  <2>5. FramesOf(i) =
          {Walk[<<i, S, b>>].pa :
             b \in {b \in UserSection : Permitted("User", "write", Walk[<<i, S, b>>])}}
    BY <1>1 DEF FramesOf, UserFrames, Frames
  <2> QED BY <2>1, <2>3, <2>4, <2>5
<1>7. base + (page - 1) * PAGE \notin FramesOf(i)
  <2> SUFFICES ASSUME base + (page - 1) * PAGE \in FramesOf(i) PROVE FALSE
    OBVIOUS
  <2>1. PICK p \in 0 .. L2_SIZE - 1 : /\ base + (page - 1) * PAGE = base + p * PAGE
                                      /\ p \in S \cup GlobalPages
    BY <1>1, FrameOf
  <2>2. p = page - 1
    <3>1. (page - 1) * PAGE \in Int /\ p * PAGE \in Int /\ base \in Int
      BY <1>1, <1>5, PageOffset, TableInRam
    <3>2. \A x, y, b \in Int : b + x = b + y => x = y
      OBVIOUS
    <3>3. (page - 1) * PAGE = p * PAGE
      BY <2>1, <3>1, <3>2
    <3>4. p \in Int /\ page - 1 \in Int
      BY <1>5
    <3> QED BY <3>3, <3>4, SamePage
  <2>3. (page - 1) % 2 # 0
    <3>1. \A n \in Int : n % 2 = 0 => (n - 1) % 2 # 0
      OBVIOUS
    <3> QED BY <1>4, <1>5, <3>1
  <2>4. p \notin S
    BY <1>1, <2>2, <2>3 DEF StackPages
  <2>5. p \in GlobalPages /\ page \notin GlobalPages
    BY <1>4, <2>1, <2>4
  <2>6. PagesOf(GlobalsSize) \in Int
    BY PageSizes DEF PagesOf
  <2>7. page = PagesOf(GlobalsSize)
    BY <1>5, <2>2, <2>5, <2>6 DEF GlobalPages
  <2> QED BY <1>4, <2>7
<1> QED BY <1>6, <1>7 DEF page

(* Every live thread has its stack page and, unless the globals end right  *)
(* below the lowest stack page, a guard page below: thread.c:207 counts on *)
(* uneven pages, of which the globals must therefore take an odd number.   *)
(* The linked program has one page of globals.                             *)
THEOREM EveryStackGuarded ==
  ASSUME PagesOf(GlobalsSize) \notin StackPages
  PROVE  CalmMemorySpec => []StacksGuarded
<1>1. CalmInv /\ MemInv => StacksGuarded
  BY GuardsHold DEF CalmInv, TypeInv, MemInv
<1> QED BY <1>1, InitMem, MemStep, CalmInit, CalmStep, CalmMemoryInit,
           CalmMemoryStep, PTL DEF CalmMemorySpec
=============================================================================
