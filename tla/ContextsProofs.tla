--------------------------- MODULE ContextsProofs ---------------------------
(***************************************************************************)
(* A thread goes on with the registers it had (RegistersKept and           *)
(* ContextsKept), exit ends the thread that calls it, the scheduler        *)
(* implements Processes, and results reach their callers, for any number   *)
(* of threads, in the executions in which no character interrupts a thread *)
(* and no wake-up falls into the gap of the runqueue; the results also     *)
(* need that readers wait while nobody is ready.                           *)
(***************************************************************************)
EXTENDS SchedulerProofs, Contexts

CalmQuietNext == QuietNext /\ ~GapWake'

CalmQuietSpec == ContextsInit /\ [][CalmQuietNext]_allVars

(* What happens to the registers leaves the scheduler's own steps alone.   *)
LEMMA QuietIsCalm == [CalmQuietNext]_allVars => [CalmNext]_vars
<1> SUFFICES ASSUME [CalmQuietNext]_allVars PROVE [CalmNext]_vars
  OBVIOUS
<1>1. CASE UNCHANGED allVars
  BY <1>1 DEF allVars
<1>2. CASE CalmQuietNext
  <2>1. ContextsNext /\ ~GapWake'
    BY <1>2 DEF CalmQuietNext, QuietNext
  <2>2. Next \/ UNCHANGED vars
    BY <2>1 DEF ContextsNext, Compute, KeepContexts, FreshContext, StoreAndSleep,
       StoreAndWait, ReadAnswered, ReadBusy, DeliverCharacter, StoreThenAstray,
       DispatchContext, Next, KernelStep
  <2> QED BY <2>1, <2>2 DEF CalmNext
<1> QED BY <1>1, <1>2

-----------------------------------------------------------------------------
(* The invariant.  A thread is marked RUNNING only while its registers are *)
(* in the processor; those of every other live thread are in its thread    *)
(* control block.                                                          *)

Registers == (Threads \cup {NO}) \X Int

Frames == [regs : Registers, r0 : Registers]

CtxTypes ==
    /\ cpu \in Frames /\ context \in [Threads -> Frames]
    /\ progress \in [Threads -> Int] /\ caller \in Threads \cup {NO}

Right(t) ==
    IF state[t] = "RUNNING"
    THEN runqueue = t /\ running = t /\ cpu.regs = <<t, progress[t]>>
    ELSE state[t] # "TERMINATED" => context[t].regs = <<t, progress[t]>>

(* Nobody is interrupted by a delivery: while runqueue is set and the idle *)
(* loop runs, before the first dispatch, no thread can wait.               *)
CtxInv ==
    /\ CtxTypes
    /\ \A t \in Threads : Right(t)
    /\ kpc = "user" /\ running # NO => state[running] = "RUNNING"
    /\ kpc = "user" /\ running = NO /\ runqueue # NO => char_thread = NO

LEMMA FrameType ==
  ASSUME NEW t \in Threads \cup {NO}, NEW n \in Int
  PROVE  At(t, n) \in Frames /\ At(t, n).regs = <<t, n>>
BY DEF At, Frames, Registers

LEMMA ResultType ==
  ASSUME NEW f \in Frames, NEW t \in Threads \cup {NO}
  PROVE  /\ [f EXCEPT !.r0 = <<t, RESULT>>] \in Frames
         /\ [f EXCEPT !.r0 = <<t, RESULT>>].regs = f.regs
BY DEF Frames, Registers, RESULT

LEMMA InitCtx == ContextsInit => CtxInv
<1> SUFFICES ASSUME ContextsInit PROVE CtxInv
  OBVIOUS
<1>1. /\ cpu = At(NO, 0)
      /\ context = [t \in Threads |-> At(IF t = 0 THEN 0 ELSE NO, 0)]
      /\ caller = NO /\ progress = [t \in Threads |-> 0]
      /\ state = [t \in Threads |-> IF t = 0 THEN "READY" ELSE "TERMINATED"]
      /\ running = NO /\ char_thread = NO
  BY DEF ContextsInit, Init
<1>2. 0 \in Threads
  BY Indices
<1>3. CtxTypes
  BY <1>1, <1>2, FrameType DEF CtxTypes
<1>4. \A t \in Threads : Right(t)
  BY <1>1, <1>2, FrameType DEF Right
<1> QED BY <1>1, <1>3, <1>4 DEF CtxInv

(* In user mode the processor runs the thread runqueue points to.          *)
LEMMA CallerLoaded ==
  ASSUME CalmInv, CtxInv, kpc = "user", running # NO
  PROVE  /\ running \in Threads /\ runqueue = running
         /\ state[running] = "RUNNING" /\ cpu.regs = <<running, progress[running]>>
<1>1. running \in Threads
  BY DEF CalmInv, TypeInv, TypeOK
<1> QED BY <1>1 DEF CtxInv, Right

(* A step that changes neither states nor registers.                       *)
LEMMA CtxKept ==
  ASSUME CtxInv, UNCHANGED <<state, runqueue, running, context, progress, char_thread>>,
         CtxTypes', cpu'.regs = cpu.regs, kpc' = "user" => kpc = "user"
  PROVE  CtxInv'
BY DEF CtxInv, Right

-----------------------------------------------------------------------------
(* One lemma per kind of step.                                             *)

LEMMA ComputeCtx ==
  ASSUME CalmInv, CtxInv, Compute
  PROVE  CtxInv'
<1>1. /\ running \in Threads /\ runqueue = running /\ state[running] = "RUNNING"
      /\ cpu.regs = <<running, progress[running]>> /\ kpc = "user" /\ running # NO
  BY CallerLoaded DEF Compute
<1> DEFINE n == (progress[running] + 1) % Steps
<1>2. n \in Int
  BY <1>1, ContextsAssumption DEF CtxInv, CtxTypes
<1>3. /\ cpu' = At(running, n) /\ progress' = [progress EXCEPT ![running] = n]
      /\ UNCHANGED <<state, runqueue, running, kpc, char_thread, context, caller>>
  <2>1. cpu.regs[1] = running /\ cpu.regs[2] = progress[running]
    BY <1>1
  <2>2. progress' = [progress EXCEPT ![running] = n]
    BY DEF Compute
  <2>3. UNCHANGED <<state, runqueue, running, kpc, char_thread, context, caller>>
    BY DEF Compute, vars, tcbVars, ringVars
  <2> QED BY <2>1, <2>2, <2>3 DEF Compute
<1> HIDE DEF n
<1>4. CtxTypes'
  BY <1>1, <1>2, <1>3, FrameType DEF CtxInv, CtxTypes
<1>5. ASSUME NEW t \in Threads PROVE Right(t)'
  <2>1. CASE t = running
    BY <1>1, <1>2, <1>3, <2>1, FrameType DEF CtxInv, CtxTypes, Right
  <2>2. CASE t # running
    BY <1>1, <1>2, <1>3, <2>2 DEF CtxInv, CtxTypes, Right
  <2> QED BY <2>1, <2>2
<1> QED BY <1>1, <1>3, <1>4, <1>5 DEF CtxInv

LEMMA KeepCtx ==
  ASSUME CalmInv, CtxInv, KeepContexts
  PROVE  CtxInv'
<1>1. UNCHANGED <<cpu, context, caller, progress>> /\ CtxTypes'
  BY DEF KeepContexts, ctxVars, CtxInv, CtxTypes
<1>2. CASE Exit \/ Fault
  <2>1. runqueue \in Threads /\ runqueue # NO
    BY <1>2, CallerRuns DEF Exit, Fault
  <2>2. CASE UNCHANGED <<state, runqueue, running, char_thread>> /\ kpc' # "user"
    BY <1>1, <2>2, CtxKept
  <2>3. CASE /\ state' = [state EXCEPT ![runqueue] = "TERMINATED"]
             /\ kpc' = "wake"
    <3>1. ASSUME NEW t \in Threads PROVE Right(t)'
      <4>1. CASE t = runqueue
        BY <2>1, <2>3, <4>1 DEF CalmInv, TypeInv, TypeOK, Right
      <4>2. CASE t # runqueue
        BY <1>1, <2>1, <2>3, <4>2 DEF CalmInv, TypeInv, TypeOK, CtxInv, Right
      <4> QED BY <4>1, <4>2
    <3> QED BY <1>1, <2>3, <3>1 DEF CtxInv
  <2> QED BY <1>2, <2>2, <2>3 DEF Exit, Fault, TerminateCurrent, EnterScheduler,
             tcbVars, ringVars
<1>3. CASE ReadAstray \/ TimerIrq \/ Tick \/ SkipTcb
           \/ \E c \in Chars : UartStore(c) \/ UartFatal(c)
  <2>1. UNCHANGED <<state, runqueue, running, char_thread>>
        /\ (kpc' = "user" => kpc = "user")
    BY <1>3 DEF ReadAstray, GoesAstray, TimerIrq, Tick, SkipTcb, UartStore, UartFatal,
       EnterScheduler, tcbVars, ringVars
  <2> QED BY <1>1, <2>1, CtxKept
<1>4. CASE WakeTcb
  <2>1. tcb \in Threads /\ tcb \in Waiting
    BY <1>4, Cursor DEF WakeTcb
  <2>2. /\ state' = [state EXCEPT ![tcb] = "READY"] /\ AddToRunqueue(tcb)
        /\ running' = running /\ kpc' = "wake"
    BY <1>4 DEF WakeTcb
  <2>3. runqueue' = (IF runqueue = NO THEN tcb ELSE runqueue)
    BY <2>2 DEF AddToRunqueue
  <2>4. ASSUME NEW t \in Threads PROVE Right(t)'
    <3>1. CASE t = tcb
      BY <1>1, <2>1, <2>2, <3>1 DEF Waiting, CalmInv, TypeInv, TypeOK, CtxInv, Right
    <3>2. CASE t # tcb
      BY <1>1, <2>1, <2>2, <2>3, <3>2, Indices
         DEF CalmInv, TypeInv, TypeOK, CtxInv, Right
    <3> QED BY <3>1, <3>2
  <2> QED BY <1>1, <2>2, <2>4 DEF CtxInv
<1> QED BY <1>2, <1>3, <1>4 DEF KeepContexts

LEMMA FreshCtx ==
  ASSUME CalmInv, CtxInv, FreshContext
  PROVE  CtxInv'
<1> DEFINE t == Min(FreeTcbs)
<1>1. t \in Threads /\ state[t] = "TERMINATED"
  <2>1. FreeTcbs # {} /\ FreeTcbs \in SUBSET Threads
    BY DEF FreshContext, CreateProcess, CreateThread, FreeTcbs
  <2> QED BY <2>1, ThreadSets DEF FreeTcbs
<1>2. /\ runqueue \in Runnable /\ runqueue \in Threads /\ runqueue # NO
      /\ kpc = "user" /\ running # NO
  BY CallerRuns DEF FreshContext, CreateProcess, CreateThread, InSyscall
<1>3. /\ UNCHANGED <<running, char_thread>>
      /\ \/ UNCHANGED <<state, runqueue>>
         \/ /\ state' = [state EXCEPT ![t] = "READY"] /\ AddToRunqueue(t)
            /\ kpc' = "wake"
  BY DEF FreshContext, CreateProcess, CreateThread, StartThread, EnterScheduler,
     tcbVars, ringVars
<1> HIDE DEF t
<1>4. CASE UNCHANGED <<state, runqueue>>
  <2>1. UNCHANGED <<cpu, context, caller, progress>>
    BY <1>1, <1>4 DEF FreshContext, t
  <2> QED BY <1>2, <1>3, <1>4, <2>1, CtxKept DEF CtxInv, CtxTypes
<1>5. CASE /\ state' = [state EXCEPT ![t] = "READY"] /\ AddToRunqueue(t)
           /\ kpc' = "wake"
  <2>1. state'[t] = "READY" /\ t # runqueue /\ runqueue' = runqueue
    BY <1>1, <1>2, <1>5 DEF AddToRunqueue, Runnable, CalmInv, TypeInv, TypeOK
  <2>2. /\ context' = [context EXCEPT ![t] = At(t, 0)]
        /\ progress' = [progress EXCEPT ![t] = 0] /\ UNCHANGED <<cpu, caller>>
    BY <2>1 DEF FreshContext, t
  <2>3. At(t, 0) \in Frames /\ At(t, 0).regs = <<t, 0>>
    BY <1>1, FrameType
  <2>4. CtxTypes'
    BY <1>1, <2>2, <2>3 DEF CtxInv, CtxTypes
  <2>5. ASSUME NEW u \in Threads PROVE Right(u)'
    <3>1. CASE u = t
      BY <1>1, <2>1, <2>2, <2>3, <3>1 DEF CtxInv, CtxTypes, Right
    <3>2. CASE u # t
      BY <1>1, <1>3, <1>5, <2>1, <2>2, <3>2
         DEF CalmInv, TypeInv, TypeOK, CtxInv, CtxTypes, Right
    <3> QED BY <3>1, <3>2
  <2> QED BY <1>5, <2>4, <2>5 DEF CtxInv
<1> QED BY <1>3, <1>4, <1>5

LEMMA WaitCtx ==
  ASSUME CalmInv, CtxInv, StoreAndWait \/ \E n \in 1 .. MaxSleep : StoreAndSleep(n)
  PROVE  CtxInv'
<1>1. /\ runqueue \in Threads /\ runqueue # NO /\ kpc = "user" /\ running # NO
  BY CallerRuns DEF StoreAndWait, StoreAndSleep, ReadWait, Sleep, InSyscall
<1>2. runqueue = running /\ cpu.regs = <<running, progress[running]>>
  BY <1>1, CallerLoaded
<1>3. /\ state' = [state EXCEPT ![runqueue] = "WAITING"]
      /\ UNCHANGED <<running, cpu, progress>> /\ kpc' = "wake"
      /\ context' = [context EXCEPT ![runqueue] = cpu]
      /\ caller' \in {caller, running}
  BY <1>1 DEF StoreAndWait, StoreAndSleep, ReadWait, Sleep, EnterScheduler, Store
<1>4. CtxTypes'
  BY <1>1, <1>2, <1>3 DEF CtxInv, CtxTypes
<1>5. ASSUME NEW t \in Threads PROVE Right(t)'
  <2>1. CASE t = runqueue
    BY <1>1, <1>2, <1>3, <2>1 DEF CalmInv, TypeInv, TypeOK, CtxInv, CtxTypes, Right
  <2>2. CASE t # runqueue
    BY <1>1, <1>3, <2>2 DEF CalmInv, TypeInv, TypeOK, CtxInv, CtxTypes, Right
  <2> QED BY <2>1, <2>2
<1> QED BY <1>3, <1>4, <1>5 DEF CtxInv

LEMMA AnswerCtx ==
  ASSUME CalmInv, CtxInv, ReadAnswered \/ ReadBusy
  PROVE  CtxInv'
<1>1. /\ UNCHANGED <<state, runqueue, running, char_thread, kpc>>
      /\ UNCHANGED <<context, caller, progress>>
      /\ cpu' = [cpu EXCEPT !.r0 = <<running, RESULT>>]
  BY DEF ReadAnswered, ReadBusy, AnswerCaller, ReadBuffered, vars, tcbVars, ringVars
<1>2. running \in Threads \cup {NO}
  BY DEF CalmInv, TypeInv, TypeOK
<1>3. cpu' \in Frames /\ cpu'.regs = cpu.regs
  BY <1>1, <1>2, ResultType DEF CtxInv, CtxTypes
<1> QED BY <1>1, <1>3, CtxKept DEF CtxInv, CtxTypes

(* A delivery that finds the processor idle.                               *)
LEMMA DeliverCtx ==
  ASSUME CalmInv, CtxInv, running = NO, NEW c \in Chars, DeliverCharacter(c)
  PROVE  CtxInv'
<1>1. kpc = "user" /\ char_thread # NO /\ runqueue = NO
  BY DEF DeliverCharacter, UartDeliver, CtxInv
<1>2. char_thread \in Threads /\ char_thread \in Waiting
  BY <1>1, Kinds DEF CalmInv, RunInv, WaitersOK
<1>3. /\ state' = [t \in Threads |-> IF t = char_thread THEN "RUNNING"
                                     ELSE IF t = runqueue THEN "READY" ELSE state[t]]
      /\ runqueue' = char_thread /\ running' = char_thread /\ char_thread' = NO
  BY <1>1 DEF DeliverCharacter, UartDeliver, AddToRunqueue, LoadContext
<1> DEFINE f == [context[char_thread] EXCEPT !.r0 = <<char_thread, RESULT>>]
<1>4. /\ context' = [context EXCEPT ![char_thread] = f]
      /\ cpu' = context'[char_thread] /\ UNCHANGED <<caller, progress>>
  BY <1>1 DEF DeliverCharacter, Store
<1>5. f \in Frames /\ f.regs = context[char_thread].regs
  BY <1>2, ResultType DEF CtxInv, CtxTypes
<1> HIDE DEF f
<1>6. cpu' = f /\ CtxTypes'
  BY <1>2, <1>4, <1>5 DEF CtxInv, CtxTypes
<1>7. ASSUME NEW t \in Threads PROVE Right(t)'
  <2>1. CASE t = char_thread
    BY <1>2, <1>3, <1>4, <1>5, <1>6, <2>1 DEF Waiting, CtxInv, Right
  <2>2. CASE t # char_thread
    BY <1>1, <1>2, <1>3, <1>4, <2>2, Indices DEF CtxInv, CtxTypes, Right
  <2> QED BY <2>1, <2>2
<1> QED BY <1>2, <1>3, <1>6, <1>7 DEF CtxInv

(* The delivery that ends the system: a thread it interrupts is stored.    *)
LEMMA AstrayStores ==
  ASSUME CalmInv, CtxInv, NEW c \in Chars, StoreThenAstray(c)
  PROVE  /\ kpc' # "user" /\ UNCHANGED <<runqueue, running, cpu, caller, progress, last>>
         /\ context' \in [Threads -> Frames]
         /\ \A t \in Threads :
              \/ state'[t] = state[t] /\ context'[t] = context[t]
              \/ state[t] = "RUNNING" /\ state'[t] = "READY" /\ context'[t] = cpu
<1>1. /\ kpc = "user" /\ kpc' # "user" /\ char_thread # NO
      /\ UNCHANGED <<runqueue, running, cpu, caller, progress, last>>
      /\ context' = Store
      /\ state' = [t \in Threads |-> IF t = runqueue THEN "READY" ELSE state[t]]
  BY DEF StoreThenAstray, DeliverAstray, GoesAstray, ringVars
<1>2. CASE runqueue = NO
  BY <1>1, <1>2, Indices DEF Store, CtxInv, CtxTypes
<1>3. CASE runqueue # NO
  <2>1. running # NO
    BY <1>1, <1>3 DEF CtxInv
  <2>2. runqueue \in Threads /\ state[runqueue] = "RUNNING"
    BY <1>1, <2>1, CallerLoaded
  <2>3. context' = [context EXCEPT ![runqueue] = cpu]
    BY <1>1, <1>3 DEF Store
  <2> QED BY <1>1, <2>2, <2>3 DEF CtxInv, CtxTypes
<1> QED BY <1>2, <1>3

LEMMA AstrayCtx ==
  ASSUME CalmInv, CtxInv, NEW c \in Chars, StoreThenAstray(c)
  PROVE  CtxInv'
<1>1. /\ kpc' # "user" /\ UNCHANGED <<runqueue, running, cpu, caller, progress>>
      /\ context' \in [Threads -> Frames]
      /\ \A t \in Threads :
           \/ state'[t] = state[t] /\ context'[t] = context[t]
           \/ state[t] = "RUNNING" /\ state'[t] = "READY" /\ context'[t] = cpu
  BY AstrayStores
<1>2. CtxTypes'
  BY <1>1 DEF CtxInv, CtxTypes
<1>3. ASSUME NEW t \in Threads PROVE Right(t)'
  BY <1>1 DEF CtxInv, Right
<1> QED BY <1>1, <1>2, <1>3 DEF CtxInv

(* The registers after scheduler(), without the result of a read.          *)
LEMMA FrameKept ==
  ASSUME CtxInv, DispatchContext, NEW f \in Frames,
         cpu' = IF caller = NO THEN f ELSE [f EXCEPT !.r0 = <<caller, RESULT>>]
  PROVE  cpu' \in Frames /\ cpu'.regs = f.regs
BY ResultType DEF CtxInv, CtxTypes

LEMMA DispatchCtx ==
  ASSUME CalmInv, CtxInv, DispatchContext
  PROVE  CtxInv'
<1>1. /\ Dispatch /\ caller' = NO /\ UNCHANGED <<progress, char_thread>>
      /\ runqueue \in Threads \cup {NO} /\ running \in Threads \cup {NO}
  BY DEF DispatchContext, Dispatch, CalmInv, TypeInv, TypeOK
<1>2. CASE DispatchIdle
  <2> DEFINE f == [cpu EXCEPT !.regs = <<NO, 0>>]
  <2>1. runqueue = NO /\ running' = NO /\ UNCHANGED <<state, runqueue, context>>
    BY <1>2 DEF DispatchIdle, DispatchContext
  <2>2. f \in Frames /\ cpu' = IF caller = NO THEN f ELSE [f EXCEPT !.r0 = <<caller, RESULT>>]
    BY <2>1 DEF DispatchContext, SwitchFrame, CtxInv, CtxTypes, Frames, Registers
  <2> HIDE DEF f
  <2>3. CtxTypes'
    BY <1>1, <2>1, <2>2, FrameKept DEF CtxInv, CtxTypes
  <2>4. \A t \in Threads : state[t] # "RUNNING"
    BY <2>1, Indices DEF CtxInv, Right
  <2> QED BY <1>1, <2>1, <2>3, <2>4 DEF CtxInv, Right
<1>3. CASE DispatchNext
  <2> DEFINE to == next[runqueue]
             f == context'[to]
  <2>1. runqueue # NO /\ runqueue \in Threads /\ SwitchWanted /\ to \in Runnable /\ to \in Threads
    BY <1>1, <1>3, Kinds DEF DispatchNext, AfterWake, CalmInv, RunInv, RunqueueOK, RingOn
  <2>2. /\ state' = [t \in Threads |-> IF t = to THEN "RUNNING"
                                       ELSE IF t = runqueue /\ state[t] = "RUNNING"
                                            THEN "READY" ELSE state[t]]
        /\ runqueue' = to /\ running' = to
    BY <1>3 DEF DispatchNext, LoadContext
  <2>3. context' = IF state[runqueue] = "RUNNING" THEN [context EXCEPT ![runqueue] = cpu]
                   ELSE context
    BY <2>1 DEF DispatchContext, StoreIfRunning, Store
  <2>4. context' \in [Threads -> Frames] /\ f \in Frames
    BY <2>1, <2>3 DEF CtxInv, CtxTypes
  <2>5. cpu' = IF caller = NO THEN f ELSE [f EXCEPT !.r0 = <<caller, RESULT>>]
    BY <2>1 DEF DispatchContext, SwitchFrame
  <2>6. cpu' \in Frames /\ cpu'.regs = f.regs
    BY <2>4, <2>5, FrameKept
  <2>7. ASSUME NEW t \in Threads, state[t] # "TERMINATED"
        PROVE  context'[t].regs = <<t, progress[t]>>
    <3>1. CASE state[t] = "RUNNING"
      BY <2>1, <2>3, <3>1 DEF CtxInv, CtxTypes, Right
    <3>2. CASE state[t] # "RUNNING"
      BY <2>1, <2>3, <2>7, <3>2 DEF CtxInv, CtxTypes, Right
    <3> QED BY <3>1, <3>2
  <2>8. state[to] # "TERMINATED"
    BY <2>1 DEF Runnable
  <2> HIDE DEF to
  <2>9. ASSUME NEW t \in Threads PROVE Right(t)'
    <3>1. CASE t = to
      BY <1>1, <2>1, <2>2, <2>6, <2>7, <2>8, <3>1 DEF Right
    <3>2. CASE t # to /\ state[t] # "TERMINATED"
      <4>1. state'[t] # "RUNNING"
        BY <2>2, <3>2 DEF CtxInv, Right
      <4> QED BY <1>1, <2>7, <3>2, <4>1 DEF Right
    <3>3. CASE t # to /\ state[t] = "TERMINATED"
      BY <2>2, <3>3 DEF Right
    <3> QED BY <3>1, <3>2, <3>3
  <2>10. CtxTypes'
    BY <1>1, <2>4, <2>6 DEF CtxInv, CtxTypes
  <2> QED BY <2>1, <2>2, <2>9, <2>10, Indices DEF CtxInv
<1>4. CASE DispatchSame
  <2>1. /\ runqueue # NO /\ next[runqueue] = runqueue /\ state[runqueue] # "READY"
        /\ ~SwitchWanted /\ UNCHANGED <<state, runqueue, running>>
    BY <1>4 DEF DispatchSame, AfterWake, SwitchWanted
  <2>2. runqueue \in Threads /\ state[runqueue] = "RUNNING"
    BY <1>1, <2>1 DEF CalmInv, RunInv, RunqueueOK, Runnable
  <2>3. running = runqueue /\ cpu \in Frames
    BY <2>2 DEF CtxInv, CtxTypes, Right
  <2>4. /\ UNCHANGED context
        /\ cpu' = IF caller = NO THEN cpu ELSE [cpu EXCEPT !.r0 = <<caller, RESULT>>]
    BY <2>1 DEF DispatchContext, SwitchFrame
  <2>5. cpu' \in Frames /\ cpu'.regs = cpu.regs
    BY <2>3, <2>4, FrameKept
  <2>6. CtxTypes'
    BY <1>1, <2>4, <2>5 DEF CtxInv, CtxTypes
  <2> QED BY <1>1, <2>1, <2>2, <2>3, <2>4, <2>5, <2>6 DEF CtxInv, Right
<1> QED BY <1>1, <1>2, <1>3, <1>4 DEF Dispatch

LEMMA CtxStep == CalmInv /\ CtxInv /\ [CalmQuietNext]_allVars => CtxInv'
<1> SUFFICES ASSUME CalmInv, CtxInv, [CalmQuietNext]_allVars PROVE CtxInv'
  OBVIOUS
<1>1. CASE UNCHANGED allVars
  BY <1>1, CtxKept DEF allVars, ctxVars, vars, tcbVars, ringVars, CtxInv, CtxTypes
<1>2. CASE CalmQuietNext
  <2>1. ContextsNext
    BY <1>2 DEF CalmQuietNext, QuietNext
  <2>2. ASSUME NEW c \in Chars, DeliverCharacter(c) PROVE CtxInv'
    <3>1. UartDeliver(c)
      BY <2>2 DEF DeliverCharacter
    <3>2. running = NO
      BY <1>2, <3>1 DEF CalmQuietNext, QuietNext
    <3> QED BY <2>2, <3>2, DeliverCtx
  <2> QED BY <2>1, <2>2, ComputeCtx, KeepCtx, FreshCtx, WaitCtx, AnswerCtx,
             AstrayCtx, DispatchCtx DEF ContextsNext
<1> QED BY <1>1, <1>2

(* thread.c:348 "store context", thread.c:356 "load new context": for any  *)
(* number of threads, a thread goes on with the registers it had, as long  *)
(* as no character interrupts a thread and no wake-up falls into a gap.    *)
THEOREM RegistersCorrect == CalmQuietSpec => []RegistersKept
<1>1. CalmInv /\ CtxInv => RegistersKept
  BY CallerLoaded DEF RegistersKept, InUserMode
<1>2. ContextsInit => Init
  BY DEF ContextsInit
<1> QED BY <1>1, <1>2, InitCtx, CtxStep, CalmInit, CalmStep, QuietIsCalm,
           PTL DEF CalmQuietSpec

(* Under the same condition every live thread that is not running can be   *)
(* resumed from its thread control block.                                  *)
THEOREM ContextsCorrect == CalmQuietSpec => []ContextsKept
<1>1. CalmInv /\ CtxInv => ContextsKept
  <2> SUFFICES ASSUME CtxInv, NEW t \in Threads \ {running},
                      state[t] # "TERMINATED"
               PROVE  context[t].regs = <<t, progress[t]>>
    BY DEF ContextsKept
  <2> QED BY DEF CtxInv, Right
<1>2. ContextsInit => Init
  BY DEF ContextsInit
<1> QED BY <1>1, <1>2, InitCtx, CtxStep, CalmInit, CalmStep, QuietIsCalm,
           PTL DEF CalmQuietSpec

(* sys.h:15-17, "Removes the current thread from the scheduler": under the *)
(* same condition the thread that calls exit is the one that ends.         *)
THEOREM CallerEnds == CalmQuietSpec => ExitEndsCaller
<1> DEFINE I == CalmInv /\ MemInv /\ CtxInv
<1>1. I /\ Exit => state'[running] = "TERMINATED"
  <2> SUFFICES ASSUME I, Exit PROVE state'[running] = "TERMINATED"
    OBVIOUS
  <2>1. /\ running \in Threads /\ runqueue = running /\ state[running] = "RUNNING"
    BY CallerLoaded DEF Exit, InSyscall
  <2>2. L2_table_i[runqueue] \in Tables /\ stack_i[runqueue] \in Stacks
    BY <2>1 DEF MemInv, MemoryOK, Live
  <2>3. L2_table_i[runqueue] # NO /\ stack_i[runqueue] # NO
    BY <2>2, Indices
  <2>4. state' = [state EXCEPT ![runqueue] = "TERMINATED"]
    BY <2>3 DEF Exit, TerminateCurrent
  <2> QED BY <2>1, <2>4 DEF CalmInv, TypeInv, TypeOK
<1>2. ContextsInit => I
  BY InitCtx, InitMem, CalmInit DEF ContextsInit
<1>3. I /\ [CalmQuietNext]_allVars => I'
  BY CtxStep, MemStep, CalmStep, QuietIsCalm
<1>4. I /\ [CalmQuietNext]_allVars => [Exit => state'[running] = "TERMINATED"]_vars
  BY <1>1
<1> HIDE DEF I
<1> QED BY <1>2, <1>3, <1>4, PTL DEF CalmQuietSpec, ExitEndsCaller

-----------------------------------------------------------------------------
(* The results of the calls.  handle_read_char writes its result to the    *)
(* frame after scheduler() has filled it: to the right registers only if   *)
(* the processor idles by then.                                            *)

ReadersWaitAlone == caller # NO => runqueue = NO

(* r0 of thread t, where its registers are.                                *)
RightResult(t) ==
    last[t] # "call" =>
        IF state[t] = "RUNNING" THEN cpu.r0 = Result(t)
        ELSE state[t] # "TERMINATED" => context[t].r0 = Result(t)

ResInv ==
    /\ last \in [Threads -> {"step", "call", "result"}]
    /\ \A t \in Threads : RightResult(t)

(* A step that leaves the registers alone and makes no thread RUNNING.     *)
LEMMA ResKept ==
  ASSUME ResInv, UNCHANGED <<cpu, context, progress, last>>,
         \A t \in Threads : state'[t] \in {state[t], "TERMINATED"}
                            \/ (state[t] = "WAITING" /\ state'[t] = "READY")
  PROVE  ResInv'
<1>1. ASSUME NEW t \in Threads PROVE RightResult(t)'
  BY DEF ResInv, RightResult, Result
<1> QED BY <1>1 DEF ResInv

LEMMA InitRes == ContextsInit => ResInv
<1> SUFFICES ASSUME ContextsInit PROVE ResInv
  OBVIOUS
<1>1. /\ context = [t \in Threads |-> At(IF t = 0 THEN 0 ELSE NO, 0)]
      /\ progress = [t \in Threads |-> 0] /\ last = [t \in Threads |-> "step"]
      /\ state = [t \in Threads |-> IF t = 0 THEN "READY" ELSE "TERMINATED"]
  BY DEF ContextsInit, Init
<1> QED BY <1>1 DEF ResInv, RightResult, Result, At

LEMMA ComputeRes ==
  ASSUME CalmInv, CtxInv, ResInv, Compute
  PROVE  ResInv'
<1>1. /\ running \in Threads /\ state[running] = "RUNNING"
      /\ cpu.regs = <<running, progress[running]>>
  BY CallerLoaded DEF Compute
<1> DEFINE n == (progress[running] + 1) % Steps
<1>2. /\ cpu' = At(running, n) /\ progress' = [progress EXCEPT ![running] = n]
      /\ last' = [last EXCEPT ![running] = "step"] /\ UNCHANGED <<state, context>>
  <2>1. cpu.regs[1] = running /\ cpu.regs[2] = progress[running]
    BY <1>1
  <2> QED BY <2>1 DEF Compute, vars, tcbVars
<1> HIDE DEF n
<1>3. ASSUME NEW t \in Threads PROVE RightResult(t)'
  <2>1. CASE t = running
    BY <1>1, <1>2, <2>1 DEF CtxInv, CtxTypes, ResInv, RightResult, Result, At
  <2>2. CASE t # running
    BY <1>2, <2>2 DEF CtxInv, CtxTypes, Right, ResInv, RightResult, Result
  <2> QED BY <2>1, <2>2
<1> QED BY <1>2, <1>3 DEF ResInv

LEMMA KeepRes ==
  ASSUME CalmInv, CtxInv, ResInv, KeepContexts
  PROVE  ResInv'
<1>1. UNCHANGED <<cpu, context, progress, last>>
  BY DEF KeepContexts, ctxVars
<1>2. CASE Exit \/ Fault
  <2>1. runqueue \in Threads
    BY <1>2, CallerRuns DEF Exit, Fault
  <2>2. \A t \in Threads : state'[t] \in {state[t], "TERMINATED"}
    BY <1>2, <2>1 DEF Exit, Fault, TerminateCurrent, tcbVars, CalmInv, TypeInv, TypeOK
  <2> QED BY <1>1, <2>2, ResKept
<1>3. CASE ReadAstray \/ TimerIrq \/ Tick \/ SkipTcb
           \/ \E c \in Chars : UartStore(c) \/ UartFatal(c)
  <2>1. UNCHANGED state
    BY <1>3 DEF ReadAstray, TimerIrq, Tick, SkipTcb, UartStore, UartFatal,
       EnterScheduler, tcbVars
  <2> QED BY <1>1, <2>1, ResKept
<1>4. CASE WakeTcb
  <2>1. tcb \in Threads /\ state[tcb] = "WAITING"
    BY <1>4, Cursor DEF WakeTcb, Waiting
  <2>2. state' = [state EXCEPT ![tcb] = "READY"]
    BY <1>4 DEF WakeTcb
  <2>3. \A t \in Threads : state'[t] = state[t] \/ (state[t] = "WAITING" /\ state'[t] = "READY")
    BY <2>1, <2>2 DEF CalmInv, TypeInv, TypeOK
  <2> QED BY <1>1, <2>3, ResKept
<1> QED BY <1>2, <1>3, <1>4 DEF KeepContexts

LEMMA FreshRes ==
  ASSUME CalmInv, CtxInv, ResInv, FreshContext
  PROVE  ResInv'
<1> DEFINE t == Min(FreeTcbs)
<1>1. t \in Threads /\ state[t] = "TERMINATED"
  <2>1. FreeTcbs # {} /\ FreeTcbs \in SUBSET Threads
    BY DEF FreshContext, CreateProcess, CreateThread, FreeTcbs
  <2> QED BY <2>1, ThreadSets DEF FreeTcbs
<1>2. running \in Threads /\ state[running] = "RUNNING"
  BY CallerLoaded DEF FreshContext, CreateProcess, CreateThread, InSyscall
<1>3. state' = state \/ state' = [state EXCEPT ![t] = "READY"]
  BY DEF FreshContext, CreateProcess, CreateThread, StartThread, tcbVars
<1>4. /\ UNCHANGED cpu
      /\ IF state'[t] = "READY"
         THEN /\ context' = [context EXCEPT ![t] = At(t, 0)]
              /\ progress' = [progress EXCEPT ![t] = 0]
              /\ last' = [last EXCEPT ![t] = "step", ![running] = "call"]
         ELSE UNCHANGED <<context, progress, last>>
  BY DEF FreshContext
<1> HIDE DEF t
<1>5. CASE state' = state
  BY <1>1, <1>4, <1>5, ResKept
<1>6. CASE state' = [state EXCEPT ![t] = "READY"]
  <2>1. state'[t] = "READY" /\ \A u \in Threads \ {t} : state'[u] = state[u]
    BY <1>1, <1>6 DEF CalmInv, TypeInv, TypeOK
  <2>2. /\ context' = [context EXCEPT ![t] = At(t, 0)]
        /\ progress' = [progress EXCEPT ![t] = 0]
        /\ last' = [last EXCEPT ![t] = "step", ![running] = "call"]
    BY <1>4, <2>1
  <2>3. ASSUME NEW u \in Threads PROVE RightResult(u)'
    <3>1. CASE u = t
      BY <1>1, <1>2, <2>1, <2>2, <3>1
         DEF CtxInv, CtxTypes, ResInv, RightResult, Result, At
    <3>2. CASE u = running
      BY <1>1, <1>2, <2>2, <3>2 DEF ResInv, RightResult
    <3>3. CASE u # t /\ u # running
      BY <1>4, <2>1, <2>2, <3>3 DEF CtxInv, CtxTypes, ResInv, RightResult, Result
    <3> QED BY <3>1, <3>2, <3>3
  <2> QED BY <1>1, <1>2, <2>2, <2>3 DEF ResInv
<1> QED BY <1>3, <1>5, <1>6

LEMMA WaitRes ==
  ASSUME CalmInv, CtxInv, ResInv,
         StoreAndWait \/ \E n \in 1 .. MaxSleep : StoreAndSleep(n)
  PROVE  ResInv'
<1>1. running \in Threads /\ runqueue = running /\ running # NO
  BY CallerLoaded, Indices DEF StoreAndWait, StoreAndSleep, ReadWait, Sleep, InSyscall
<1>2. /\ state' = [state EXCEPT ![running] = "WAITING"]
      /\ UNCHANGED <<cpu, progress>>
      /\ context' = [context EXCEPT ![running] = cpu]
      /\ last' = [last EXCEPT ![running] = "call"]
  BY <1>1 DEF StoreAndWait, StoreAndSleep, ReadWait, Sleep, Store
<1>3. ASSUME NEW t \in Threads PROVE RightResult(t)'
  <2>1. CASE t = running
    BY <1>1, <1>2, <2>1 DEF ResInv, RightResult
  <2>2. CASE t # running
    BY <1>2, <2>2 DEF CalmInv, TypeInv, TypeOK, CtxInv, CtxTypes, ResInv, RightResult, Result
  <2> QED BY <2>1, <2>2
<1> QED BY <1>1, <1>2, <1>3 DEF ResInv

LEMMA AnswerRes ==
  ASSUME CalmInv, CtxInv, ResInv, ReadAnswered \/ ReadBusy
  PROVE  ResInv'
<1>1. running \in Threads /\ state[running] = "RUNNING"
  BY CallerLoaded DEF ReadAnswered, ReadBusy, ReadBuffered, InSyscall
<1>2. /\ UNCHANGED <<state, context, progress>>
      /\ cpu' = [cpu EXCEPT !.r0 = <<running, RESULT>>]
      /\ last' = [last EXCEPT ![running] = "result"]
  BY DEF ReadAnswered, ReadBusy, AnswerCaller, ReadBuffered, vars, tcbVars
<1>3. cpu'.r0 = <<running, RESULT>>
  BY <1>2 DEF CtxInv, CtxTypes, Frames
<1>4. ASSUME NEW t \in Threads PROVE RightResult(t)'
  <2>1. CASE t = running
    BY <1>1, <1>2, <1>3, <2>1 DEF ResInv, RightResult, Result
  <2>2. CASE t # running
    <3>1. state[t] # "RUNNING"
      BY <2>2 DEF CtxInv, Right
    <3> QED BY <1>2, <2>2, <3>1 DEF ResInv, RightResult, Result
  <2> QED BY <2>1, <2>2
<1> QED BY <1>1, <1>2, <1>4 DEF ResInv

(* A delivery that finds the processor idle puts the character into the    *)
(* reader's own registers.                                                 *)
LEMMA DeliverRes ==
  ASSUME CalmInv, CtxInv, ResInv, running = NO, NEW c \in Chars, DeliverCharacter(c)
  PROVE  ResInv'
<1>1. kpc = "user" /\ char_thread # NO /\ runqueue = NO
  BY DEF DeliverCharacter, UartDeliver, CtxInv
<1>2. char_thread \in Threads
  BY <1>1 DEF CalmInv, TypeInv, TypeOK
<1>3. state' = [t \in Threads |-> IF t = char_thread THEN "RUNNING"
                                  ELSE IF t = runqueue THEN "READY" ELSE state[t]]
  BY <1>1 DEF DeliverCharacter, UartDeliver, AddToRunqueue, LoadContext
<1> DEFINE f == [context[char_thread] EXCEPT !.r0 = <<char_thread, RESULT>>]
<1>4. /\ context' = [context EXCEPT ![char_thread] = f]
      /\ cpu' = context'[char_thread] /\ UNCHANGED progress
      /\ last' = [last EXCEPT ![char_thread] = "result"]
  BY <1>1 DEF DeliverCharacter, Store
<1>5. f.r0 = <<char_thread, RESULT>>
  BY <1>2 DEF CtxInv, CtxTypes, Frames
<1> HIDE DEF f
<1>6. cpu' = f
  BY <1>2, <1>4 DEF CtxInv, CtxTypes
<1>7. ASSUME NEW t \in Threads PROVE RightResult(t)'
  <2>1. CASE t = char_thread
    BY <1>2, <1>3, <1>4, <1>5, <1>6, <2>1 DEF ResInv, RightResult, Result
  <2>2. CASE t # char_thread
    <3>1. state[t] # "RUNNING"
      BY <1>1, Indices DEF CtxInv, Right
    <3> QED BY <1>1, <1>2, <1>3, <1>4, <2>2, <3>1, Indices
            DEF CtxInv, CtxTypes, ResInv, RightResult, Result
  <2> QED BY <2>1, <2>2
<1> QED BY <1>2, <1>4, <1>7 DEF ResInv

LEMMA AstrayRes ==
  ASSUME CalmInv, CtxInv, ResInv, NEW c \in Chars, StoreThenAstray(c)
  PROVE  ResInv'
<1>1. /\ UNCHANGED <<cpu, progress, last>>
      /\ \A t \in Threads :
           \/ state'[t] = state[t] /\ context'[t] = context[t]
           \/ state[t] = "RUNNING" /\ state'[t] = "READY" /\ context'[t] = cpu
  BY AstrayStores
<1>2. ASSUME NEW t \in Threads PROVE RightResult(t)'
  BY <1>1 DEF ResInv, RightResult, Result
<1> QED BY <1>1, <1>2 DEF ResInv

LEMMA DispatchRes ==
  ASSUME CalmInv, CtxInv, ResInv, ReadersWaitAlone, DispatchContext
  PROVE  ResInv'
<1>1. /\ Dispatch /\ UNCHANGED <<progress, last>>
      /\ runqueue \in Threads \cup {NO}
  BY DEF DispatchContext, Dispatch, CalmInv, TypeInv, TypeOK
<1>2. CASE DispatchIdle
  <2>1. runqueue = NO /\ UNCHANGED <<state, context>>
    BY <1>2 DEF DispatchIdle, DispatchContext
  <2>2. \A t \in Threads : state[t] # "RUNNING"
    BY <2>1, Indices DEF CtxInv, Right
  <2> QED BY <1>1, <2>1, <2>2 DEF ResInv, RightResult, Result
<1>3. CASE DispatchNext
  <2> DEFINE to == next[runqueue]
  <2>1. runqueue # NO /\ runqueue \in Threads /\ SwitchWanted /\ to \in Runnable /\ to \in Threads
    BY <1>1, <1>3, Kinds DEF DispatchNext, AfterWake, CalmInv, RunInv, RunqueueOK, RingOn
  <2>2. state' = [t \in Threads |-> IF t = to THEN "RUNNING"
                                    ELSE IF t = runqueue /\ state[t] = "RUNNING"
                                         THEN "READY" ELSE state[t]]
    BY <1>3 DEF DispatchNext, LoadContext
  <2>3. context' = IF state[runqueue] = "RUNNING" THEN [context EXCEPT ![runqueue] = cpu]
                   ELSE context
    BY <2>1 DEF DispatchContext, StoreIfRunning, Store
  <2>4. cpu' = context'[to]
    BY <2>1 DEF DispatchContext, SwitchFrame, ReadersWaitAlone
  <2>5. ASSUME NEW t \in Threads, state[t] # "TERMINATED", last[t] # "call"
        PROVE  context'[t].r0 = Result(t)
    <3>1. CASE state[t] = "RUNNING"
      BY <2>1, <2>3, <2>5, <3>1 DEF CtxInv, CtxTypes, Right, ResInv, RightResult
    <3>2. CASE state[t] # "RUNNING"
      BY <2>1, <2>3, <2>5, <3>2 DEF CtxInv, CtxTypes, ResInv, RightResult
    <3> QED BY <3>1, <3>2
  <2>6. state[to] # "TERMINATED"
    BY <2>1 DEF Runnable
  <2> HIDE DEF to
  <2>7. ASSUME NEW t \in Threads PROVE RightResult(t)'
    <3>1. CASE t = to
      BY <1>1, <2>1, <2>2, <2>4, <2>5, <2>6, <3>1 DEF RightResult, Result
    <3>2. CASE t # to /\ state[t] # "TERMINATED"
      <4>1. state'[t] # "RUNNING"
        BY <2>2, <3>2 DEF CtxInv, Right
      <4> QED BY <1>1, <2>5, <3>2, <4>1 DEF RightResult, Result
    <3>3. CASE t # to /\ state[t] = "TERMINATED"
      BY <2>2, <3>3 DEF RightResult
    <3> QED BY <3>1, <3>2, <3>3
  <2> QED BY <1>1, <2>7 DEF ResInv
<1>4. CASE DispatchSame
  <2>1. runqueue # NO /\ ~SwitchWanted /\ UNCHANGED state
    BY <1>4 DEF DispatchSame, AfterWake, SwitchWanted
  <2>2. UNCHANGED <<cpu, context>>
    BY <2>1 DEF DispatchContext, SwitchFrame, ReadersWaitAlone
  <2> QED BY <1>1, <2>1, <2>2, ResKept
<1> QED BY <1>1, <1>2, <1>3, <1>4 DEF Dispatch

LEMMA ResStep ==
  CalmInv /\ CtxInv /\ ResInv /\ ReadersWaitAlone /\ [CalmQuietNext]_allVars => ResInv'
<1> SUFFICES ASSUME CalmInv, CtxInv, ResInv, ReadersWaitAlone, [CalmQuietNext]_allVars
             PROVE  ResInv'
  OBVIOUS
<1>1. CASE UNCHANGED allVars
  BY <1>1, ResKept DEF allVars, ctxVars, vars, tcbVars
<1>2. CASE CalmQuietNext
  <2>1. ContextsNext
    BY <1>2 DEF CalmQuietNext, QuietNext
  <2>2. ASSUME NEW c \in Chars, DeliverCharacter(c) PROVE ResInv'
    <3>1. UartDeliver(c)
      BY <2>2 DEF DeliverCharacter
    <3>2. running = NO
      BY <1>2, <3>1 DEF CalmQuietNext, QuietNext
    <3> QED BY <2>2, <3>2, DeliverRes
  <2> QED BY <2>1, <2>2, ComputeRes, KeepRes, FreshRes, WaitRes, AnswerRes,
             AstrayRes, DispatchRes DEF ContextsNext
<1> QED BY <1>1, <1>2

(* sys.h:11-12, "Return values are written into the r0 register": each     *)
(* call's result reaches its caller, and nobody loses what it has in r0,   *)
(* if besides no thread is ready when a reader has to wait.                *)
THEOREM ResultsReachCallers == CalmQuietSpec /\ []ReadersWaitAlone => []ResultsKept
<1>1. CalmInv /\ CtxInv /\ ResInv => ResultsKept
  BY CallerLoaded DEF ResultsKept, InUserMode, ResInv, RightResult
<1>2. ContextsInit => Init
  BY DEF ContextsInit
<1> QED BY <1>1, <1>2, InitCtx, CtxStep, CalmInit, CalmStep, QuietIsCalm, InitRes,
           ResStep, PTL DEF CalmQuietSpec
-----------------------------------------------------------------------------
(* The refinement of Processes, one lemma per action of the scheduler.     *)

Turn == IF kpc = "user" THEN running ELSE KERNEL

ServedInv == CalmInv /\ MemInv /\ CtxInv

PhaseOf(t, st, reader) ==
    IF st[t] = "TERMINATED" THEN "none"
    ELSE IF st[t] # "WAITING" THEN "ready"
    ELSE IF t = reader THEN "reading" ELSE "asleep"

LEMMA PhaseIs ==
  /\ CalmInv => \A t \in Threads : Phase[t] = PhaseOf(t, state, char_thread)
  /\ CalmInv' => \A t \in Threads : Phase'[t] = PhaseOf(t, state', char_thread')
<1>1. ASSUME CalmInv, NEW t \in Threads
      PROVE  Phase[t] = PhaseOf(t, state, char_thread)
  <2>1. state[t] \in {"READY", "RUNNING", "WAITING", "TERMINATED"}
    BY <1>1 DEF CalmInv, TypeInv, TypeOK
  <2> QED BY <2>1 DEF Phase, PhaseOf
<1>2. ASSUME CalmInv', NEW t \in Threads
      PROVE  Phase'[t] = PhaseOf(t, state', char_thread')
  <2>1. state'[t] \in {"READY", "RUNNING", "WAITING", "TERMINATED"}
    BY <1>2 DEF CalmInv, TypeInv, TypeOK
  <2> QED BY <2>1 DEF Phase, PhaseOf
<1> QED BY <1>1, <1>2

(* At most the phase of thread x changes, to v.                            *)
LEMMA PhaseMoves ==
  ASSUME CalmInv, CalmInv', NEW x, NEW v,
         \A t \in Threads : PhaseOf(t, state', char_thread')
                            = IF t = x THEN v ELSE PhaseOf(t, state, char_thread)
  PROVE  Phase' = [Phase EXCEPT ![x] = v]
<1>1. \A t \in Threads : Phase'[t] = IF t = x THEN v ELSE Phase[t]
  BY PhaseIs
<1> DEFINE B(t) == CASE state[t] = "TERMINATED" -> "none"
                     [] state[t] \in {"READY", "RUNNING"} -> "ready"
                     [] state[t] = "WAITING" ->
                          IF t = char_thread THEN "reading" ELSE "asleep"
<1>2. Phase = [t \in Threads |-> B(t)]
  BY DEF Phase
<1>3. Phase' = [t \in Threads |-> B(t)']
  BY DEF Phase
<1> HIDE DEF B
<1> QED BY <1>1, <1>2, <1>3

LEMMA PhaseStays ==
  ASSUME UNCHANGED <<state, char_thread>>
  PROVE  Phase' = Phase
BY DEF Phase

LEMMA KernelIsNobody == KERNEL \notin Threads \cup {NO} /\ NO \notin Threads
BY Indices DEF KERNEL, NO

(* The thread that makes a system call is the one the processor runs.      *)
LEMMA CallerIsRunning ==
  ASSUME ServedInv, NEW call, InSyscall(call)
  PROVE  /\ runqueue = running /\ running \in Threads /\ Turn = running
         /\ kpc = "user" /\ running # char_thread /\ running \in Live
         /\ PhaseOf(running, state, char_thread) = "ready"
<1>1. /\ running \in Threads /\ runqueue = running /\ state[running] = "RUNNING"
      /\ kpc = "user"
  BY CallerLoaded DEF ServedInv, InSyscall
<1>2. running # char_thread
  BY <1>1, Indices DEF ServedInv, CalmInv, RunInv, WaitersOK, Waiting
<1> QED BY <1>1, <1>2 DEF Turn, Live, PhaseOf

LEMMA EndServed ==
  ASSUME ServedInv, CalmInv', Exit \/ Fault
  PROVE  Served!End(running)
<1>1. PICK call : InSyscall(call) /\ TerminateCurrent
  BY DEF Exit, Fault
<1>2. /\ runqueue = running /\ running \in Threads /\ Turn = running
      /\ running # char_thread /\ running \in Live
  BY <1>1, CallerIsRunning
<1>3. L2_table_i[runqueue] # NO /\ stack_i[runqueue] # NO
  BY <1>2, Indices DEF ServedInv, MemInv, MemoryOK
<1>4. /\ state' = [state EXCEPT ![running] = "TERMINATED"] /\ kpc' = "wake"
      /\ UNCHANGED <<char_thread, wake_at, L2_table_i>>
  BY <1>1, <1>2, <1>3 DEF TerminateCurrent, EnterScheduler
<1>5. \A t \in Threads : state'[t] = IF t = running THEN "TERMINATED" ELSE state[t]
  BY <1>2, <1>4 DEF ServedInv, CalmInv, TypeInv, TypeOK
<1>6. Phase' = [Phase EXCEPT ![running] = "none"]
  BY <1>4, <1>5, PhaseMoves DEF PhaseOf, ServedInv
<1> QED BY <1>2, <1>4, <1>6 DEF Served!End, Turn

(* The common tail of kthread_create, with a free stack slot.              *)
LEMMA StartServed ==
  ASSUME ServedInv, CalmInv', NEW call, InSyscall(call),
         NEW new \in FreeTcbs, NEW i \in Tables, NEW refs, NEW mapped,
         Stacks \ mapped # {}, StartThread(new, i, refs, mapped),
         i = L2_table_i[running] \/ \A u \in Live : L2_table_i[u] # i
  PROVE  Served!Create(running, new, i) \/ Served!Fail(running, new, i)
<1>1. running \in Threads /\ Turn = running
  BY CallerIsRunning
<1>2. new \in Threads /\ state[new] = "TERMINATED"
  BY DEF FreeTcbs
<1>3. Max(Stacks \ mapped) # NO
  <2>1. Stacks \ mapped \in SUBSET Stacks
    OBVIOUS
  <2> QED BY <2>1, StackSets, Indices
<1>4. /\ L2_table_i' = [L2_table_i EXCEPT ![new] = i] /\ kpc' # "user"
      /\ UNCHANGED <<char_thread, wake_at>>
      /\ state' = [state EXCEPT ![new] = "READY"] \/ UNCHANGED state
  BY <1>3 DEF StartThread, EnterScheduler, GoesAstray
<1>5. Phase[new] = "none"
  BY <1>2, PhaseIs DEF PhaseOf, ServedInv
<1>6. CASE UNCHANGED state
  BY <1>1, <1>4, <1>5, <1>6, PhaseStays DEF Served!Fail, Turn
<1>7. CASE state' = [state EXCEPT ![new] = "READY"]
  <2>1. \A t \in Threads : state'[t] = IF t = new THEN "READY" ELSE state[t]
    BY <1>2, <1>7 DEF ServedInv, CalmInv, TypeInv, TypeOK
  <2>2. \A t \in Threads : PhaseOf(t, state', char_thread')
                            = IF t = new THEN "ready" ELSE PhaseOf(t, state, char_thread)
    BY <1>4, <2>1 DEF PhaseOf
  <2>3. Phase' = [Phase EXCEPT ![new] = "ready"]
    BY <2>2, PhaseMoves DEF ServedInv
  <2>4. ASSUME NEW u \in Threads, Phase[u] # "none" PROVE u \in Live
    BY <2>4, PhaseIs DEF PhaseOf, ServedInv, Live
  <2>5. i = L2_table_i[running] \/ i \notin {L2_table_i[u] : u \in Served!Alive}
    BY <2>4 DEF Served!Alive
  <2> QED BY <1>1, <1>4, <1>5, <2>3, <2>5 DEF Served!Create, Turn
<1> QED BY <1>4, <1>6, <1>7

LEMMA CreateServed ==
  ASSUME ServedInv, CalmInv', CreateProcess \/ CreateThread
  PROVE  \E new \in Threads, i \in Tables :
            Served!Create(running, new, i) \/ Served!Fail(running, new, i)
<1>1. /\ TypeOK /\ MemoryOK /\ ~Stopped /\ FreeTcbs # {}
      /\ Min(FreeTcbs) \in FreeTcbs /\ Min(FreeTcbs) \in Threads
  <2>1. FreeTcbs # {} /\ FreeTcbs \in SUBSET Threads
    BY DEF CreateProcess, CreateThread, FreeTcbs
  <2>2. ~Stopped
    BY DEF CreateProcess, CreateThread, InSyscall, Stopped
  <2> QED BY <2>1, <2>2, ThreadSets DEF ServedInv, CalmInv, TypeInv, MemInv
<1>2. FreeTables # {} /\ \A i \in Tables : Stacks \ L2_Tables[i] # {}
  BY <1>1, NothingRunsOut
<1>3. CASE CreateProcess
  <2> DEFINE i == Min(FreeTables)
  <2>1. i \in Tables /\ L2_Table_references[i] = 0
    <3>1. FreeTables \in SUBSET Threads
      BY Indices DEF FreeTables
    <3>2. i \in FreeTables
      BY <1>2, <3>1, ThreadSets
    <3> QED BY <3>2 DEF FreeTables
  <2>2. InSyscall("process") /\ StartThread(Min(FreeTcbs), i, 1, {})
    BY <1>2, <1>3 DEF CreateProcess
  <2> HIDE DEF i
  <2>3. \A u \in Live : L2_table_i[u] # i
    <3>1. IsFiniteSet(Users(i)) /\ Cardinality(Users(i)) = 0
      BY <1>1, <2>1, UsersBook, UsersFinite
    <3>2. Users(i) = {}
      BY <3>1, FS_EmptySet
    <3> QED BY <3>2 DEF Users
  <2>4. Stacks \ {} # {}
    BY Indices
  <2> QED BY <1>1, <2>1, <2>2, <2>3, <2>4, StartServed
<1>4. CASE CreateThread
  <2> DEFINE i == L2_table_i[running]
  <2>1. InSyscall("thread") /\ runqueue = running /\ running \in Live
    BY <1>4, CallerIsRunning DEF CreateThread
  <2>2. i \in Tables /\ i # NO
    BY <1>1, <2>1, Indices DEF MemoryOK
  <2>3. StartThread(Min(FreeTcbs), i, (L2_Table_references[i] + 1) % RefLimit,
                    L2_Tables[i])
    BY <1>4, <2>1, <2>2 DEF CreateThread
  <2> QED BY <1>1, <1>2, <2>1, <2>2, <2>3, StartServed
<1> QED BY <1>3, <1>4

LEMMA SleepServed ==
  ASSUME ServedInv, CalmInv', NEW n \in 1 .. MaxSleep, Sleep(n)
  PROVE  Served!FallAsleep(running, n)
<1>1. /\ runqueue = running /\ running \in Threads /\ Turn = running
      /\ running # char_thread
  BY CallerIsRunning DEF Sleep
<1>2. /\ state' = [state EXCEPT ![running] = "WAITING"] /\ kpc' = "wake"
      /\ wake_at' = [wake_at EXCEPT ![running] = n]
      /\ UNCHANGED <<char_thread, L2_table_i>>
  BY <1>1 DEF Sleep, EnterScheduler
<1>3. \A t \in Threads : state'[t] = IF t = running THEN "WAITING" ELSE state[t]
  BY <1>1, <1>2 DEF ServedInv, CalmInv, TypeInv, TypeOK
<1>4. Phase' = [Phase EXCEPT ![running] = "asleep"]
  <2>1. \A t \in Threads : PhaseOf(t, state', char_thread')
                    = IF t = running THEN "asleep" ELSE PhaseOf(t, state, char_thread)
    BY <1>1, <1>2, <1>3 DEF PhaseOf
  <2> QED BY <2>1, PhaseMoves DEF ServedInv
<1> QED BY <1>1, <1>2, <1>4 DEF Served!FallAsleep, Turn

LEMMA WaitServed ==
  ASSUME ServedInv, CalmInv', ReadWait
  PROVE  Served!Await(running)
<1>1. /\ runqueue = running /\ running \in Threads /\ Turn = running
  BY CallerIsRunning DEF ReadWait
<1>2. /\ state' = [state EXCEPT ![running] = "WAITING"] /\ kpc' = "wake"
      /\ char_thread = NO /\ char_thread' = running
      /\ UNCHANGED <<wake_at, L2_table_i>>
  BY <1>1 DEF ReadWait, EnterScheduler
<1>3. \A t \in Threads : state'[t] = IF t = running THEN "WAITING" ELSE state[t]
  BY <1>1, <1>2 DEF ServedInv, CalmInv, TypeInv, TypeOK
<1>4. Phase' = [Phase EXCEPT ![running] = "reading"]
  BY <1>1, <1>2, <1>3, KernelIsNobody, PhaseMoves DEF PhaseOf, ServedInv
<1>5. \A u \in Threads : Phase[u] # "reading"
  BY <1>2, KernelIsNobody, PhaseIs DEF PhaseOf, ServedInv
<1> QED BY <1>1, <1>2, <1>4, <1>5 DEF Served!Await, Turn

LEMMA DeliverServed ==
  ASSUME ServedInv, CalmInv', running = NO, NEW c \in Chars, UartDeliver(c)
  PROVE  Served!Answer(char_thread) /\ char_thread \in Threads
<1>1. kpc = "user" /\ char_thread # NO /\ runqueue = NO
  BY DEF UartDeliver, ServedInv, CtxInv
<1>2. char_thread \in Threads /\ state[char_thread] = "WAITING"
  BY <1>1 DEF ServedInv, CalmInv, RunInv, WaitersOK, Waiting
<1>3. /\ state' = [t \in Threads |-> IF t = char_thread THEN "RUNNING"
                                     ELSE IF t = runqueue THEN "READY" ELSE state[t]]
      /\ running' = char_thread /\ char_thread' = NO
      /\ UNCHANGED <<kpc, wake_at, L2_table_i>>
  BY DEF UartDeliver, LoadContext
<1>4. Phase' = [Phase EXCEPT ![char_thread] = "ready"]
  BY <1>1, <1>2, <1>3, KernelIsNobody, PhaseMoves DEF PhaseOf, ServedInv
<1>5. Phase[char_thread] = "reading"
  BY <1>2, PhaseIs DEF PhaseOf, ServedInv
<1>6. Turn # KERNEL /\ Turn' = char_thread
  BY <1>1, <1>3, KernelIsNobody DEF Turn
<1> QED BY <1>2, <1>3, <1>4, <1>5, <1>6 DEF Served!Answer, Turn

LEMMA WakeServed ==
  ASSUME ServedInv, CalmInv', WakeTcb
  PROVE  Served!WakeUp(tcb) /\ tcb \in Threads
<1>1. /\ kpc = "wake" /\ kpc' = "wake" /\ wake_at[tcb] = 0
      /\ tcb \in Threads /\ tcb \in Waiting /\ tcb # char_thread
      /\ \A u \in Threads : state'[u] = IF u = tcb THEN "READY" ELSE state[u]
      /\ UNCHANGED char_thread
  BY WakeMoves DEF ServedInv
<1>2. wake_at' = [wake_at EXCEPT ![tcb] = NO] /\ UNCHANGED L2_table_i
  BY DEF WakeTcb, NEVER_SET, NO
<1>3. Phase' = [Phase EXCEPT ![tcb] = "ready"]
  BY <1>1, PhaseMoves DEF PhaseOf, ServedInv
<1>4. Phase[tcb] = "asleep"
  BY <1>1, PhaseIs DEF PhaseOf, ServedInv, Waiting
<1> QED BY <1>1, <1>2, <1>3, <1>4 DEF Served!WakeUp

LEMMA EnterServed ==
  ASSUME ServedInv, UNCHANGED <<Phase, wake_at, L2_table_i>>,
         kpc = "user", kpc' # "user"
  PROVE  Served!Enter
<1>1. running \in Threads \cup {NO}
  BY DEF ServedInv, CalmInv, TypeInv, TypeOK
<1> QED BY <1>1, KernelIsNobody DEF Served!Enter

(* A thread's pointer that leads astray ends the system.                   *)
LEMMA AstrayServed ==
  ASSUME ServedInv, ReadAstray \/ \E c \in Chars : StoreThenAstray(c)
  PROVE  Served!Enter
<1>1. /\ kpc = "user" /\ kpc' # "user" /\ UNCHANGED <<char_thread, wake_at, L2_table_i>>
      /\ \A t \in Threads : state'[t] # state[t] =>
           state[t] = "RUNNING" /\ state'[t] = "READY"
  <2>1. CASE ReadAstray
    <3>1. kpc = "user" /\ kpc' \in {"halted", "overwritten"}
      BY <2>1 DEF ReadAstray, GoesAstray, InSyscall
    <3>2. UNCHANGED <<state, char_thread, wake_at, L2_table_i>>
      BY <2>1 DEF ReadAstray, tcbVars
    <3> QED BY <3>1, <3>2
  <2>2. ASSUME NEW c \in Chars, StoreThenAstray(c)
        PROVE  /\ kpc = "user" /\ kpc' # "user"
               /\ UNCHANGED <<char_thread, wake_at, L2_table_i>>
    BY <2>2 DEF StoreThenAstray, DeliverAstray, GoesAstray
  <2>3. ASSUME NEW c \in Chars, StoreThenAstray(c)
        PROVE  \A t \in Threads : state'[t] # state[t] =>
           state[t] = "RUNNING" /\ state'[t] = "READY"
    BY <2>3, AstrayStores DEF ServedInv
  <2>4. CASE \E c \in Chars : StoreThenAstray(c)
    BY <2>2, <2>3, <2>4
  <2> QED BY <2>1, <2>4
<1> DEFINE B(t) == CASE state[t] = "TERMINATED" -> "none"
                     [] state[t] \in {"READY", "RUNNING"} -> "ready"
                     [] state[t] = "WAITING" ->
                          IF t = char_thread THEN "reading" ELSE "asleep"
<1>2. \A t \in Threads : B(t)' = B(t)
  BY <1>1 DEF ServedInv, CalmInv, TypeInv, TypeOK
<1>3. Phase = [t \in Threads |-> B(t)]
  BY DEF Phase
<1>4. Phase' = [t \in Threads |-> B(t)']
  BY DEF Phase
<1> HIDE DEF B
<1> QED BY <1>1, <1>2, <1>3, <1>4, EnterServed

LEMMA DispatchServed ==
  ASSUME ServedInv, CalmInv', Dispatch
  PROVE  Served!Idle \/ \E t \in Threads : Served!Run(t)
<1>1. /\ kpc = "wake" /\ kpc' = "user" /\ UNCHANGED <<char_thread, wake_at, L2_table_i>>
      /\ runqueue \in Threads \cup {NO}
      /\ RingOn(Runnable, next, prev) /\ (Runnable = {} <=> runqueue = NO)
      /\ runqueue # NO => runqueue \in Runnable \/ next[runqueue] \in Runnable
  BY DEF Dispatch, DispatchIdle, DispatchNext, DispatchSame, AfterWake,
         ServedInv, CalmInv, TypeInv, TypeOK, RunInv, RunqueueOK
<1>2. \A t \in Threads : Phase[t] = "ready" <=> t \in Runnable
  <2>1. \A t \in Threads : state[t] \in {"READY", "RUNNING", "WAITING", "TERMINATED"}
    BY DEF ServedInv, CalmInv, TypeInv, TypeOK
  <2> QED BY <2>1, PhaseIs DEF PhaseOf, ServedInv, Runnable
<1>3. CASE DispatchIdle
  <2>1. runqueue = NO /\ running' = NO /\ UNCHANGED state
    BY <1>3 DEF DispatchIdle
  <2> QED BY <1>1, <1>2, <2>1, PhaseStays DEF Served!Idle
<1>4. ASSUME NEW to \in Runnable, running' = to, Phase' = Phase
      PROVE  \E t \in Threads : Served!Run(t)
  <2>1. to \in Threads
    BY Kinds
  <2> QED BY <1>1, <1>2, <1>4, <2>1 DEF Served!Run
<1>5. CASE DispatchNext
  <2> DEFINE to == next[runqueue]
  <2>1. to \in Runnable
    BY <1>1, <1>5 DEF DispatchNext, RingOn
  <2>2. /\ state' = [t \in Threads |-> IF t = to THEN "RUNNING"
                                       ELSE IF t = runqueue /\ state[t] = "RUNNING"
                                            THEN "READY" ELSE state[t]]
        /\ running' = to
    BY <1>5 DEF DispatchNext, LoadContext
  <2>3. state[to] \in {"READY", "RUNNING"} /\ to \in Threads
    BY <2>1 DEF Runnable
  <2> HIDE DEF to
  <2>4. \A t \in Threads : PhaseOf(t, state', char_thread')
                            = IF t = to THEN "ready" ELSE PhaseOf(t, state, char_thread)
    BY <1>1, <2>2, <2>3 DEF PhaseOf
  <2>5. Phase' = [Phase EXCEPT ![to] = "ready"]
    BY <2>4, PhaseMoves DEF ServedInv
  <2>6. Phase[to] = "ready"
    BY <1>2, <2>1, <2>3
  <2>7. Phase' = Phase
    BY <2>5, <2>6 DEF Phase
  <2> QED BY <1>4, <2>1, <2>2, <2>7
<1>6. CASE DispatchSame
  <2>1. /\ runqueue # NO /\ next[runqueue] = runqueue /\ state[runqueue] # "READY"
        /\ UNCHANGED <<state, running>>
    BY <1>6 DEF DispatchSame, SwitchWanted
  <2>2. runqueue \in Runnable /\ runqueue \in Threads /\ state[runqueue] = "RUNNING"
    BY <1>1, <2>1 DEF Runnable
  <2>3. running' = runqueue
    BY <2>1, <2>2 DEF ServedInv, CtxInv, Right
  <2> QED BY <1>1, <1>4, <2>1, <2>2, <2>3, PhaseStays
<1> QED BY <1>3, <1>5, <1>6 DEF Dispatch
LEMMA InitServed == ContextsInit => Served!Init
<1> SUFFICES ASSUME ContextsInit PROVE Served!Init
  OBVIOUS
<1>1. /\ state = [t \in Threads |-> IF t = 0 THEN "READY" ELSE "TERMINATED"]
      /\ wake_at = [t \in Threads |-> NO] /\ L2_table_i = [t \in Threads |-> 0]
      /\ running = NO /\ kpc = "user"
  BY DEF ContextsInit, Init, NEVER_SET, NO
<1>2. L2_table_i \in [Threads -> Tables] /\ Turn = NO
  BY <1>1, Indices DEF Turn
<1>3. Phase = [t \in Threads |-> IF t = 0 THEN "ready" ELSE "none"]
  <2>1. \A t \in Threads : Phase[t] = PhaseOf(t, state, char_thread)
    BY CalmInit, PhaseIs DEF ContextsInit
  <2>2. \A t \in Threads : Phase[t] = IF t = 0 THEN "ready" ELSE "none"
    BY <1>1, <2>1 DEF PhaseOf
  <2> DEFINE B(t) == CASE state[t] = "TERMINATED" -> "none"
                       [] state[t] \in {"READY", "RUNNING"} -> "ready"
                       [] state[t] = "WAITING" ->
                            IF t = char_thread THEN "reading" ELSE "asleep"
  <2>3. Phase = [t \in Threads |-> B(t)]
    BY DEF Phase
  <2> HIDE DEF B
  <2> QED BY <2>2, <2>3
<1> QED BY <1>1, <1>2, <1>3 DEF Served!Init, Turn

(* Every step of the scheduler, and of a thread between two of them, is an *)
(* action of Processes or one that cannot be seen there.                   *)
LEMMA StepServed ==
  ASSUME ServedInv, CalmInv', [CalmQuietNext]_allVars
  PROVE  [Served!Next]_Served!processVars
<1> DEFINE Unseen == UNCHANGED <<state, char_thread, wake_at, L2_table_i, kpc>>
                     /\ (running' = running \/ kpc # "user")
<1>1. Unseen => UNCHANGED Served!processVars
  BY PhaseStays DEF Served!processVars
<1>2. CASE UNCHANGED allVars
  BY <1>1, <1>2 DEF allVars, vars, tcbVars
<1>3. ASSUME CalmQuietNext, Compute \/ ReadBusy \/ ReadAnswered
      PROVE  Unseen
  BY <1>3 DEF Compute, ReadBusy, ReadAnswered, ReadBuffered, vars, tcbVars
<1>4. CASE Exit \/ Fault
  BY <1>4, EndServed, CallerIsRunning DEF Served!Next, Exit, Fault
<1>5. CASE CreateProcess \/ CreateThread
  <2>1. running \in Threads
    BY <1>5, CallerIsRunning DEF CreateProcess, CreateThread
  <2> QED BY <1>5, <2>1, CreateServed DEF Served!Next
<1>6. ASSUME NEW n \in 1 .. MaxSleep, Sleep(n) PROVE Served!Next
  <2>1. running \in Threads
    BY <1>6, CallerIsRunning DEF Sleep
  <2> QED BY <1>6, <2>1, SleepServed DEF Served!Next
<1>7. CASE ReadWait
  <2>1. running \in Threads
    BY <1>7, CallerIsRunning DEF ReadWait
  <2> QED BY <1>7, <2>1, WaitServed DEF Served!Next
<1>8. ASSUME NEW c, UartStore(c) PROVE Unseen
  BY <1>8 DEF UartStore, tcbVars
<1>9. ASSUME CalmQuietNext, NEW c \in Chars, UartDeliver(c) PROVE Served!Next
  <2>1. running = NO
    BY <1>9 DEF CalmQuietNext, QuietNext
  <2> QED BY <1>9, <2>1, DeliverServed DEF Served!Next
<1>10. ASSUME NEW c, UartFatal(c) PROVE Served!Next
  BY <1>10, EnterServed, PhaseStays DEF UartFatal, tcbVars, Served!Next
<1>11. CASE TimerIrq
  BY <1>11, EnterServed, PhaseStays DEF TimerIrq, EnterScheduler, tcbVars, Served!Next
<1>12. CASE Tick
  <2>1. running \in Threads \cup {NO} /\ kpc = "user"
    BY <1>12 DEF Tick, ServedInv, CalmInv, TypeInv, TypeOK
  <2>2. Served!Tick
    BY <1>12, <2>1, KernelIsNobody, PhaseStays DEF Tick, Served!Tick
  <2> QED BY <2>2 DEF Served!Next
<1>13. CASE WakeTcb
  BY <1>13, WakeServed DEF Served!Next
<1>14. CASE SkipTcb
  <2>1. Unseen
    BY <1>14 DEF SkipTcb, tcbVars
  <2> QED BY <1>1, <2>1
<1>15. CASE Dispatch
  BY <1>15, DispatchServed DEF Served!Next
<1>16. CASE ReadAstray \/ \E c \in Chars : StoreThenAstray(c)
  BY <1>16, AstrayServed DEF Served!Next
<1>17. CASE CalmQuietNext
  <2> HIDE DEF Unseen
  <2>1. \/ Compute \/ ReadBusy \/ ReadAnswered
        \/ Exit \/ Fault \/ TimerIrq \/ Tick \/ WakeTcb \/ SkipTcb
        \/ \E c \in Chars : UartStore(c) \/ UartFatal(c) \/ UartDeliver(c)
        \/ ReadAstray \/ \E c \in Chars : StoreThenAstray(c)
        \/ CreateProcess \/ CreateThread \/ \E n \in 1 .. MaxSleep : Sleep(n)
        \/ ReadWait \/ Dispatch
    BY <1>17 DEF CalmQuietNext, QuietNext, ContextsNext, KeepContexts, FreshContext,
       StoreAndSleep, StoreAndWait, DeliverCharacter, DispatchContext
  <2> QED BY <1>1, <1>3, <1>4, <1>5, <1>6, <1>7, <1>8, <1>9, <1>10, <1>11, <1>12,
             <1>13, <1>14, <1>15, <1>16, <1>17, <2>1
<1> QED BY <1>2, <1>17

(* The scheduler, with its two queues, its reference counts and its timer, *)
(* implements Processes for any number of threads, stacks and characters:  *)
(* a system call applies to the thread that makes it, a wake-up falls to a *)
(* thread whose time has come, a character goes to the thread that waits   *)
(* for it, a new process gets an address space nobody uses, and only ready *)
(* threads run (thread.c, syscalls.c).                                     *)
THEOREM ThreadsAreServed == CalmQuietSpec => ThreadsServed
<1>1. ContextsInit => ServedInv /\ Served!Init
  BY InitCtx, InitMem, CalmInit, InitServed DEF ContextsInit, ServedInv
<1>2. ServedInv /\ [CalmQuietNext]_allVars => ServedInv'
  BY CtxStep, MemStep, CalmStep, QuietIsCalm DEF ServedInv
<1>3. ServedInv /\ ServedInv' /\ [CalmQuietNext]_allVars
        => [Served!Next]_Served!processVars
  BY StepServed DEF ServedInv
<1> QED BY <1>1, <1>2, <1>3, PTL DEF CalmQuietSpec, ThreadsServed, Served!Spec
(* The register model adds nothing to what the scheduler does, so that any *)
(* condition under which Spec is calm makes QuietSpec calm.                *)
LEMMA QuietIsNext == [QuietNext]_allVars => [Next]_vars
<1> SUFFICES ASSUME [QuietNext]_allVars PROVE [Next]_vars
  OBVIOUS
<1>1. CASE UNCHANGED allVars
  BY <1>1 DEF allVars
<1>2. CASE QuietNext
  BY <1>2 DEF QuietNext, ContextsNext, Compute, KeepContexts, FreshContext, StoreAndSleep,
     StoreAndWait, ReadAnswered, ReadBusy, DeliverCharacter, StoreThenAstray,
     DispatchContext, Next, KernelStep
<1> QED BY <1>1, <1>2

LEMMA QuietImplementsSpec == QuietSpec => Spec
<1>1. ContextsInit => Init
  BY DEF ContextsInit
<1> QED BY <1>1, QuietIsNext, PTL DEF QuietSpec, Spec

LEMMA QuietAndCalm == QuietSpec /\ CalmSpec => CalmQuietSpec
<1>1. CalmInv /\ [QuietNext]_allVars /\ [CalmNext]_vars => [CalmQuietNext]_allVars
  <2> SUFFICES ASSUME CalmInv, [QuietNext]_allVars, [CalmNext]_vars
               PROVE  [CalmQuietNext]_allVars
    OBVIOUS
  <2>1. ~GapWake'
    BY CalmStep DEF CalmInv
  <2> QED BY <2>1 DEF CalmQuietNext
<1> QED BY <1>1, CalmInit, CalmStep, PTL DEF QuietSpec, CalmSpec, CalmQuietSpec

(* While no more than two threads live at a time no wake-up can fall into  *)
(* a gap, so the promises hold whenever no character interrupts a thread.  *)
THEOREM TwoThreadsServed ==
  QuietSpec /\ []TwoLive => ThreadsServed /\ [](RegistersKept /\ ContextsKept)
BY QuietImplementsSpec, TwoThreadsCalm, QuietAndCalm, ThreadsAreServed,
   RegistersCorrect, ContextsCorrect, PTL

(* So they do if no thread ever sleeps, for any number of threads.         *)
THEOREM SleeplessServed ==
  ASSUME "sleep" \notin Calls
  PROVE  QuietSpec => ThreadsServed /\ [](RegistersKept /\ ContextsKept)
<1>1. Spec => CalmSpec
  BY SleeplessCalm
<1> QED BY <1>1, QuietImplementsSpec, QuietAndCalm, ThreadsAreServed,
           RegistersCorrect, ContextsCorrect, PTL
=============================================================================
