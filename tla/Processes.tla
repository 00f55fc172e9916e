------------------------------ MODULE Processes -----------------------------
(***************************************************************************)
(* What the scheduler promises to the threads, whatever its queues look    *)
(* like: the thread that makes a system call is the one it applies to, a   *)
(* thread wakes up when its time has come and not before, the one waiting  *)
(* reader goes on with the next character, only ready threads run and the  *)
(* processor idles only if there is none, and a process shares its memory  *)
(* with the threads it creates and with nobody else.                       *)
(***************************************************************************)
EXTENDS Integers

CONSTANTS
    Threads, Main,    \* threads, and the one of main()
    Spaces,           \* address spaces
    MaxSleep,         \* longest sleep considered
    NO,               \* no thread, no time
    KERNEL            \* the kernel, where it stands for a thread

VARIABLES
    phase,      \* per thread: "none", "ready", "asleep" or "reading"
    due,        \* ticks until it is to be woken, or NO
    space,      \* the address space of each thread
    current     \* who has the processor: a thread, KERNEL, or NO (idle)

processVars == <<phase, due, space, current>>

Alive == {t \in Threads : phase[t] # "none"}

Init ==
    /\ phase = [t \in Threads |-> IF t = Main THEN "ready" ELSE "none"]
    /\ due = [t \in Threads |-> NO]
    /\ space \in [Threads -> Spaces]
    /\ current = NO

-----------------------------------------------------------------------------
(* What the running thread t asks for, or brings about by a fault.         *)
End(t) ==
    /\ current = t /\ current' = KERNEL
    /\ phase' = [phase EXCEPT ![t] = "none"]
    /\ UNCHANGED <<due, space>>

(* A new thread joins the space of its creator or gets one nobody uses.    *)
Create(t, new, s) ==
    /\ current = t /\ current' = KERNEL
    /\ phase[new] = "none"
    /\ s = space[t] \/ s \notin {space[u] : u \in Alive}
    /\ phase' = [phase EXCEPT ![new] = "ready"]
    /\ space' = [space EXCEPT ![new] = s]
    /\ UNCHANGED due

FallAsleep(t, n) ==
    /\ current = t /\ current' = KERNEL
    /\ phase' = [phase EXCEPT ![t] = "asleep"]
    /\ due' = [due EXCEPT ![t] = n]
    /\ UNCHANGED space

Await(t) ==
    /\ current = t /\ current' = KERNEL
    /\ \A u \in Threads : phase[u] # "reading"
    /\ phase' = [phase EXCEPT ![t] = "reading"]
    /\ UNCHANGED <<due, space>>

-----------------------------------------------------------------------------
(* What happens to the threads.  The reader goes on at once.               *)
Answer(t) ==
    /\ current # KERNEL /\ current' = t
    /\ phase[t] = "reading"
    /\ phase' = [phase EXCEPT ![t] = "ready"]
    /\ UNCHANGED <<due, space>>

WakeUp(t) ==
    /\ current = KERNEL
    /\ phase[t] = "asleep" /\ due[t] = 0
    /\ phase' = [phase EXCEPT ![t] = "ready"]
    /\ due' = [due EXCEPT ![t] = NO]
    /\ UNCHANGED <<space, current>>

(* The system ends in the middle of a creation.                            *)
Fail(t, new, s) ==
    /\ current = t /\ current' = KERNEL
    /\ phase[new] = "none"
    /\ space' = [space EXCEPT ![new] = s]
    /\ UNCHANGED <<phase, due>>

(* A timer interrupt, or the end of the system.                            *)
Enter == current # KERNEL /\ current' = KERNEL /\ UNCHANGED <<phase, due, space>>

Run(t) ==
    /\ current = KERNEL /\ current' = t
    /\ phase[t] = "ready"
    /\ UNCHANGED <<phase, due, space>>

Idle ==
    /\ current = KERNEL /\ current' = NO
    /\ \A t \in Threads : phase[t] # "ready"
    /\ UNCHANGED <<phase, due, space>>

Tick ==
    /\ current # KERNEL
    /\ due' = [t \in Threads |-> IF due[t] > 0 THEN due[t] - 1 ELSE due[t]]
    /\ UNCHANGED <<phase, space, current>>

Next ==
    \/ \E t \in Threads :
          \/ End(t) \/ Await(t) \/ Answer(t) \/ WakeUp(t) \/ Run(t)
          \/ \E new \in Threads, s \in Spaces : Create(t, new, s) \/ Fail(t, new, s)
          \/ \E n \in 1 .. MaxSleep : FallAsleep(t, n)
    \/ Enter \/ Idle \/ Tick

Spec == Init /\ [][Next]_processVars
=============================================================================
