------------------------------- MODULE Memory -------------------------------
(***************************************************************************)
(* The scheduler core together with virtual memory: what the page tables   *)
(* let the running thread and the kernel reach in every state of Threads.  *)
(*                                                                         *)
(* A stack slot of Threads is an even page of the user section, the        *)
(* highest slot the highest page.                                          *)
(***************************************************************************)
EXTENDS ThreadsProps, AddressSpace

SlotPage(slot) == L2_SIZE - 2 * (NumStacks - slot)

ASSUME MemoryAssumption ==
    /\ StackPages = {SlotPage(s) : s \in Stacks}
    /\ RAM_END >= ThreadRamStart(MAX_THREADS)

StacksOf(table) == {SlotPage(s) : s \in L2_Tables[table]}

-----------------------------------------------------------------------------
(* What can be reached through a table with the given stacks; functions,   *)
(* so that the model checker computes them once.                           *)
UserSection == {ram_user_start + p * PAGE : p \in 0 .. L2_SIZE - 1}

OtherSections ==
    {p * PAGE : p \in 0 .. (RAM_END \div PAGE) - 1} \ UserSection

Walk == [w \in Tables \X (SUBSET StackPages) \X UserSection |->
            Translate(w[1], w[2], w[3])]

(* The frames of the user section that mode can reach for kind.            *)
Frames(mode, kind) ==
    [w \in Tables \X (SUBSET StackPages) |->
        {Walk[<<w[1], w[2], a>>].pa :
            a \in {a \in UserSection :
                     Permitted(mode, kind, Walk[<<w[1], w[2], a>>])}}]

UserFrames == Frames("User", "write")
UserExecutable == Frames("User", "fetch")
KernelExecutable == Frames("Kernel", "fetch")

(* The same for all other sections, which do not depend on the table.      *)
SharedFrames(mode, kind) ==
    {Translate(NoTable, {}, a).pa :
        a \in {a \in OtherSections :
                 Permitted(mode, kind, Translate(NoTable, {}, a))}}

SharedUserWritable == SharedFrames("User", "write")
SharedKernelWritable == SharedFrames("Kernel", "write")
SharedExecutable == SharedFrames("User", "fetch") \cup SharedFrames("Kernel", "fetch")

FramesOf(table) == UserFrames[<<table, StacksOf(table)>>]

ExecutableFrames(table) ==
    SharedExecutable \cup UserExecutable[<<table, StacksOf(table)>>]
                     \cup KernelExecutable[<<table, StacksOf(table)>>]

-----------------------------------------------------------------------------
(* Properties.                                                             *)

(* The instructions of a process can write its own memory only: no frame   *)
(* is writable in user mode through two tables, and none that is belongs   *)
(* to the kernel, to a program text or to the initial values of the        *)
(* globals.  The stores of the kernel through a pointer of a thread        *)
(* (syscalls.c:68, thread.c:389) are another matter, see GoesAstray.       *)
UserWritesIsolated ==
    /\ SharedUserWritable = {}
    /\ \A i \in Tables : \A f \in FramesOf(i) :
         f >= phys_ram_user_start /\ f < RAM_END
    /\ \A i, j \in Tables : i # j => FramesOf(i) \cap FramesOf(j) = {}

(* No frame is executable in one mode and writable in another (mmu_init    *)
(* gives text no write right, thread.c: "Stacks shall never be executed"). *)
CodeIsReadOnly ==
    \A i \in Tables :
        ExecutableFrames(i) \cap (FramesOf(i) \cup SharedKernelWritable) = {}

(* Every live thread has its stack page, and the page below it is a guard: *)
(* a stack that overflows faults instead of reaching another one.          *)
StacksGuarded ==
    \A t \in Live :
        LET page == SlotPage(stack_i[t])
            base == ThreadRamStart(L2_table_i[t])
        IN  /\ base + page * PAGE \in FramesOf(L2_table_i[t])
            /\ base + (page - 1) * PAGE \notin FramesOf(L2_table_i[t])

(* The kernel reaches a thread's memory without its table: for an address  *)
(* the thread may write, the one virt2phys_adr computes (for a received    *)
(* character or for the globals) is writable for the kernel and is in the  *)
(* frame the thread itself sees.  The code does not check that the pointer *)
(* it is given is such an address.                                         *)
KernelReachesThreads ==
    \A t \in Live : \A a \in UserSection :
        LET tr == Walk[<<L2_table_i[t], StacksOf(L2_table_i[t]), a>>]
        IN  Permitted("User", "write", tr) =>
              /\ virt2phys_adr(a, L2_table_i[t]) = tr.pa
              /\ tr.pa \in SharedKernelWritable

(* A new thread starts with an aligned stack pointer in its own stack page *)
(* and its argument right above it, as long as that fits into the page.    *)
ArgumentsFit ==
    \A t \in Live : \A size \in 0 .. PAGE :
        LET page == SlotPage(stack_i[t])
            bottom == ram_user_start + page * PAGE
            arg == ArgumentOf(L2_table_i[t], page, size)
            sp == StackPointerOf(L2_table_i[t], page, size)
        IN  /\ sp % STACK_ALIGNMENT = 0
            /\ bottom <= sp /\ sp <= arg /\ arg - sp < STACK_ALIGNMENT
            /\ arg + size = bottom + PAGE
=============================================================================
