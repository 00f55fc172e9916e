-------------------------------- MODULE Tlb ---------------------------------
(***************************************************************************)
(* The translations the processor may still hold from earlier tables and   *)
(* stacks, next to every step of the scheduler core.                       *)
(***************************************************************************)
EXTENDS Memory

VARIABLE tlb          \* <<table, page>>: translations that may be cached

memoryVars == <<vars, tlb>>

(* The valid entries of the table the first-level table points to.  The    *)
(* processor may cache any of them at any time, and no other.              *)
Cachable ==
    IF L1 = NO THEN {}
    ELSE {L1} \X {p \in 0 .. L2_SIZE - 1 :
                     1 \in L2Entry(L1, StacksOf(L1), p).bits}

(* Mutant: only another table counts as a change of the table.             *)
InvalidateIfSwitched == L1' # L1

(* L1_table_update, called by load_context, invalidates the TLB.           *)
Invalidate ==
    \/ DispatchNext
    \/ \E c \in Chars : UartDeliver(c)

MemoryInit == Init /\ tlb = {}

MemoryNext ==
    /\ Next
    /\ tlb' = Cachable' \cup IF Invalidate THEN {} ELSE tlb

MemorySpec == MemoryInit /\ [][MemoryNext]_memoryVars

-----------------------------------------------------------------------------
(* User code runs with no translation left over from another table or from *)
(* a stack that was unmapped: on every way from terminate_thread or from a *)
(* switch of the table to user mode the TLB is invalidated.                *)
NoStaleTranslation == kpc = "user" /\ running # NO => tlb \subseteq Cachable
=============================================================================
