---------------------------- MODULE AddressSpace ----------------------------
(***************************************************************************)
(* Virtual memory: the layout of kernel.lds, the section map of mmu_init,  *)
(* the table entries L1_init and L2_init build (arch/OS basics/mmu.c), and *)
(* the second-level tables of the processes (Kernel/thread.c).             *)
(*                                                                         *)
(* Addresses are bytes.  A table entry is the address it holds and the set *)
(* of its other bits that are 1; an OR of fields is a union.  What the     *)
(* processor makes of an entry (short descriptors of ARMv7) is external.   *)
(***************************************************************************)
EXTENDS Integers, FiniteSets

CONSTANTS
    PAGE,             \* L2_PAGE_SIZE
    L2_SIZE,          \* entries of a second-level table
    RAM_END,          \* end of the physical memory
    KernelTextSize,   \* sizes of the linked program's parts, in bytes
    KernelDataSize,
    UserTextSize,
    GlobalsSize

L1_PAGE_SIZE == PAGE * L2_SIZE

AlignDown(a) == (a \div L1_PAGE_SIZE) * L1_PAGE_SIZE
AlignUp(a) == AlignDown(a + L1_PAGE_SIZE - 1)

(* The linker's symbols.                                                   *)
text_kernel_start   == L1_PAGE_SIZE
text_kernel_end     == text_kernel_start + KernelTextSize
bss_kernel_start    == AlignUp(text_kernel_end)
ram_kernel_start    == AlignUp(bss_kernel_start + KernelDataSize)
ram_kernel_end      == ram_kernel_start + L1_PAGE_SIZE - 8
orig_globals_start  == ram_kernel_start + L1_PAGE_SIZE
orig_globals_end    == orig_globals_start + L1_PAGE_SIZE - 8
text_user_start     == orig_globals_start + L1_PAGE_SIZE
text_user_end       == text_user_start + UserTextSize
ram_user_start      == AlignUp(text_user_end)
bss_user_start      == ram_user_start
data_user_end       == bss_user_start + GlobalsSize
phys_ram_user_start == AlignUp(data_user_end)
phys_ram_user_end   == RAM_END

(* A text that ends exactly at a section border would share its rights     *)
(* with the section behind it, because mmu_init compares with <=.          *)
ASSUME AddressSpaceAssumption ==
    /\ PAGE \in Nat \ {0} /\ PAGE % 8 = 0
    /\ L2_SIZE \in Nat /\ L2_SIZE >= 4 /\ L2_SIZE % 2 = 0
    /\ KernelTextSize \in Nat /\ KernelTextSize % L1_PAGE_SIZE # 0
    /\ KernelDataSize \in Nat \ {0}
    /\ UserTextSize \in Nat /\ UserTextSize % L1_PAGE_SIZE # 0
    /\ GlobalsSize \in 1 .. L1_PAGE_SIZE
    /\ RAM_END \in Nat /\ RAM_END >= phys_ram_user_start

-----------------------------------------------------------------------------
(* Rights, as their AP[2:0] bits.                                          *)
RIGHT_NO_ACCESS      == 0
RIGHT_SYS_ONLY       == 1
RIGHT_FULL_ACCESS    == 3
RIGHT_SYS_READ_ONLY  == 5
RIGHT_BOTH_READ_ONLY == 7

Bit(place, value) == IF value = 1 THEN {place} ELSE {}

(* The two lower bits of a right go to place low, the upper one to high.   *)
RightBits(right, low, high) ==
    Bit(low, right % 2) \cup Bit(low + 1, (right \div 2) % 2)
        \cup Bit(high, right \div 4)

(* L1_init for a section and for a second-level table, L2_init for a page. *)
SectionEntry(phy_adr, right, xn, pxn) ==
    [adr |-> AlignDown(phy_adr),
     bits |-> {1} \cup RightBits(right, 10, 15) \cup Bit(4, xn) \cup Bit(0, pxn)]

TableEntry(table, pxn) == [adr |-> table, bits |-> {0} \cup Bit(2, pxn)]

PageEntry(phy_adr, right, xn) ==
    [adr |-> (phy_adr \div PAGE) * PAGE,
     bits |-> {1} \cup RightBits(right, 4, 9) \cup Bit(0, xn)]

GuardEntry == [adr |-> 0, bits |-> {}]

In(a, first, last) == a >= AlignDown(first) /\ a <= AlignDown(last)

(* Mutant: the kernel's code gets the rights of its data.                  *)
WritableText(a) ==
    IF In(a, text_kernel_start, text_kernel_end)
        THEN SectionEntry(a, RIGHT_SYS_ONLY, 0, 0)
    ELSE IF In(a, bss_kernel_start, ram_kernel_end)
        THEN SectionEntry(a, RIGHT_SYS_ONLY, 1, 1)
    ELSE IF In(a, text_user_start, text_user_end)
        THEN SectionEntry(a, RIGHT_BOTH_READ_ONLY, 0, 1)
    ELSE SectionEntry(a, RIGHT_NO_ACCESS, 1, 1)

(* mmu_init for the section at address a.  The peripherals, for the kernel *)
(* only, lie behind the memory and are left out.                           *)
MmuEntry(a) ==
    IF In(a, text_kernel_start, text_kernel_end)
        THEN SectionEntry(a, RIGHT_SYS_READ_ONLY, 0, 0)
    ELSE IF In(a, bss_kernel_start, ram_kernel_end)
        THEN SectionEntry(a, RIGHT_SYS_ONLY, 1, 1)
    ELSE IF In(a, orig_globals_start, orig_globals_end)
        THEN SectionEntry(ram_user_start, RIGHT_SYS_READ_ONLY, 1, 1)
    ELSE IF In(a, phys_ram_user_start, phys_ram_user_end)
        THEN SectionEntry(a, RIGHT_SYS_ONLY, 1, 1)
    ELSE IF In(a, text_user_start, text_user_end)
        THEN SectionEntry(a, RIGHT_BOTH_READ_ONLY, 0, 1)
    ELSE SectionEntry(a, RIGHT_NO_ACCESS, 1, 1)

-----------------------------------------------------------------------------
(* The memory of a process.                                                *)

(* Mutant: all tables start at the same frame.                             *)
SharedRamStart(table) == phys_ram_user_start + 0 * table

(* get_thread_ram_start adds to a pointer to 32 bit words.                 *)
ThreadRamStart(table) == phys_ram_user_start + 4 * (L1_PAGE_SIZE * table)

phys2virt_adr(phys_adr, table) ==
    phys_adr - ThreadRamStart(table) + ram_user_start

(* Mutant: the offset is taken for the address.                            *)
OffsetOnly(virt_adr, table) == ThreadRamStart(table) + virt_adr

virt2phys_adr(virt_adr, table) ==
    ThreadRamStart(table) - ram_user_start + virt_adr

PagesOf(size) == size \div PAGE + (IF size % PAGE = 0 THEN 0 ELSE 1)

(* copy_globals maps the first pages of a process to its globals.          *)
GlobalPages == 0 .. PagesOf(GlobalsSize) - 1

(* Where get_stack_base looks for a free page.  Pointers to 32 bit words   *)
(* are subtracted, so fewer pages are left out than the globals occupy.    *)
StackPages ==
    {i \in 1 .. L2_SIZE - 2 :
        i % 2 = 0 /\ i > PagesOf(GlobalsSize \div 4) /\ i \notin GlobalPages}

(* Mutant: the bottom of the stack is taken for its base.                  *)
StackBottom(table, page) == ThreadRamStart(table) + page * PAGE

StackBase(table, page) == ThreadRamStart(table) + (page + 1) * PAGE

(* Entry number page of a table whose stack pages in use are stacks.       *)
L2Entry(table, stacks, page) ==
    IF page \in stacks
        THEN PageEntry(StackBase(table, page) - 1, RIGHT_FULL_ACCESS, 1)
    ELSE IF page \in GlobalPages
        THEN PageEntry(virt2phys_adr(bss_user_start, table) + page * PAGE,
                       RIGHT_FULL_ACCESS, 1)
    ELSE GuardEntry

(* kthread_create: the argument and the stack pointer of a new thread.     *)
STACK_ALIGNMENT == 8

(* Mutant: the stack pointer is rounded up, into the argument.             *)
RoundUpSp(sp) == ((sp + STACK_ALIGNMENT - 1) \div STACK_ALIGNMENT) * STACK_ALIGNMENT

ALIGN_SP(sp) == (sp \div STACK_ALIGNMENT) * STACK_ALIGNMENT

ArgumentOf(table, page, args_size) ==
    phys2virt_adr(StackBase(table, page) - args_size, table)

StackPointerOf(table, page, args_size) ==
    ALIGN_SP(ArgumentOf(table, page, args_size))

-----------------------------------------------------------------------------
(* What the processor does with the entries.                               *)

RightOf(bits, low, high) ==
    (IF low \in bits THEN 1 ELSE 0) + (IF low + 1 \in bits THEN 2 ELSE 0)
        + (IF high \in bits THEN 4 ELSE 0)

NoTable == -1         \* the user section still has the entry of mmu_init

(* The translation of address a while the user section points to table.    *)
Translate(table, stacks, a) ==
    IF table # NoTable /\ AlignDown(a) = ram_user_start
    THEN LET entry == L2Entry(table, stacks, (a - ram_user_start) \div PAGE)
         IN  [level |-> "Page", valid |-> 1 \in entry.bits,
              right |-> RightOf(entry.bits, 4, 9),
              xn |-> 0 \in entry.bits,
              pxn |-> 2 \in TableEntry(table, 1).bits,
              pa |-> entry.adr + (a % PAGE)]
    ELSE LET entry == MmuEntry(AlignDown(a))
         IN  [level |-> "Section", valid |-> 1 \in entry.bits,
              right |-> RightOf(entry.bits, 10, 15),
              xn |-> 4 \in entry.bits, pxn |-> 0 \in entry.bits,
              pa |-> entry.adr + (a % L1_PAGE_SIZE)]

Readable(mode, right) ==
    IF mode = "User" THEN right \in {2, 3, 7} ELSE right \in {1, 2, 3, 5, 7}

Writable(mode, right) ==
    IF mode = "User" THEN right = 3 ELSE right \in {1, 2, 3}

Permitted(mode, kind, tr) ==
    /\ tr.valid
    /\ CASE kind = "read"  -> Readable(mode, tr.right)
         [] kind = "write" -> Writable(mode, tr.right)
         [] kind = "fetch" -> /\ Readable(mode, tr.right) /\ ~tr.xn
                              /\ mode = "User" \/ ~tr.pxn
=============================================================================
