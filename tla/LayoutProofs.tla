---------------------------- MODULE LayoutProofs ----------------------------
(***************************************************************************)
(* The memory map, for every size of pages, sections and program parts:    *)
(* where the parts of the linked program lie, which frame every entry of   *)
(* the page tables leads to, and with which rights.                        *)
(***************************************************************************)
EXTENDS AddressSpace, TLAPS

-----------------------------------------------------------------------------
(* The layout: where the sections begin.                                   *)

LEMMA DivUnique ==
  ASSUME NEW n \in Nat \ {0}, NEW k \in Int, NEW r \in 0 .. n - 1
  PROVE  (n * k + r) \div n = k /\ (n * k + r) % n = r
OBVIOUS

LEMMA DivBounds ==
  ASSUME NEW a \in Int, NEW n \in Nat \ {0}
  PROVE  /\ a \div n \in Int /\ n * (a \div n) <= a /\ a < n * (a \div n) + n
         /\ \A k \in Int : n * k <= a => k <= a \div n
<1> DEFINE q == a \div n
<1>1. q \in Int /\ n * q <= a /\ a < n * q + n
  OBVIOUS
<1>2. ASSUME NEW k \in Int, n * k <= a, k > a \div n PROVE FALSE
  <2> DEFINE d == k - q - 1
  <2>1. d \in Nat /\ k = q + 1 + d
    BY <1>1, <1>2
  <2> HIDE DEF q, d
  <2>2. n * k = n * q + n + n * d /\ n * d >= 0
    BY <1>1, <2>1
  <2>3. n * q \in Int /\ n * d \in Int /\ n * k \in Int
    BY <1>1, <2>1
  <2> QED BY <1>1, <1>2, <2>2, <2>3 DEF q
<1> QED BY <1>1, <1>2

LEMMA PageSizes ==
  /\ PAGE \in Nat \ {0} /\ L2_SIZE \in Nat \ {0}
  /\ L1_PAGE_SIZE \in Nat \ {0} /\ L1_PAGE_SIZE = PAGE * L2_SIZE
  /\ GlobalsSize \in 1 .. L1_PAGE_SIZE /\ UserTextSize \in Nat
  /\ KernelTextSize \in Nat /\ KernelDataSize \in Nat \ {0} /\ RAM_END \in Nat
<1>1. PAGE \in Nat \ {0} /\ L2_SIZE \in Nat \ {0}
  BY AddressSpaceAssumption
<1>2. \A m, n \in Nat \ {0} : m * n \in Nat \ {0}
  OBVIOUS
<1>3. L1_PAGE_SIZE = PAGE * L2_SIZE
  BY DEF L1_PAGE_SIZE
<1> QED BY <1>1, <1>2, <1>3, AddressSpaceAssumption

LEMMA AlignDownIs ==
  ASSUME NEW k \in Int, NEW r \in 0 .. L1_PAGE_SIZE - 1
  PROVE  AlignDown(L1_PAGE_SIZE * k + r) = L1_PAGE_SIZE * k
<1>1. (L1_PAGE_SIZE * k + r) \div L1_PAGE_SIZE = k
  BY PageSizes, DivUnique
<1> QED BY <1>1, PageSizes DEF AlignDown

LEMMA AlignUpIs ==
  ASSUME NEW a \in Int
  PROVE  \E k \in Int : AlignUp(a) = L1_PAGE_SIZE * k
<1>1. (a + L1_PAGE_SIZE - 1) \div L1_PAGE_SIZE \in Int
  BY PageSizes
<1>2. AlignUp(a) = ((a + L1_PAGE_SIZE - 1) \div L1_PAGE_SIZE) * L1_PAGE_SIZE
  BY DEF AlignUp, AlignDown
<1> QED BY <1>1, <1>2, PageSizes

LEMMA AlignBounds ==
  ASSUME NEW a \in Int
  PROVE  /\ AlignDown(a) \in Int /\ AlignDown(a) <= a
         /\ AlignUp(a) \in Int /\ AlignUp(a) >= a
         /\ \A k \in Int : L1_PAGE_SIZE * k <= a => L1_PAGE_SIZE * k <= AlignDown(a)
<1> DEFINE L == L1_PAGE_SIZE
<1>1. L \in Nat \ {0}
  BY PageSizes
<1> HIDE DEF L
<1>2. ASSUME NEW b \in Int
      PROVE  /\ b \div L \in Int /\ (b \div L) * L = L * (b \div L)
             /\ L * (b \div L) \in Int
             /\ L * (b \div L) <= b /\ b < L * (b \div L) + L
  BY <1>1, DivBounds
<1>3. AlignDown(a) = L * (a \div L) /\ AlignUp(a) = L * ((a + L - 1) \div L)
  <2>1. a + L - 1 \in Int
    BY <1>1
  <2> QED BY <1>2, <2>1 DEF AlignUp, AlignDown, L
<1>4. AlignUp(a) \in Int /\ AlignUp(a) >= a
  <2>1. a + L - 1 \in Int
    BY <1>1
  <2> QED BY <1>1, <1>2, <1>3, <2>1
<1>5. ASSUME NEW k \in Int, L * k <= a PROVE L * k <= L * (a \div L)
  <2>1. k <= a \div L
    BY <1>1, <1>5, DivBounds
  <2>2. \A m, n \in Int : m <= n => L * m <= L * n
    <3> TAKE m, n \in Int
    <3> HAVE m <= n
    <3>1. n - m \in Nat /\ L * n = L * m + L * (n - m)
      BY <1>1
    <3>2. L * (n - m) >= 0 /\ L * m \in Int /\ L * (n - m) \in Int
      BY <1>1, <3>1
    <3> QED BY <3>1, <3>2
  <2> QED BY <1>2, <2>1, <2>2
<1> QED BY <1>2, <1>3, <1>4, <1>5 DEF L

(* The user section is one section, and the frames begin with the next.    *)
LEMMA UserLayout ==
  \E u \in Int : /\ ram_user_start = L1_PAGE_SIZE * u
                 /\ phys_ram_user_start = L1_PAGE_SIZE * (u + 1)
<1> DEFINE L == L1_PAGE_SIZE
<1>1. text_user_end \in Int
  <2>1. bss_kernel_start \in Int
    <3>1. text_kernel_end \in Int
      BY PageSizes DEF text_kernel_end, text_kernel_start
    <3> QED BY <3>1, AlignUpIs, PageSizes DEF bss_kernel_start
  <2>2. ram_kernel_start \in Int
    <3>1. bss_kernel_start + KernelDataSize \in Int
      BY <2>1, PageSizes
    <3> QED BY <3>1, AlignUpIs, PageSizes DEF ram_kernel_start
  <2> QED BY <2>2, PageSizes DEF text_user_end, text_user_start, orig_globals_start
<1>2. PICK u \in Int : ram_user_start = L * u
  BY <1>1, AlignUpIs DEF ram_user_start
<1>3. data_user_end + L - 1 = L * (u + 1) + (GlobalsSize - 1)
  BY <1>2, PageSizes DEF data_user_end, bss_user_start
<1>4. AlignDown(L * (u + 1) + (GlobalsSize - 1)) = L * (u + 1)
  <2>1. u + 1 \in Int /\ GlobalsSize - 1 \in 0 .. L - 1
    BY PageSizes
  <2> QED BY <2>1, AlignDownIs
<1>5. phys_ram_user_start = L * (u + 1)
  BY <1>3, <1>4 DEF phys_ram_user_start, AlignUp
<1> QED BY <1>2, <1>5

(* The parts of the program lie before the memory of the processes.        *)
LEMMA ProgramFirst ==
  /\ text_kernel_end \in Int /\ text_kernel_end < ram_user_start
  /\ ram_kernel_end \in Int /\ ram_kernel_end < ram_user_start
  /\ orig_globals_end \in Int /\ orig_globals_end < ram_user_start
  /\ text_user_end \in Int /\ text_user_end <= ram_user_start
  /\ ram_user_start \in Nat
<1>1. text_kernel_end \in Int /\ text_kernel_end >= 0
  BY PageSizes DEF text_kernel_end, text_kernel_start
<1>2. bss_kernel_start \in Int /\ text_kernel_end <= bss_kernel_start
  BY <1>1, AlignBounds DEF bss_kernel_start
<1>3. ram_kernel_start \in Int /\ bss_kernel_start + KernelDataSize <= ram_kernel_start
  <2>1. bss_kernel_start + KernelDataSize \in Int
    BY <1>2, PageSizes
  <2> QED BY <2>1, AlignBounds DEF ram_kernel_start
<1> HIDE DEF text_kernel_end, bss_kernel_start, ram_kernel_start, L1_PAGE_SIZE
<1>4. /\ orig_globals_start = ram_kernel_start + L1_PAGE_SIZE
      /\ ram_kernel_end = ram_kernel_start + L1_PAGE_SIZE - 8
      /\ orig_globals_end = orig_globals_start + L1_PAGE_SIZE - 8
      /\ text_user_end = orig_globals_start + L1_PAGE_SIZE + UserTextSize
  BY DEF orig_globals_start, ram_kernel_end, orig_globals_end, text_user_end,
     text_user_start
<1>5. text_user_end \in Int /\ ram_user_start \in Int /\ text_user_end <= ram_user_start
  <2>1. text_user_end \in Int
    BY <1>3, <1>4, PageSizes
  <2> QED BY <2>1, AlignBounds DEF ram_user_start
<1> QED BY <1>1, <1>2, <1>3, <1>4, <1>5, PageSizes

(* The memory of table i is a run of whole sections.                       *)
LEMMA RamStart ==
  ASSUME NEW i \in Int
  PROVE  \E v \in Int : /\ phys_ram_user_start = L1_PAGE_SIZE * v
                        /\ ThreadRamStart(i) = L1_PAGE_SIZE * (v + 4 * i)
<1>1. PICK v \in Int : phys_ram_user_start = L1_PAGE_SIZE * v
  <2>1. \A u \in Int : u + 1 \in Int
    OBVIOUS
  <2> QED BY <2>1, UserLayout
<1>2. \A n, w, j \in Int : n * w + 4 * (n * j) = n * (w + 4 * j)
  OBVIOUS
<1>3. ThreadRamStart(i) = L1_PAGE_SIZE * (v + 4 * i)
  BY <1>1, <1>2, PageSizes DEF ThreadRamStart
<1> QED BY <1>1, <1>3

-----------------------------------------------------------------------------
(* Pages.                                                                  *)

LEMMA PageOffset ==
  ASSUME NEW p \in 0 .. L2_SIZE - 1
  PROVE  p * PAGE \in 0 .. L1_PAGE_SIZE - 1
<1>1. \A m, n \in Nat \ {0} : \A q \in 0 .. n - 1 : q * m \in 0 .. m * n - 1
  <2> TAKE m, n \in Nat \ {0}
  <2> TAKE q \in 0 .. n - 1
  <2> DEFINE d == n - q
  <2>1. d \in Nat \ {0} /\ n = q + d
    OBVIOUS
  <2> HIDE DEF d
  <2>2. m * n = m * q + m * d /\ m * d >= 1 /\ q * m = m * q /\ m * q >= 0
    BY <2>1
  <2>3. m * q \in Int /\ m * d \in Int
    BY <2>1
  <2> QED BY <2>2, <2>3
<1> QED BY <1>1, PageSizes

LEMMA PageNumber ==
  ASSUME NEW i \in Int, NEW p \in Int
  PROVE  \E q \in Int : ThreadRamStart(i) + p * PAGE = PAGE * q
<1>1. PICK v \in Int : ThreadRamStart(i) = L1_PAGE_SIZE * (v + 4 * i)
  BY RamStart
<1>2. \A m, n, w, k \in Int : (m * n) * w + k * m = m * (n * w + k) /\ n * w + k \in Int
  OBVIOUS
<1>3. v + 4 * i \in Int
  OBVIOUS
<1> QED BY <1>1, <1>2, <1>3, PageSizes

LEMMA SamePage ==
  ASSUME NEW p \in Int, NEW q \in Int, p * PAGE = q * PAGE
  PROVE  p = q
<1>1. \A n \in Nat \ {0} : \A d \in Int : d * n = 0 => d = 0
  OBVIOUS
<1>2. \A n, a, b \in Int : (a - b) * n = a * n - b * n
  OBVIOUS
<1>3. (p - q) * PAGE = p * PAGE - q * PAGE /\ p * PAGE \in Int
  BY <1>2, PageSizes
<1>4. (p - q) * PAGE = 0 /\ p - q \in Int
  BY <1>3
<1>5. p - q = 0
  BY <1>1, <1>4, PageSizes
<1> QED BY <1>5

(* A page of one table is never a page of another.                         *)
LEMMA PagesApart ==
  ASSUME NEW i \in Nat, NEW j \in Nat,
         NEW p \in 0 .. L2_SIZE - 1, NEW q \in 0 .. L2_SIZE - 1,
         ThreadRamStart(i) + p * PAGE = ThreadRamStart(j) + q * PAGE
  PROVE  i = j
<1>1. p * PAGE \in 0 .. L1_PAGE_SIZE - 1 /\ q * PAGE \in 0 .. L1_PAGE_SIZE - 1
  BY PageOffset
<1>2. PICK v \in Int : phys_ram_user_start = L1_PAGE_SIZE * v
  BY UserLayout
<1>3. /\ ThreadRamStart(i) = L1_PAGE_SIZE * (v + 4 * i)
      /\ ThreadRamStart(j) = L1_PAGE_SIZE * (v + 4 * j)
  <2>1. \A n, w, k \in Int : n * w + 4 * (n * k) = n * (w + 4 * k)
    OBVIOUS
  <2> QED BY <1>2, <2>1, PageSizes DEF ThreadRamStart
<1>4. /\ (L1_PAGE_SIZE * (v + 4 * i) + p * PAGE) \div L1_PAGE_SIZE = v + 4 * i
      /\ (L1_PAGE_SIZE * (v + 4 * j) + q * PAGE) \div L1_PAGE_SIZE = v + 4 * j
  <2>1. v + 4 * i \in Int /\ v + 4 * j \in Int
    OBVIOUS
  <2> QED BY <1>1, <2>1, PageSizes, DivUnique
<1> QED BY <1>3, <1>4

-----------------------------------------------------------------------------
(* What a table maps.                                                      *)

(* The valid entries of a table are those of its stacks and the globals.   *)
LEMMA EntryValid ==
  ASSUME NEW table, NEW stacks, NEW page
  PROVE  1 \in L2Entry(table, stacks, page).bits <=> page \in stacks \cup GlobalPages
<1>1. CASE page \in stacks \cup GlobalPages
  BY <1>1 DEF L2Entry, PageEntry
<1>2. CASE page \notin stacks \cup GlobalPages
  BY <1>2 DEF L2Entry, GuardEntry
<1> QED BY <1>1, <1>2

(* A valid entry leads to the frame of its own page, for stacks as for the *)
(* globals.                                                                *)
LEMMA EntryAddress ==
  ASSUME NEW i \in Int, NEW stacks, NEW page \in 0 .. L2_SIZE - 1,
         page \in stacks \cup GlobalPages
  PROVE  L2Entry(i, stacks, page).adr = ThreadRamStart(i) + page * PAGE
<1>1. PICK b \in Int : ThreadRamStart(i) = PAGE * b
  <2>1. PICK v \in Int : ThreadRamStart(i) = L1_PAGE_SIZE * (v + 4 * i)
    BY RamStart
  <2>2. \A m, n, w \in Int : (m * n) * w = m * (n * w) /\ n * w \in Int
    OBVIOUS
  <2>3. v + 4 * i \in Int
    OBVIOUS
  <2> QED BY <2>1, <2>2, <2>3, PageSizes
<1>2. page \in Int /\ b + page \in Int /\ page * PAGE \in Int
      /\ ThreadRamStart(i) + page * PAGE = PAGE * (b + page) + 0
      /\ StackBase(i, page) - 1 = PAGE * (b + page) + (PAGE - 1)
  BY <1>1, PageSizes DEF StackBase
<1>3. \A r \in 0 .. PAGE - 1 : (PAGE * (b + page) + r) \div PAGE = b + page
  BY <1>2, PageSizes, DivUnique
<1>4. CASE page \in stacks
  <2>1. L2Entry(i, stacks, page).adr = ((StackBase(i, page) - 1) \div PAGE) * PAGE
    BY <1>4 DEF L2Entry, PageEntry
  <2>2. (StackBase(i, page) - 1) \div PAGE = b + page
    BY <1>2, <1>3, PageSizes
  <2> QED BY <1>2, <2>1, <2>2, PageSizes
<1>5. CASE page \notin stacks /\ page \in GlobalPages
  <2>1. L2Entry(i, stacks, page).adr =
          ((virt2phys_adr(bss_user_start, i) + page * PAGE) \div PAGE) * PAGE
    BY <1>5 DEF L2Entry, PageEntry
  <2>2. virt2phys_adr(bss_user_start, i) = ThreadRamStart(i)
    <3>1. bss_user_start \in Int /\ ThreadRamStart(i) \in Int
      BY <1>1, UserLayout, PageSizes DEF bss_user_start
    <3> QED BY <3>1 DEF virt2phys_adr, bss_user_start
  <2>3. (ThreadRamStart(i) + page * PAGE) \div PAGE = b + page
    BY <1>2, <1>3, PageSizes
  <2> QED BY <1>2, <2>1, <2>2, <2>3, PageSizes
<1> QED BY <1>4, <1>5

(* Valid entries give full access and forbid execution.                    *)
LEMMA PageRight ==
  ASSUME NEW adr
  PROVE  LET bits == PageEntry(adr, RIGHT_FULL_ACCESS, 1).bits
         IN  RightOf(bits, 4, 9) = RIGHT_FULL_ACCESS /\ 0 \in bits /\ 1 \in bits
<1> DEFINE bits == PageEntry(adr, RIGHT_FULL_ACCESS, 1).bits
<1>1. bits = {1} \cup RightBits(3, 4, 9) \cup Bit(0, 1)
  BY DEF PageEntry, RIGHT_FULL_ACCESS
<1>2. 3 % 2 = 1 /\ (3 \div 2) % 2 = 1 /\ 3 \div 4 = 0
  OBVIOUS
<1>3. bits = {0, 1, 4, 5}
  BY <1>1, <1>2 DEF RightBits, Bit
<1> QED BY <1>3 DEF RightOf, RIGHT_FULL_ACCESS

LEMMA EntryRights ==
  ASSUME NEW i, NEW stacks, NEW page \in stacks \cup GlobalPages
  PROVE  LET bits == L2Entry(i, stacks, page).bits
         IN  RightOf(bits, 4, 9) = RIGHT_FULL_ACCESS /\ 0 \in bits /\ 1 \in bits
<1>1. \E adr : L2Entry(i, stacks, page) = PageEntry(adr, RIGHT_FULL_ACCESS, 1)
  BY DEF L2Entry
<1> QED BY <1>1, PageRight

(* Where page p of the user section leads, if its entry is valid.          *)
LEMMA UserWalk ==
  ASSUME NEW i \in Nat, NEW stacks, NEW p \in 0 .. L2_SIZE - 1
  PROVE  LET a == ram_user_start + p * PAGE
             tr == Translate(i, stacks, a)
         IN  /\ tr.valid <=> p \in stacks \cup GlobalPages
             /\ tr.valid => tr.pa = ThreadRamStart(i) + p * PAGE
             /\ tr.valid => tr.right = RIGHT_FULL_ACCESS /\ tr.xn
<1> DEFINE a == ram_user_start + p * PAGE
           tr == Translate(i, stacks, a)
           entry == L2Entry(i, stacks, p)
<1>1. PICK u \in Int : ram_user_start = L1_PAGE_SIZE * u
  BY UserLayout
<1>2. p * PAGE \in 0 .. L1_PAGE_SIZE - 1
  BY PageOffset
<1>3. AlignDown(a) = ram_user_start
  BY <1>1, <1>2, AlignDownIs
<1>4. (a - ram_user_start) \div PAGE = p
  <2>1. a - ram_user_start = PAGE * p + 0 /\ p \in Int
    BY <1>1, <1>2, PageSizes
  <2> QED BY <2>1, PageSizes, DivUnique
<1>5. a % PAGE = 0
  <2>1. \A m, n, w, q \in Int : (m * n) * w + q * m = m * (n * w + q) /\ n * w + q \in Int
    OBVIOUS
  <2>2. PICK k \in Int : a = PAGE * k + 0
    BY <1>1, <2>1, PageSizes
  <2>3. (PAGE * k + 0) % PAGE = 0
    <3>1. 0 \in 0 .. PAGE - 1
      BY PageSizes
    <3> QED BY <3>1, PageSizes, DivUnique
  <2> QED BY <2>2, <2>3
<1>6. i # NoTable
  BY DEF NoTable
<1>7. /\ tr.valid = (1 \in entry.bits) /\ tr.pa = entry.adr + 0
      /\ tr.right = RightOf(entry.bits, 4, 9) /\ tr.xn = (0 \in entry.bits)
  BY <1>3, <1>4, <1>5, <1>6 DEF Translate
<1>8. tr.valid <=> p \in stacks \cup GlobalPages
  BY <1>7, EntryValid
<1>9. ThreadRamStart(i) + p * PAGE \in Int
  <2>1. ThreadRamStart(i) \in Int
    <3>1. i \in Int
      OBVIOUS
    <3>2. PICK v \in Int : ThreadRamStart(i) = L1_PAGE_SIZE * (v + 4 * i)
      BY <3>1, RamStart
    <3> QED BY <3>2, PageSizes
  <2> QED BY <2>1, <1>2
<1>10. tr.valid => tr.pa = ThreadRamStart(i) + p * PAGE
  BY <1>7, <1>8, <1>9, EntryAddress
<1>11. tr.valid => tr.right = RIGHT_FULL_ACCESS /\ tr.xn
  BY <1>7, <1>8, EntryRights
<1> QED BY <1>8, <1>10, <1>11

-----------------------------------------------------------------------------
(* What the sections map.                                                  *)

(* The bits of a section entry give back the right they were made from.    *)
LEMMA SectionRight ==
  ASSUME NEW adr, NEW right \in 0 .. 7, NEW xn, NEW pxn
  PROVE  RightOf(SectionEntry(adr, right, xn, pxn).bits, 10, 15) = right
<1> DEFINE bits == SectionEntry(adr, right, xn, pxn).bits
<1>1. bits = {1} \cup RightBits(right, 10, 15) \cup Bit(4, xn) \cup Bit(0, pxn)
  BY DEF SectionEntry
<1>2. /\ 10 \in bits <=> right % 2 = 1
      /\ 11 \in bits <=> (right \div 2) % 2 = 1
      /\ 15 \in bits <=> right \div 4 = 1
  BY <1>1 DEF RightBits, Bit
<1> HIDE DEF bits
<1>3. right \in {0, 1, 2, 3, 4, 5, 6, 7}
  OBVIOUS
<1> QED BY <1>2, <1>3 DEF RightOf, bits

(* Sections other than the initial values of the globals are mapped to     *)
(* themselves.                                                             *)
LEMMA SectionWalk ==
  ASSUME NEW a \in Int
  PROVE  LET s == AlignDown(a)
             tr == Translate(NoTable, {}, a)
         IN  /\ tr.valid
             /\ tr.right = RightOf(MmuEntry(s).bits, 10, 15)
             /\ tr.xn = (4 \in MmuEntry(s).bits)
             /\ s \in Int /\ s <= a /\ a < s + L1_PAGE_SIZE
             /\ \A right, xn, pxn :
                  MmuEntry(s) = SectionEntry(s, right, xn, pxn) => tr.pa = a
<1> DEFINE s == AlignDown(a)
           tr == Translate(NoTable, {}, a)
           k == a \div L1_PAGE_SIZE
           r == a - L1_PAGE_SIZE * k
<1>1. k \in Int /\ L1_PAGE_SIZE * k <= a /\ a < L1_PAGE_SIZE * k + L1_PAGE_SIZE
  BY DivBounds, PageSizes
<1>2. L1_PAGE_SIZE * k \in Int /\ L1_PAGE_SIZE * k = k * L1_PAGE_SIZE
  BY <1>1, PageSizes
<1>3. r \in 0 .. L1_PAGE_SIZE - 1 /\ a = L1_PAGE_SIZE * k + r
  BY <1>1, <1>2, PageSizes
<1>4. s = L1_PAGE_SIZE * k
  BY <1>2 DEF AlignDown
<1> HIDE DEF k, r
<1>5. a % L1_PAGE_SIZE = r
  <2>1. (L1_PAGE_SIZE * k + r) % L1_PAGE_SIZE = r
    BY <1>1, <1>3, PageSizes, DivUnique
  <2> QED BY <1>3, <2>1
<1>6. AlignDown(s) = s
  <2>1. 0 \in 0 .. L1_PAGE_SIZE - 1
    BY PageSizes
  <2>2. AlignDown(L1_PAGE_SIZE * k + 0) = L1_PAGE_SIZE * k
    BY <1>1, <2>1, AlignDownIs
  <2> QED BY <1>2, <1>4, <2>2
<1>7. /\ tr.valid = (1 \in MmuEntry(s).bits)
      /\ tr.right = RightOf(MmuEntry(s).bits, 10, 15)
      /\ tr.xn = (4 \in MmuEntry(s).bits)
      /\ tr.pa = MmuEntry(s).adr + r
  BY <1>5 DEF Translate
<1>8. 1 \in MmuEntry(s).bits
  BY DEF MmuEntry, SectionEntry
<1>9. ASSUME NEW right, NEW xn, NEW pxn, MmuEntry(s) = SectionEntry(s, right, xn, pxn)
      PROVE  tr.pa = a
  BY <1>3, <1>4, <1>6, <1>7, <1>9 DEF SectionEntry
<1> QED BY <1>1, <1>2, <1>4, <1>7, <1>8, <1>9

(* What can be executed lies in a text section, before all process memory. *)
LEMMA TextIs ==
  ASSUME NEW a \in Int, NEW mode,
         Permitted(mode, "fetch", Translate(NoTable, {}, a))
  PROVE  /\ Translate(NoTable, {}, a).pa = a /\ a < phys_ram_user_start
         /\ 4 \notin MmuEntry(AlignDown(a)).bits
<1> DEFINE s == AlignDown(a)
           tr == Translate(NoTable, {}, a)
<1>1. 4 \notin MmuEntry(s).bits
  BY SectionWalk DEF Permitted
<1>2. \/ /\ In(s, text_kernel_start, text_kernel_end)
         /\ MmuEntry(s) = SectionEntry(s, RIGHT_SYS_READ_ONLY, 0, 0)
      \/ /\ In(s, text_user_start, text_user_end)
         /\ MmuEntry(s) = SectionEntry(s, RIGHT_BOTH_READ_ONLY, 0, 1)
  <2>1. \A adr, right, pxn : 4 \in SectionEntry(adr, right, 1, pxn).bits
    BY DEF SectionEntry, Bit
  <2> QED BY <1>1, <2>1 DEF MmuEntry
<1>3. tr.pa = a
  BY <1>2, SectionWalk
<1>4. s <= ram_user_start
  <2>1. s <= AlignDown(text_kernel_end) \/ s <= AlignDown(text_user_end)
    BY <1>2 DEF In
  <2> QED BY <2>1, ProgramFirst, AlignBounds
<1>5. a < phys_ram_user_start
  <2>1. PICK u \in Int : /\ ram_user_start = L1_PAGE_SIZE * u
                        /\ phys_ram_user_start = L1_PAGE_SIZE * (u + 1)
    BY UserLayout
  <2>2. phys_ram_user_start = ram_user_start + L1_PAGE_SIZE /\ ram_user_start \in Int
    BY <2>1, PageSizes
  <2>3. s \in Int /\ a < s + L1_PAGE_SIZE /\ L1_PAGE_SIZE \in Int
    BY SectionWalk, PageSizes
  <2> HIDE DEF s, L1_PAGE_SIZE
  <2> QED BY <1>4, <2>2, <2>3
<1> QED BY <1>1, <1>3, <1>5

(* What the kernel can write is never executed.                            *)
LEMMA DataIs ==
  ASSUME NEW a \in Int, Permitted("Kernel", "write", Translate(NoTable, {}, a))
  PROVE  /\ Translate(NoTable, {}, a).pa = a
         /\ 4 \in MmuEntry(AlignDown(a)).bits
<1> DEFINE s == AlignDown(a)
           tr == Translate(NoTable, {}, a)
<1>1. tr.right \in {1, 2, 3} /\ tr.right = RightOf(MmuEntry(s).bits, 10, 15)
  BY SectionWalk DEF Permitted, Writable
<1>2. \/ MmuEntry(s) = SectionEntry(s, RIGHT_SYS_ONLY, 1, 1)
      \/ \E adr, xn, pxn : \E right \in {0, 5, 7} :
           MmuEntry(s) = SectionEntry(adr, right, xn, pxn)
  BY DEF MmuEntry, RIGHT_NO_ACCESS, RIGHT_SYS_READ_ONLY, RIGHT_BOTH_READ_ONLY
<1>3. MmuEntry(s) = SectionEntry(s, RIGHT_SYS_ONLY, 1, 1)
  BY <1>1, <1>2, SectionRight
<1>4. 4 \in MmuEntry(s).bits
  BY <1>3 DEF SectionEntry, Bit
<1> QED BY <1>3, <1>4, SectionWalk

(* The sections of the vectors, of the kernel's and of the user's text.    *)
LEMMA TextSections ==
  /\ text_kernel_start \in Int /\ text_user_start \in Int
  /\ AlignDown(0) = 0 /\ AlignDown(text_kernel_start) = text_kernel_start
  /\ 0 < text_kernel_start /\ text_kernel_start <= text_kernel_end
  /\ text_kernel_end < text_user_start /\ text_user_start <= text_user_end
  /\ text_kernel_start < ram_user_start
  /\ AlignDown(text_user_start) = text_user_start
<1>1. /\ text_kernel_start \in Int /\ text_kernel_end \in Int
      /\ text_kernel_start <= text_kernel_end /\ text_kernel_start = L1_PAGE_SIZE
      /\ 0 < text_kernel_start
  BY PageSizes DEF text_kernel_end, text_kernel_start
<1>2. AlignDown(0) = 0 /\ AlignDown(text_kernel_start) = text_kernel_start
  <2>1. 0 \in 0 .. L1_PAGE_SIZE - 1 /\ L1_PAGE_SIZE * 0 + 0 = 0
        /\ L1_PAGE_SIZE * 1 + 0 = L1_PAGE_SIZE /\ L1_PAGE_SIZE * 0 = 0
        /\ L1_PAGE_SIZE * 1 = L1_PAGE_SIZE
    BY PageSizes
  <2>2. AlignDown(L1_PAGE_SIZE * 0 + 0) = L1_PAGE_SIZE * 0
        /\ AlignDown(L1_PAGE_SIZE * 1 + 0) = L1_PAGE_SIZE * 1
    BY <2>1, AlignDownIs
  <2> QED BY <1>1, <2>1, <2>2
<1>3. bss_kernel_start \in Int /\ text_kernel_end <= bss_kernel_start
  BY <1>1, AlignBounds DEF bss_kernel_start
<1>4. ram_kernel_start \in Int /\ bss_kernel_start + KernelDataSize <= ram_kernel_start
  <2>1. bss_kernel_start + KernelDataSize \in Int
    BY <1>3, PageSizes
  <2> QED BY <2>1, AlignBounds DEF ram_kernel_start
<1>8. AlignDown(text_user_start) = text_user_start
  <2>1. PICK k \in Int : ram_kernel_start = L1_PAGE_SIZE * k
    <3>1. bss_kernel_start + KernelDataSize \in Int
      BY <1>3, PageSizes
    <3> QED BY <3>1, AlignUpIs DEF ram_kernel_start
  <2>2. /\ text_user_start = L1_PAGE_SIZE * (k + 2) + 0
        /\ L1_PAGE_SIZE * (k + 2) + 0 = L1_PAGE_SIZE * (k + 2)
    BY <2>1, PageSizes DEF text_user_start, orig_globals_start
  <2>3. k + 2 \in Int /\ 0 \in 0 .. L1_PAGE_SIZE - 1
    BY PageSizes
  <2>4. AlignDown(L1_PAGE_SIZE * (k + 2) + 0) = L1_PAGE_SIZE * (k + 2)
    BY <2>3, AlignDownIs
  <2> QED BY <2>2, <2>4
<1> HIDE DEF text_kernel_start, text_kernel_end, bss_kernel_start, ram_kernel_start,
             L1_PAGE_SIZE
<1>5. text_user_start = ram_kernel_start + L1_PAGE_SIZE + L1_PAGE_SIZE
  BY DEF orig_globals_start, text_user_start
<1>6. text_user_start \in Int /\ text_kernel_end < text_user_start
  BY <1>1, <1>3, <1>4, <1>5, PageSizes
<1>7. text_user_start <= text_user_end
  BY <1>6, PageSizes DEF text_user_end
<1> QED BY <1>1, <1>2, <1>6, <1>7, <1>8, ProgramFirst

(* The kernel executes nothing but its own text.                           *)
LEMMA PrivilegedFetch ==
  ASSUME NEW table, NEW stacks, NEW a, NEW mode, mode # "User",
         Permitted(mode, "fetch", Translate(table, stacks, a))
  PROVE  In(AlignDown(a), text_kernel_start, text_kernel_end)
<1> DEFINE tr == Translate(table, stacks, a)
           s == AlignDown(a)
<1>1. ~ tr.pxn
  BY DEF Permitted
<1>2. 2 \in TableEntry(table, 1).bits
  BY DEF TableEntry, Bit
<1>3. 0 \notin MmuEntry(s).bits
  BY <1>1, <1>2 DEF Translate
<1>4. \A adr, right, xn : 0 \in SectionEntry(adr, right, xn, 1).bits
  BY DEF SectionEntry, Bit
<1> QED BY <1>3, <1>4 DEF MmuEntry

(* Nobody writes the first section of the kernel's text.                   *)
LEMMA TextNotWritten ==
  ASSUME NEW table, NEW stacks, NEW mode
  PROVE  ~ Permitted(mode, "write", Translate(table, stacks, text_kernel_start))
<1> DEFINE a == text_kernel_start
           tr == Translate(table, stacks, a)
<1>1. AlignDown(a) = a /\ a # ram_user_start
  BY TextSections, ProgramFirst
<1>2. In(a, text_kernel_start, text_kernel_end)
  <2>1. AlignDown(text_kernel_end) >= text_kernel_start
    <3>1. L1_PAGE_SIZE * 1 = text_kernel_start
      BY PageSizes DEF text_kernel_start
    <3> QED BY <3>1, TextSections, ProgramFirst, AlignBounds
  <2> QED BY <1>1, <2>1, TextSections DEF In
<1>3. MmuEntry(a) = SectionEntry(a, 5, 0, 0)
  BY <1>2 DEF MmuEntry, RIGHT_SYS_READ_ONLY
<1>4. tr.right = RightOf(MmuEntry(a).bits, 10, 15)
  BY <1>1 DEF Translate
<1>5. tr.right = 5
  BY <1>3, <1>4, SectionRight
<1> QED BY <1>5 DEF Permitted, Writable
=============================================================================
