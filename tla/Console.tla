------------------------------ MODULE Console ------------------------------
(***************************************************************************)
(* The serial console from power-on: the order of start_kernel, in which   *)
(* characters are received before the MMU is on; the characters whose      *)
(* handler accesses memory on purpose (uart.c); the exceptions of the      *)
(* handler and of user code with the report they print (exceptions.c,      *)
(* entry.S); and what kprintf makes of a number.  The input buffer is the  *)
(* one of Uart.                                                            *)
(***************************************************************************)
EXTENDS Uart, Kprintf, AddressSpace

CONSTANTS
    Pieces,           \* conversions of a number: [conversion, width, pad]
    Numbers           \* numbers printed

(* The fields of the formats in the code: one digit, and the padded number *)
(* fits into the buffer.                                                   *)
ASSUME ConsoleAssumption ==
    /\ Pieces \subseteq [conversion : {"x", "i", "u"}, width : 0 .. 9, pad : {Space, "0"}]
    /\ \A piece \in Pieces : piece.width < buff_len

VARIABLES
    stage,            \* "reset", "early" (input, no MMU), "mapped", "user",
                      \* "halted", "lost" (a jump into nowhere), "astray" (a
                      \* store of the kernel that is not where it should be)
    kernel_text,      \* "intact" or "overwritten"
    dfsr, dfar,       \* data fault status and address register
    output            \* what the last step printed

consoleVars == <<uartVars, stage, kernel_text, dfsr, dfar, output>>

Nothing == [kind |-> "nothing"]

ConsoleInit ==
    /\ Init
    /\ stage = "reset" /\ kernel_text = "intact"
    /\ dfsr = 0 /\ dfar = 0 /\ output = Nothing

On == stage \in {"early", "mapped", "user"}

-----------------------------------------------------------------------------
(* start_kernel enables the UART's interrupt, then the MMU, and leaves for *)
(* user mode once there is a thread.                                       *)
Boot ==
    /\ \/ stage = "reset" /\ stage' = "early"
       \/ stage = "early" /\ stage' = "mapped"
       \/ stage = "mapped" /\ stage' = "user"
    /\ output' = Nothing
    /\ UNCHANGED <<uartVars, kernel_text, dfsr, dfar>>

(* kprintf of one number, an int for "i", otherwise an unsigned int.  It   *)
(* keeps no state, so where start_kernel first calls it stands for every   *)
(* other place.                                                            *)
Argument(conversion) ==
    IF conversion = "i" THEN -(WORD \div 2) .. WORD \div 2 - 1 ELSE 0 .. WORD - 1

Format(piece) ==
    <<"%">> \o (IF piece.pad = "0" THEN <<"0">> ELSE << >>)
        \o (IF piece.width = 0 THEN << >> ELSE <<Digit(piece.width)>>)
        \o <<piece.conversion>>

PrintNumber(piece, n) ==
    /\ stage = "reset" /\ n \in Argument(piece.conversion)
    /\ output' = [kind |-> "number", piece |-> piece, n |-> n,
                  text |-> kprintf(Format(piece), <<n>>)]
    /\ UNCHANGED <<uartVars, stage, kernel_text, dfsr, dfar>>

-----------------------------------------------------------------------------
(* Exceptions.                                                             *)

(* The highest stack page, that of main().                                 *)
MainStack == L2_SIZE - 2

Translation(va) ==
    IF stage = "user" THEN Translate(0, {MainStack}, va)
    ELSE Translate(NoTable, {}, va)

Blocked(mode, access, va) ==
    stage # "early" /\ ~Permitted(mode, access, Translation(va))

(* Where the processor returns to, relative to the address of the cause.   *)
ReturnOffset ==
    [DataAbort |-> 8, PrefetchAbort |-> 4, Undefined |-> 4, Svc |-> 4]

LR_OFFSET == [DataAbort |-> 8, PrefetchAbort |-> 4, Undefined |-> 4, Svc |-> 4]
LR_CORRECTION == [DataAbort |-> 4, PrefetchAbort |-> 0, Undefined |-> 0, Svc |-> 0]

(* Mutant: the handler forgets what entry.S has subtracted.                *)
UncorrectedPc(exception, lr) == lr - LR_OFFSET[exception]

CausePc(exception, lr) == lr - LR_OFFSET[exception] + LR_CORRECTION[exception]

(* The messages for status 1 to 15 of dfsr_fsrc; those of ifsr_fsrc differ *)
(* for faults that the MMU does not raise.  Bit 10, which prints one more  *)
(* message, is only set by external aborts and is 0 here.                  *)
fsrc == <<"Alignment fault", "Debug event fault",
    "Access Flag fault on Section", "Cache maintenance operation fault",
    "Translation fault on Section", "Access Flag fault on Page",
    "Translation fault on Page", "Precise External Abort",
    "Domain fault on Section", "No function", "Domain fault on Page",
    "External abort on translation, first level",
    "Permission fault on Section",
    "External abort on translation, second level",
    "Permission fault on Page">>

Message(status) ==
    IF status % 16 = 0 THEN "No function, reset value" ELSE fsrc[status % 16]

RW_OFFSET == 11

Direction(status) ==
    IF (status \div 2^RW_OFFSET) % 2 = 1 THEN "schreibend" ELSE "lesend"

PSR == [User |-> 16, FIQ |-> 17, IRQ |-> 18, Supervisor |-> 19, Abort |-> 23,
        Undefined |-> 27, System |-> 31]

(* An index of mode_names.                                                 *)
get_mode(psr) ==
    CASE psr \in {PSR.User, PSR.System} -> 1
      [] psr = PSR.FIQ -> 2 [] psr = PSR.IRQ -> 3 [] psr = PSR.Supervisor -> 4
      [] psr = PSR.Undefined -> 5 [] psr = PSR.Abort -> 6 [] OTHER -> 7

mode_names ==
    <<"User/System", "FIQ", "IRQ", "Supervisor", "Undefined", "Abort", "">>

(* handle_mode: the thread is terminated, or the system halts.             *)
HandleMode(spsr) ==
    stage' = IF spsr = PSR.User THEN stage ELSE "halted"

(* The fault status of a data abort, as the processor encodes it.          *)
FaultStatus(access, tr) ==
    (IF tr.valid THEN 13 ELSE 5) + (IF tr.level = "Page" THEN 2 ELSE 0)
        + (IF access = "write" THEN 2^RW_OFFSET ELSE 0)

(* One exception, with the stub of entry.S and its handler: a data abort   *)
(* sets its status and address register, the stub corrects the link        *)
(* register, the handler prints.  A prefetch abort prints the registers of *)
(* the data abort before it.  cause is what really happened.  Addresses    *)
(* are still numbers here, AddressText is their text.                      *)
Raise(exception, mode, pc, access, va) ==
    LET tr == Translation(va)
        lr == pc + ReturnOffset[exception] - LR_CORRECTION[exception]
    IN  /\ dfsr' = IF exception = "DataAbort" THEN FaultStatus(access, tr) ELSE dfsr
        /\ dfar' = IF exception = "DataAbort" THEN va ELSE dfar
        /\ output' = [kind |-> exception,
                      cause |-> [pc |-> pc, mode |-> mode, access |-> access,
                                 va |-> va, tr |-> tr],
                      at |-> CausePc(exception, lr),
                      mode |-> mode_names[get_mode(PSR[mode])],
                      direction |-> Direction(dfsr'),
                      address |-> dfar', error |-> Message(dfsr')]
        /\ HandleMode(PSR[mode])

(* A blocked access at pc; a blocked fetch is reported at its own address. *)
Abort(mode, pc, access, va) ==
    /\ Blocked(mode, access, va)
    /\ IF access = "fetch" THEN Raise("PrefetchAbort", mode, va, access, va)
       ELSE Raise("DataAbort", mode, pc, access, va)

-----------------------------------------------------------------------------
(* uart_intr_h.                                                            *)

CharAccess ==
    [N |-> [access |-> "read", va |-> 0],
     P |-> [access |-> "fetch", va |-> 0],
     C |-> [access |-> "write", va |-> text_kernel_start],
     U |-> [access |-> "read", va |-> ram_user_start - 8],
     X |-> [access |-> "fetch", va |-> text_user_start]]

HandlerPc == text_kernel_start + PAGE

(* One address of every part of the memory.                                *)
Addresses ==
    {0, text_kernel_start, ram_kernel_start, orig_globals_start,
     text_user_start, ram_user_start, ram_user_start + MainStack * PAGE,
     ram_user_start + MainStack * PAGE - 4, phys_ram_user_start}

(* The kernel stores a character at va for a thread that has asked for it  *)
(* at address p.  Nobody checks p: the store can be refused, or be none    *)
(* into the memory the thread could write at p itself.  What follows then  *)
(* is left out.  text is the kernel's text before the store.               *)
KernelStore(mode, p, va, text) ==
    \/ Abort(mode, HandlerPc, "write", va) /\ kernel_text' = text
    \/ /\ ~Blocked(mode, "write", va)
       /\ stage' = IF /\ Permitted("User", "write", Translation(p))
                       /\ Translation(va).pa = Translation(p).pa
                    THEN stage ELSE "astray"
       /\ kernel_text' = IF va = text_kernel_start THEN "overwritten" ELSE text
       /\ output' = Nothing
       /\ UNCHANGED <<dfsr, dfar>>

(* The character reaches the buffer or is dropped if that is full, or      *)
(* thread_process_char_received stores it for the thread that waits.       *)
Receive(c, text) ==
    \/ /\ \/ Interrupt(c)
          \/ uart_input_buffer.is_full /\ UNCHANGED uartVars
       /\ kernel_text' = text /\ output' = Nothing
       /\ UNCHANGED <<stage, dfsr, dfar>>
    \/ /\ InterruptDelivers(c)
       /\ \E p \in Addresses : KernelStore("IRQ", p, virt2phys_adr(p, 0), text)

(* The access of the handler is done: a write changes the kernel's text, a *)
(* jump does not come back, a read has no effect.                          *)
Accessed(c) ==
    LET access == CharAccess[c].access
    IN  IF access = "fetch"
        THEN /\ stage' = "lost" /\ output' = Nothing
             /\ UNCHANGED <<uartVars, kernel_text, dfsr, dfar>>
        ELSE Receive(c, IF access = "write" THEN "overwritten" ELSE kernel_text)

Type(c) ==
    /\ On
    /\ IF c \notin DOMAIN CharAccess
       THEN Receive(c, kernel_text)
       ELSE LET a == CharAccess[c]
            IN  \/ ~Blocked("IRQ", a.access, a.va) /\ Accessed(c)
                \/ /\ Abort("IRQ", HandlerPc, a.access, a.va)
                   /\ UNCHANGED <<uartVars, kernel_text>>

-----------------------------------------------------------------------------
(* User code.                                                              *)
UserPc == text_user_start + 8

UserAccess(access, va) ==
    /\ \/ Abort("User", UserPc, access, va) /\ UNCHANGED kernel_text
       \/ /\ ~Blocked("User", access, va)
          /\ kernel_text' = IF access = "write" /\ va = text_kernel_start
                            THEN "overwritten" ELSE kernel_text
          /\ output' = Nothing
          /\ UNCHANGED <<stage, dfsr, dfar>>
    /\ UNCHANGED uartVars

(* An undefined instruction, a system call with an unknown number.         *)
UserTraps ==
    /\ \E exception \in {"Undefined", "Svc"} :
          Raise(exception, "User", UserPc, "fetch", UserPc)
    /\ UNCHANGED <<uartVars, kernel_text>>

(* handle_read_char with any pointer.                                      *)
UserReads ==
    \/ /\ ReadBuffered
       /\ \E p \in Addresses : KernelStore("Supervisor", p, p, kernel_text)
    \/ /\ ReadWait
       /\ output' = Nothing
       /\ UNCHANGED <<stage, kernel_text, dfsr, dfar>>

UserStep ==
    /\ stage = "user"
    /\ \/ UserTraps \/ UserReads
       \/ \E access \in {"read", "write", "fetch"}, va \in Addresses :
             UserAccess(access, va)

Typing == \E c \in Chars : Type(c)

ConsoleNext ==
    \/ Boot
    \/ \E piece \in Pieces, n \in Numbers : PrintNumber(piece, n)
    \/ Typing
    \/ UserStep

(* The user of the console goes on typing, ordinary characters too.        *)
OrdinaryTyping == \E c \in Chars \ DOMAIN CharAccess : Type(c)

ConsoleSpec ==
    ConsoleInit /\ [][ConsoleNext]_consoleVars /\ WF_consoleVars(OrdinaryTyping)

-----------------------------------------------------------------------------
(* Properties.                                                             *)

(* From mmu_init on no character (uart.c:98, "access invalid memory        *)
(* regions"), no user code and no store of the kernel through a pointer of *)
(* a thread changes the kernel's text or takes the processor out of it;    *)
(* before, a character can do both.                                        *)
KernelProtected ==
    [][stage \notin {"reset", "early"} =>
          kernel_text' = kernel_text /\ stage' # "lost"]_consoleVars

(* Every number the kernel prints reads back as that number, in a field of *)
(* the wanted width, and fits into the buffer of kprintf.                  *)
NumeralsRight ==
    output.kind = "number" =>
        LET piece == output.piece
            base == IF piece.conversion = "x" THEN 16 ELSE 10
        IN  /\ IsNumeral(output.text, output.n, base, piece.width, piece.pad)
            /\ Len(output.text) < buff_len

AddressText(a) == kprintf(<<"0", "x", "%", "0", "8", "x">>, <<a>>)

PrintsAddress(printed, a) ==
    \E text \in {AddressText(printed)} :
        /\ SubSeq(text, 1, 2) = <<"0", "x">>
        /\ IsNumeral(SubSeq(text, 3, Len(text)), a, 16, 8, "0")

(* Why the MMU refuses an access: there is no entry, or it gives no right. *)
Refusal(tr) ==
    IF tr.valid
    THEN [Page    |-> "Permission fault on Page",
          Section |-> "Permission fault on Section"][tr.level]
    ELSE [Page    |-> "Translation fault on Page",
          Section |-> "Translation fault on Section"][tr.level]

(* The report of an exception names the address of its cause and the mode  *)
(* it happened in; that of a data abort also the access, its address and   *)
(* why it was refused.  Only a fault of the kernel halts the system.       *)
ReportsRight ==
    output.kind \notin {"nothing", "number"} =>
        LET cause == output.cause
        IN  /\ PrintsAddress(output.at, cause.pc)
            /\ output.mode = (IF cause.mode = "User" THEN "User/System" ELSE cause.mode)
            /\ stage = "halted" <=> cause.mode # "User"
            /\ output.kind = "DataAbort" =>
                 /\ output.direction = (IF cause.access = "write" THEN "schreibend" ELSE "lesend")
                 /\ PrintsAddress(output.address, cause.va)
                 /\ output.error = Refusal(cause.tr)

(* A thread that waits for a character gets one if the user goes on        *)
(* typing, unless a character halts the system: no delivery is forgotten.  *)
(* While somebody waits the buffer can only be full if it was full before. *)
ReaderServed ==
    waiting /\ ~uart_input_buffer.is_full ~> ~waiting \/ stage = "halted"
=============================================================================
