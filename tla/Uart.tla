-------------------------------- MODULE Uart --------------------------------
(***************************************************************************)
(* The path of an input character: the interrupt handler of the UART       *)
(* driver (uart.c), the ring buffer it shares with the read_char system    *)
(* call (syscalls.c) and the one thread that may wait for a character      *)
(* (thread.c).  Unlike Threads it keeps the characters themselves.  A      *)
(* thread gets a character when uart_get_char takes it out of the buffer;  *)
(* where the kernel stores it then is left to Console.                     *)
(***************************************************************************)
EXTENDS UartBuffer, Sequences

VARIABLES uart_input_buffer,
          waiting,      \* char_thread # NO_TCB, and it has not got a character
          received      \* the character a thread got last

uartVars == <<uart_input_buffer, waiting, received>>

Init == uart_input_buffer = EmptyBuffer /\ waiting = FALSE /\ received = NUL

(* Mutant: the handler does not look at is_full.                           *)
InterruptOverwrites(c) ==
    /\ ~waiting
    /\ uart_input_buffer' = PutChar(uart_input_buffer, c)
    /\ UNCHANGED <<waiting, received>>

(* uart_intr_h with nobody waiting.  A character that finds the buffer     *)
(* full is dropped: the handler returns without any effect.                *)
Interrupt(c) ==
    /\ ~uart_input_buffer.is_full /\ ~waiting
    /\ uart_input_buffer' = PutChar(uart_input_buffer, c)
    /\ UNCHANGED <<waiting, received>>

(* Mutant: char_thread is not reset.                                       *)
InterruptWaitsOn(c) ==
    /\ ~uart_input_buffer.is_full /\ waiting
    /\ LET b == PutChar(uart_input_buffer, c)
       IN  received' = CharAtTail(b) /\ uart_input_buffer' = GetChar(b)
    /\ UNCHANGED waiting

(* uart_intr_h, with thread_process_char_received up to its store.         *)
InterruptDelivers(c) ==
    /\ ~uart_input_buffer.is_full /\ waiting
    /\ LET b == PutChar(uart_input_buffer, c)
       IN  received' = CharAtTail(b) /\ uart_input_buffer' = GetChar(b)
    /\ waiting' = FALSE

(* handle_read_char, up to its store through the pointer of the thread.    *)
ReadBuffered ==
    /\ CharAvailable(uart_input_buffer)
    /\ received' = CharAtTail(uart_input_buffer)
    /\ uart_input_buffer' = GetChar(uart_input_buffer)
    /\ UNCHANGED waiting

(* Mutant: the reader does not look into the buffer first.                 *)
WaitAlways == ~waiting /\ waiting' = TRUE /\ UNCHANGED <<uart_input_buffer, received>>

ReadWait ==
    /\ ~CharAvailable(uart_input_buffer) /\ ~waiting
    /\ waiting' = TRUE
    /\ UNCHANGED <<uart_input_buffer, received>>

Interrupts == \E c \in Chars : Interrupt(c) \/ InterruptDelivers(c)

Next == Interrupts \/ ReadBuffered \/ ReadWait

Spec == Init /\ [][Next]_uartVars

-----------------------------------------------------------------------------
(* The unread characters, oldest first.                                    *)
Unread == [i \in 1 .. Stored(uart_input_buffer) |->
             uart_input_buffer.buff[(uart_input_buffer.tail + i - 1)
                                        % UART_INPUT_BUFFER_SIZE]]

Promise == INSTANCE Fifo WITH Capacity <- UART_INPUT_BUFFER_SIZE,
                              unread <- Unread

(* Types; and uart_get_char never spins: thread_process_char_received      *)
(* calls it after a store and handle_read_char when the indices differ, so *)
(* here only the flag has to agree with the indices.                       *)
TypeOK ==
    /\ uart_input_buffer \in RingBuffers
    /\ waiting \in BOOLEAN /\ received \in Chars \cup {NUL}
    /\ uart_input_buffer.is_full =>
         uart_input_buffer.head = uart_input_buffer.tail
    /\ waiting => ~CharAvailable(uart_input_buffer)

(* The ring buffer implements the promised queue: no character is lost,    *)
(* doubled or overtaken between interrupt and reader, across every wrap of *)
(* the indices.                                                            *)
InOrder == Promise!Spec

(* A thread waits only when there is nothing to read (syscalls.c:66-71,    *)
(* "deliver char if available", "otherwise let thread wait for char").     *)
WaitsOnlyIfEmpty == waiting => Unread = <<>>
=============================================================================
