----------------------------- MODULE UartBuffer -----------------------------
(***************************************************************************)
(* The receive ring buffer of the UART driver (uart.c: struct ring_buf and *)
(* the functions on it) as pure operators.  A buffer b is a record with    *)
(* the fields of the C struct; the modules that hold the variable          *)
(* uart_input_buffer apply these operators to it.                          *)
(***************************************************************************)
EXTENDS Integers

CONSTANTS
    UART_INPUT_BUFFER_SIZE,   \* number of slots (128 in config.h)
    Chars,                    \* characters the serial line can deliver
    NUL                       \* the initial content of a slot

ASSUME BufferAssumption ==
    /\ UART_INPUT_BUFFER_SIZE \in Nat \ {0}
    /\ NUL \notin Chars

Slots == 0 .. UART_INPUT_BUFFER_SIZE - 1

RingBuffers == [head : Slots, tail : Slots, is_full : BOOLEAN,
                buff : [Slots -> Chars \cup {NUL}]]

EmptyBuffer == [head |-> 0, tail |-> 0, is_full |-> FALSE,
                buff |-> [i \in Slots |-> NUL]]

NextSlot(i) == (i + 1) % UART_INPUT_BUFFER_SIZE

(* uart_char_available: looks at the two indices only, so a full buffer,   *)
(* whose indices are equal again, counts as "nothing available".           *)
CharAvailable(b) == b.head # b.tail

(* uart_get_char busy-waits for b.is_full \/ CharAvailable(b); its two     *)
(* callers only come after a store or with CharAvailable(b), so it never   *)
(* does.                                                                   *)
CharAtTail(b) == b.buff[b.tail]

GetChar(b) == [b EXCEPT !.tail = NextSlot(b.tail), !.is_full = FALSE]

(* The store of uart_intr_h, which its caller reaches only with ~is_full.  *)
PutChar(b, c) ==
    LET head == NextSlot(b.head)
    IN  [b EXCEPT !.buff[b.head] = c, !.head = head,
                  !.is_full = b.is_full \/ head = b.tail]

(* Number of characters stored and not yet read.                           *)
Stored(b) == IF b.is_full THEN UART_INPUT_BUFFER_SIZE
             ELSE (b.head - b.tail) % UART_INPUT_BUFFER_SIZE
=============================================================================
