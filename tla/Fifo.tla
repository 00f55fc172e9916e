-------------------------------- MODULE Fifo --------------------------------
(***************************************************************************)
(* What the serial input promises to the threads: characters are read in   *)
(* the order they arrived, each at most once; one is dropped only when     *)
(* Capacity characters are unread; a waiting reader gets the next          *)
(* character at once.                                                      *)
(***************************************************************************)
EXTENDS Sequences, Naturals

CONSTANTS Capacity, Chars, NUL

VARIABLES
    unread,     \* the characters nobody has read yet, oldest first
    waiting,    \* a thread waits for a character
    received    \* the character handed over last

fifoVars == <<unread, waiting, received>>

Init == unread = <<>> /\ waiting = FALSE /\ received = NUL

Store(c) ==
    /\ ~waiting /\ Len(unread) < Capacity
    /\ unread' = Append(unread, c)
    /\ UNCHANGED <<waiting, received>>

(* The oldest character, counting the one that arrives.                    *)
Deliver(c) ==
    /\ waiting /\ Len(unread) < Capacity
    /\ received' = Head(Append(unread, c))
    /\ unread' = Tail(Append(unread, c))
    /\ waiting' = FALSE

Read ==
    /\ unread # <<>>
    /\ received' = Head(unread)
    /\ unread' = Tail(unread)
    /\ UNCHANGED waiting

Wait == ~waiting /\ waiting' = TRUE /\ UNCHANGED <<unread, received>>

Next == (\E c \in Chars : Store(c) \/ Deliver(c)) \/ Read \/ Wait

Spec == Init /\ [][Next]_fifoVars
=============================================================================
