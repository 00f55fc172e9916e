--------------------------- MODULE ConsoleProofs ---------------------------
(***************************************************************************)
(* The ring buffer of the UART driver implements the queue of Fifo, for    *)
(* every size of the buffer and every set of characters, and still does so *)
(* under the console with its exceptions.  For every size of pages and of  *)
(* the linked program, the console protects the kernel's text once the MMU *)
(* is on, the report of an exception names the instruction and the mode it *)
(* came from (of a data abort also the access), and every number it prints *)
(* reads back as that number.                                              *)
(***************************************************************************)
EXTENDS Console, LayoutProofs, KprintfProofs

N == UART_INPUT_BUFFER_SIZE

(* The unread characters of a buffer; Unread is that of the variable.      *)
UnreadOf(b) == [i \in 1 .. Stored(b) |-> b.buff[(b.tail + i - 1) % N]]

LEMMA UnreadIs == Unread = UnreadOf(uart_input_buffer)
BY DEF Unread, UnreadOf, N

LEMMA SizeType == N \in Nat \ {0}
BY BufferAssumption DEF N

(* The remainders the indices take.                                        *)
LEMMA Wrap ==
  ASSUME NEW x \in Int
  PROVE  /\ x \in 0 .. N - 1 => x % N = x
         /\ x \in N .. 2 * N - 1 => x % N = x - N
         /\ x \in -N .. -1 => x % N = x + N
<1>1. \A k \in Int : \A r \in 0 .. N - 1 : (N * k + r) % N = r
  BY SizeType
<1>2. x \in 0 .. N - 1 => (N * 0 + x) % N = x
  BY <1>1
<1>3. x \in N .. 2 * N - 1 => (N * 1 + (x - N)) % N = x - N
  BY <1>1, SizeType
<1>4. x \in -N .. -1 => (N * (-1) + (x + N)) % N = x + N
  BY <1>1, SizeType
<1> QED BY <1>2, <1>3, <1>4, SizeType

(* A buffer the program can be in: a full one has equal indices.           *)
Sound(b) == b \in RingBuffers /\ (b.is_full => b.head = b.tail)

(* The number of characters a buffer that is not full holds, and the index *)
(* after another.                                                          *)
Between(n, h, t) == (h >= t => n = h - t) /\ (h < t => n = h - t + N)
Follows(i2, i) == i2 = IF i + 1 = N THEN 0 ELSE i + 1

LEMMA StoredIs ==
  ASSUME NEW b, Sound(b)
  PROVE  /\ b.head \in 0 .. N - 1 /\ b.tail \in 0 .. N - 1 /\ b.is_full \in BOOLEAN
         /\ b.buff \in [0 .. N - 1 -> Chars \cup {NUL}]
         /\ Stored(b) \in 0 .. N
         /\ b.is_full => Stored(b) = N /\ b.head = b.tail
         /\ ~b.is_full => Between(Stored(b), b.head, b.tail)
<1>1. /\ b.head \in 0 .. N - 1 /\ b.tail \in 0 .. N - 1 /\ b.is_full \in BOOLEAN
      /\ b.buff \in [0 .. N - 1 -> Chars \cup {NUL}]
  BY DEF Sound, RingBuffers, Slots, N
<1>2. b.head - b.tail \in Int /\ b.head - b.tail \in -N .. N - 1
  BY <1>1, SizeType
<1>3. /\ b.head >= b.tail => (b.head - b.tail) % N = b.head - b.tail
      /\ b.head < b.tail => (b.head - b.tail) % N = b.head - b.tail + N
  BY <1>1, <1>2, Wrap, SizeType
<1>4. Stored(b) = IF b.is_full THEN N ELSE (b.head - b.tail) % N
  BY DEF Stored, N
<1>5. Stored(b) \in 0 .. N
  BY <1>1, <1>3, <1>4, SizeType
<1>6. ~b.is_full => Between(Stored(b), b.head, b.tail)
  BY <1>3, <1>4 DEF Between
<1> QED BY <1>1, <1>4, <1>5, <1>6 DEF Sound

(* Where the character number i is stored.                                 *)
LEMMA SlotOf ==
  ASSUME NEW t \in 0 .. N - 1, NEW i \in 1 .. N
  PROVE  /\ (t + i - 1) % N \in 0 .. N - 1
         /\ (t + i - 1) % N = IF t + i - 1 < N THEN t + i - 1 ELSE t + i - 1 - N
<1>1. t + i - 1 \in Int /\ t + i - 1 \in 0 .. 2 * N - 1
  BY SizeType
<1> QED BY <1>1, Wrap, SizeType

LEMMA UnreadType ==
  ASSUME NEW b, Sound(b)
  PROVE  /\ UnreadOf(b) \in Seq(Chars \cup {NUL})
         /\ Len(UnreadOf(b)) = Stored(b)
         /\ \A i \in 1 .. Stored(b) : UnreadOf(b)[i] = b.buff[(b.tail + i - 1) % N]
<1>1. Stored(b) \in 0 .. N /\ b.tail \in 0 .. N - 1
      /\ b.buff \in [0 .. N - 1 -> Chars \cup {NUL}]
  BY StoredIs
<1>2. \A i \in 1 .. Stored(b) : b.buff[(b.tail + i - 1) % N] \in Chars \cup {NUL}
  BY <1>1, SlotOf, SizeType
<1>3. UnreadOf(b) \in [1 .. Stored(b) -> Chars \cup {NUL}] /\ Stored(b) \in Nat
  BY <1>1, <1>2, SizeType DEF UnreadOf
<1> QED BY <1>3 DEF UnreadOf

-----------------------------------------------------------------------------
(* The arithmetic of the two operations: h and t are the indices, h2 or t2 *)
(* the one that moves, n and n2 the numbers of characters.                 *)

LEMMA OneMore ==
  ASSUME NEW h \in 0 .. N - 1, NEW t \in 0 .. N - 1, NEW h2 \in 0 .. N - 1,
         NEW n \in 0 .. N, NEW n2 \in 0 .. N,
         Between(n, h, t), Follows(h2, h),
         h2 = t => n2 = N, h2 # t => Between(n2, h2, t)
  PROVE  n < N /\ n2 = n + 1
BY SizeType DEF Between, Follows

LEMMA EndSlot ==
  ASSUME NEW h \in 0 .. N - 1, NEW t \in 0 .. N - 1, NEW n \in 0 .. N - 1,
         Between(n, h, t), NEW i \in 1 .. n + 1
  PROVE  (t + i - 1) % N = h <=> i = n + 1
<1>1. i \in 1 .. N
  BY SizeType
<1> DEFINE r == (t + i - 1) % N
<1>2. r = IF t + i - 1 < N THEN t + i - 1 ELSE t + i - 1 - N
  BY <1>1, SlotOf
<1> HIDE DEF r
<1>3. r = h <=> i = n + 1
  BY <1>1, <1>2, SizeType DEF Between
<1> QED BY <1>3 DEF r

LEMMA OneLess ==
  ASSUME NEW h \in 0 .. N - 1, NEW t \in 0 .. N - 1, NEW t2 \in 0 .. N - 1,
         NEW n \in 1 .. N, NEW n2 \in 0 .. N, Follows(t2, t),
         Between(n, h, t) \/ (n = N /\ h = t), Between(n2, h, t2)
  PROVE  n2 = n - 1
BY SizeType DEF Between, Follows

LEMMA ShiftedSlot ==
  ASSUME NEW t \in 0 .. N - 1, NEW t2 \in 0 .. N - 1, Follows(t2, t),
         NEW i \in 1 .. N - 1
  PROVE  (t2 + i - 1) % N = (t + (i + 1) - 1) % N
<1>1. i \in 1 .. N /\ i + 1 \in 1 .. N
  BY SizeType
<1> DEFINE r2 == (t2 + i - 1) % N
           r == (t + (i + 1) - 1) % N
<1>2. r2 = IF t2 + i - 1 < N THEN t2 + i - 1 ELSE t2 + i - 1 - N
  BY <1>1, SlotOf
<1>3. r = IF t + (i + 1) - 1 < N THEN t + (i + 1) - 1 ELSE t + (i + 1) - 1 - N
  BY <1>1, SlotOf
<1> HIDE DEF r, r2
<1>4. r2 = r
  BY <1>1, <1>2, <1>3, SizeType DEF Follows
<1> QED BY <1>4 DEF r, r2

-----------------------------------------------------------------------------
(* The two operations of the buffer.                                       *)

LEMMA NextSlotIs ==
  ASSUME NEW i \in 0 .. N - 1
  PROVE  NextSlot(i) \in 0 .. N - 1
         /\ Follows(NextSlot(i), i)
<1>1. NextSlot(i) = (i + 1) % N /\ i + 1 \in Int
  BY DEF NextSlot, N
<1> QED BY <1>1, Wrap, SizeType DEF Follows

(* A store adds the character at the end.                                  *)
LEMMA PutAppends ==
  ASSUME NEW b, Sound(b), ~b.is_full, NEW c \in Chars
  PROVE  /\ Sound(PutChar(b, c)) /\ Stored(b) < N
         /\ UnreadOf(PutChar(b, c)) = Append(UnreadOf(b), c)
<1> DEFINE d == PutChar(b, c)
           s == UnreadOf(b)
           C == Chars \cup {NUL}
<1>1. /\ b.head \in 0 .. N - 1 /\ b.tail \in 0 .. N - 1
      /\ b.buff \in [0 .. N - 1 -> C] /\ b \in RingBuffers
  BY StoredIs DEF Sound
<1>2. /\ d.head = NextSlot(b.head) /\ d.tail = b.tail
      /\ d.is_full = (NextSlot(b.head) = b.tail)
      /\ d.buff = [b.buff EXCEPT ![b.head] = c]
  BY <1>1 DEF PutChar, RingBuffers
<1>3. d \in RingBuffers
  <2>1. NextSlot(b.head) \in Slots
    BY <1>1, NextSlotIs DEF Slots, N
  <2> QED BY <1>1, <2>1 DEF PutChar, RingBuffers
<1>4. Sound(d)
  BY <1>2, <1>3 DEF Sound
<1> HIDE DEF d
<1>5. Stored(b) \in 0 .. N - 1 /\ Stored(d) = Stored(b) + 1
  <2>1. Stored(b) \in 0 .. N /\ Between(Stored(b), b.head, b.tail)
    BY StoredIs
  <2>2. /\ d.head \in 0 .. N - 1 /\ d.tail = b.tail /\ Stored(d) \in 0 .. N
        /\ d.head = b.tail => Stored(d) = N
        /\ d.head # b.tail => Between(Stored(d), d.head, b.tail)
    BY <1>2, <1>4, StoredIs
  <2>3. Follows(d.head, b.head)
    BY <1>1, <1>2, NextSlotIs
  <2>4. Stored(b) < N /\ Stored(d) = Stored(b) + 1
    BY <1>1, <2>1, <2>2, <2>3, OneMore
  <2> QED BY <2>1, <2>4, SizeType
<1> HIDE DEF s
<1>6. ASSUME NEW i \in 1 .. Stored(b) PROVE UnreadOf(d)[i] = s[i]
  <2>1. i \in 1 .. N /\ i \in 1 .. Stored(b) + 1 /\ i # Stored(b) + 1
        /\ i \in 1 .. Stored(d)
    BY <1>5, SizeType
  <2>2. (b.tail + i - 1) % N # b.head
    BY <1>1, <1>5, <2>1, StoredIs, EndSlot
  <2>3. (b.tail + i - 1) % N \in 0 .. N - 1
    BY <1>1, <2>1, SlotOf
  <2>4. d.buff[(b.tail + i - 1) % N] = b.buff[(b.tail + i - 1) % N]
    BY <1>1, <1>2, <2>2, <2>3
  <2>5. UnreadOf(d)[i] = d.buff[(d.tail + i - 1) % N]
    BY <1>4, <2>1, UnreadType
  <2>6. s[i] = b.buff[(b.tail + i - 1) % N]
    BY UnreadType DEF s
  <2> QED BY <1>2, <2>4, <2>5, <2>6
<1>7. UnreadOf(d)[Stored(b) + 1] = c
  <2> DEFINE k == Stored(b) + 1
  <2>1. k \in 1 .. Stored(b) + 1 /\ k \in 1 .. Stored(d)
    BY <1>5, SizeType
  <2>2. (b.tail + k - 1) % N = b.head
    BY <1>1, <1>5, <2>1, StoredIs, EndSlot
  <2> HIDE DEF k
  <2>3. UnreadOf(d)[k] = d.buff[(d.tail + k - 1) % N]
    BY <1>4, <2>1, UnreadType
  <2>4. UnreadOf(d)[k] = c
    BY <1>1, <1>2, <2>2, <2>3
  <2> QED BY <2>4 DEF k
<1>8. UnreadOf(d) = Append(s, c)
  <2>1. s \in Seq(C) /\ Len(s) = Stored(b)
        /\ UnreadOf(d) \in Seq(C) /\ Len(UnreadOf(d)) = Stored(d)
    BY <1>4, UnreadType DEF s
  <2> HIDE DEF C
  <2>2. /\ Append(s, c) \in Seq(C) /\ Len(Append(s, c)) = Len(s) + 1
        /\ \A i \in 1 .. Len(s) : Append(s, c)[i] = s[i]
        /\ Append(s, c)[Len(s) + 1] = c
    <3>1. c \in C
      BY DEF C
    <3> QED BY <2>1, <3>1, AppendProperties
  <2>3. \A i \in 1 .. Len(UnreadOf(d)) : UnreadOf(d)[i] = Append(s, c)[i]
    BY <1>5, <1>6, <1>7, <2>1, <2>2
  <2> QED BY <1>5, <2>1, <2>2, <2>3, SeqEqual
<1> QED BY <1>4, <1>5, <1>8, SizeType DEF d, s

(* Taking a character removes the first one.                               *)
LEMMA GetTakes ==
  ASSUME NEW b, Sound(b), Stored(b) # 0
  PROVE  /\ Sound(GetChar(b)) /\ UnreadOf(b) # <<>>
         /\ CharAtTail(b) = Head(UnreadOf(b))
         /\ UnreadOf(GetChar(b)) = Tail(UnreadOf(b))
<1> DEFINE d == GetChar(b)
           s == UnreadOf(b)
           C == Chars \cup {NUL}
<1>1. /\ b.head \in 0 .. N - 1 /\ b.tail \in 0 .. N - 1
      /\ b.buff \in [0 .. N - 1 -> C] /\ b \in RingBuffers
      /\ Stored(b) \in 1 .. N
  BY StoredIs, SizeType DEF Sound
<1>2. /\ d.head = b.head /\ d.tail = NextSlot(b.tail)
      /\ d.is_full = FALSE /\ d.buff = b.buff
  BY <1>1 DEF GetChar, RingBuffers
<1>3. Sound(d)
  <2>1. NextSlot(b.tail) \in Slots
    BY <1>1, NextSlotIs DEF Slots, N
  <2> QED BY <1>1, <2>1 DEF GetChar, RingBuffers, Sound
<1> HIDE DEF d
<1>4. Stored(d) = Stored(b) - 1
  <2>1. Between(Stored(b), b.head, b.tail) \/ (Stored(b) = N /\ b.head = b.tail)
    BY StoredIs
  <2>2. /\ d.tail \in 0 .. N - 1 /\ Stored(d) \in 0 .. N
        /\ Between(Stored(d), b.head, d.tail)
    BY <1>2, <1>3, StoredIs
  <2>3. Follows(d.tail, b.tail)
    BY <1>1, <1>2, NextSlotIs
  <2> QED BY <1>1, <2>1, <2>2, <2>3, OneLess
<1>5. s \in Seq(C) /\ Len(s) = Stored(b) /\ s # <<>>
      /\ UnreadOf(d) \in Seq(C) /\ Len(UnreadOf(d)) = Stored(d)
  BY <1>1, <1>3, UnreadType
<1>6. CharAtTail(b) = Head(s)
  <2>1. s[1] = b.buff[(b.tail + 1 - 1) % N]
    BY <1>1, UnreadType
  <2>2. (b.tail + 1 - 1) % N = b.tail
    BY <1>1, SlotOf, SizeType
  <2> QED BY <1>5, <2>1, <2>2 DEF CharAtTail
<1>7. ASSUME NEW i \in 1 .. Stored(d) PROVE UnreadOf(d)[i] = s[i + 1]
  <2>1. i \in 1 .. N /\ i + 1 \in 1 .. N /\ i + 1 \in 1 .. Stored(b)
    BY <1>1, <1>4, SizeType
  <2>2. (d.tail + i - 1) % N = (b.tail + (i + 1) - 1) % N
    <3>1. b.tail \in 0 .. N - 1 /\ d.tail \in 0 .. N - 1
          /\ Follows(d.tail, b.tail)
      BY <1>1, <1>2, NextSlotIs
    <3>2. Stored(b) \in 1 .. N
      BY <1>1
    <3>3. i \in 1 .. N - 1
      BY <1>4, <3>2, SizeType
    <3> QED BY <3>1, <3>3, ShiftedSlot
  <2>3. UnreadOf(d)[i] = d.buff[(d.tail + i - 1) % N]
    BY <1>3, UnreadType
  <2>4. s[i + 1] = b.buff[(b.tail + (i + 1) - 1) % N]
    BY <2>1, UnreadType
  <2> QED BY <1>2, <2>2, <2>3, <2>4
<1>8. UnreadOf(d) = Tail(s)
  <2> HIDE DEF s, C
  <2>1. Tail(s) \in Seq(C) /\ Len(Tail(s)) = Len(s) - 1
        /\ \A i \in 1 .. Len(Tail(s)) : Tail(s)[i] = s[i + 1]
    BY <1>5, HeadTailProperties
  <2> QED BY <1>1, <1>4, <1>5, <1>7, <2>1, SeqEqual
<1> QED BY <1>3, <1>5, <1>6, <1>8 DEF d

-----------------------------------------------------------------------------
(* The refinement.                                                         *)

Inv == Sound(uart_input_buffer)

LEMMA InitRefines == Init => Inv /\ Promise!Init
<1> SUFFICES ASSUME Init PROVE Inv /\ Promise!Init
  OBVIOUS
<1>1. uart_input_buffer = EmptyBuffer
  BY DEF Init
<1>2. Inv /\ ~uart_input_buffer.is_full /\ uart_input_buffer.head = 0
      /\ uart_input_buffer.tail = 0
  BY <1>1, SizeType DEF EmptyBuffer, Inv, Sound, RingBuffers, Slots, N
<1>3. Stored(uart_input_buffer) = 0
  BY <1>2, StoredIs, SizeType DEF Inv, Between
<1>4. Unread = <<>>
  BY <1>2, <1>3, UnreadIs, UnreadType, EmptySeq DEF Inv
<1> QED BY <1>2, <1>4 DEF Init, Promise!Init

(* Every step of the handler or of a reader is the step of the queue with  *)
(* the same name.                                                          *)
LEMMA StepRefines == Inv /\ [Next]_uartVars => Inv' /\ [Promise!Next]_(Promise!fifoVars)
<1> SUFFICES ASSUME Inv, [Next]_uartVars
             PROVE  Inv' /\ [Promise!Next]_(Promise!fifoVars)
  OBVIOUS
<1> DEFINE b == uart_input_buffer
<1>1. Unread = UnreadOf(b) /\ Unread' = UnreadOf(b')
  BY DEF Unread, UnreadOf, N
<1>2. Sound(b) /\ Len(UnreadOf(b)) = Stored(b)
  BY UnreadType DEF Inv
<1> HIDE DEF b
<1>3. ASSUME NEW c \in Chars, Interrupt(c) PROVE Inv' /\ Promise!Next
  <2>1. ~b.is_full /\ ~waiting /\ b' = PutChar(b, c) /\ UNCHANGED <<waiting, received>>
    BY <1>3 DEF Interrupt, b
  <2>2. Sound(b') /\ Stored(b) < N /\ UnreadOf(b') = Append(UnreadOf(b), c)
    BY <1>2, <2>1, PutAppends
  <2>3. Promise!Store(c)
    BY <1>1, <1>2, <2>1, <2>2 DEF Promise!Store, N
  <2> QED BY <2>2, <2>3 DEF Promise!Next, Inv, b
<1>4. ASSUME NEW c \in Chars, InterruptDelivers(c) PROVE Inv' /\ Promise!Next
  <2> DEFINE d == PutChar(b, c)
  <2>1. /\ ~b.is_full /\ waiting /\ waiting' = FALSE
        /\ received' = CharAtTail(d) /\ b' = GetChar(d)
    BY <1>4 DEF InterruptDelivers, b
  <2>2. Sound(d) /\ Stored(b) < N /\ UnreadOf(d) = Append(UnreadOf(b), c)
    BY <1>2, <2>1, PutAppends
  <2> HIDE DEF d
  <2>3. Stored(d) # 0
    <3>1. Len(UnreadOf(d)) = Stored(d) /\ UnreadOf(b) \in Seq(Chars \cup {NUL})
      BY <1>2, <2>2, UnreadType
    <3>2. Len(UnreadOf(d)) = Stored(b) + 1 /\ Stored(b) \in Nat
      BY <1>2, <2>2, <3>1, AppendProperties, StoredIs, SizeType
    <3> QED BY <3>1, <3>2
  <2>4. /\ Sound(b') /\ received' = Head(Append(UnreadOf(b), c))
        /\ UnreadOf(b') = Tail(Append(UnreadOf(b), c))
    BY <2>1, <2>2, <2>3, GetTakes
  <2>5. Promise!Deliver(c)
    BY <1>1, <1>2, <2>1, <2>2, <2>4 DEF Promise!Deliver, N
  <2> QED BY <2>4, <2>5 DEF Promise!Next, Inv, b
<1>5. ASSUME ReadBuffered PROVE Inv' /\ Promise!Next
  <2>1. /\ b.head # b.tail /\ received' = CharAtTail(b) /\ b' = GetChar(b)
        /\ UNCHANGED waiting
    BY <1>5 DEF ReadBuffered, CharAvailable, b
  <2>2. Stored(b) # 0
    BY <1>2, <2>1, StoredIs, SizeType DEF Between
  <2>3. /\ Sound(b') /\ UnreadOf(b) # <<>> /\ received' = Head(UnreadOf(b))
        /\ UnreadOf(b') = Tail(UnreadOf(b))
    BY <1>2, <2>1, <2>2, GetTakes
  <2>4. Promise!Read
    BY <1>1, <2>1, <2>3 DEF Promise!Read
  <2> QED BY <2>3, <2>4 DEF Promise!Next, Inv, b
<1>6. ASSUME ReadWait PROVE Inv' /\ Promise!Next
  <2>1. ~waiting /\ waiting' = TRUE /\ UNCHANGED <<b, received>>
    BY <1>6 DEF ReadWait, b
  <2>2. Promise!Wait
    BY <1>1, <2>1 DEF Promise!Wait
  <2> QED BY <1>2, <2>1, <2>2 DEF Promise!Next, Inv, b
<1>7. ASSUME UNCHANGED uartVars PROVE Inv' /\ UNCHANGED Promise!fifoVars
  <2>1. UNCHANGED <<b, waiting, received>>
    BY <1>7 DEF uartVars, b
  <2> QED BY <1>1, <1>2, <2>1 DEF Promise!fifoVars, Inv, b
<1> QED BY <1>3, <1>4, <1>5, <1>6, <1>7 DEF Next, Interrupts

(* The driver's ring buffer is a queue to the threads: no character is     *)
(* lost, doubled or overtaken between interrupt and reader, for every size *)
(* of the buffer.                                                          *)
THEOREM BufferIsQueue == Spec => InOrder
BY InitRefines, StepRefines, PTL DEF Spec, InOrder, Promise!Spec

-----------------------------------------------------------------------------
(* The types, and that somebody waits only while the indices are equal.    *)
LEMMA StepTypes == TypeOK /\ [Next]_uartVars => TypeOK'
<1> SUFFICES ASSUME TypeOK, [Next]_uartVars PROVE TypeOK'
  OBVIOUS
<1> DEFINE b == uart_input_buffer
<1>1. /\ Sound(b) /\ waiting \in BOOLEAN /\ received \in Chars \cup {NUL}
      /\ waiting => b.head = b.tail
  BY DEF TypeOK, Sound, CharAvailable
<1>2. ASSUME NEW d, Sound(d) PROVE CharAtTail(d) \in Chars \cup {NUL}
  BY <1>2, StoredIs DEF CharAtTail
<1> HIDE DEF b
<1>3. ASSUME Sound(b'), waiting' \in BOOLEAN, received' \in Chars \cup {NUL},
             waiting' => b'.head = b'.tail
      PROVE  TypeOK'
  BY <1>3 DEF TypeOK, Sound, CharAvailable, b
<1>4. ASSUME NEW c \in Chars, Interrupt(c) PROVE TypeOK'
  <2>1. ~b.is_full /\ ~waiting /\ b' = PutChar(b, c) /\ UNCHANGED <<waiting, received>>
    BY <1>4 DEF Interrupt, b
  <2>2. Sound(b')
    BY <1>1, <2>1, PutAppends
  <2> QED BY <1>1, <1>3, <2>1, <2>2
<1>5. ASSUME NEW c \in Chars, InterruptDelivers(c) PROVE TypeOK'
  <2> DEFINE d == PutChar(b, c)
  <2>1. /\ ~b.is_full /\ waiting' = FALSE
        /\ received' = CharAtTail(d) /\ b' = GetChar(d)
    BY <1>5 DEF InterruptDelivers, b
  <2>2. Sound(d) /\ Stored(d) # 0
    <3>1. Sound(d) /\ UnreadOf(d) = Append(UnreadOf(b), c)
      BY <1>1, <2>1, PutAppends
    <3> HIDE DEF d
    <3>2. Len(UnreadOf(d)) = Stored(d) /\ UnreadOf(b) \in Seq(Chars \cup {NUL})
      BY <1>1, <3>1, UnreadType
    <3>3. Len(UnreadOf(d)) = Len(UnreadOf(b)) + 1 /\ Len(UnreadOf(b)) \in Nat
      BY <3>1, <3>2, AppendProperties, LenProperties
    <3> QED BY <3>1, <3>2, <3>3
  <2> HIDE DEF d
  <2>3. Sound(b')
    BY <2>1, <2>2, GetTakes
  <2> QED BY <1>2, <1>3, <2>1, <2>2, <2>3
<1>6. ASSUME ReadBuffered PROVE TypeOK'
  <2>1. /\ b.head # b.tail /\ received' = CharAtTail(b) /\ b' = GetChar(b)
        /\ UNCHANGED waiting
    BY <1>6 DEF ReadBuffered, CharAvailable, b
  <2>2. Stored(b) # 0
    BY <1>1, <2>1, StoredIs, SizeType DEF Between
  <2>3. Sound(b')
    BY <1>1, <2>1, <2>2, GetTakes
  <2> QED BY <1>1, <1>2, <1>3, <2>1, <2>3
<1>7. ASSUME ReadWait PROVE TypeOK'
  <2>1. b.head = b.tail /\ waiting' = TRUE /\ UNCHANGED <<b, received>>
    BY <1>7 DEF ReadWait, CharAvailable, b
  <2> QED BY <1>1, <1>3, <2>1
<1>8. ASSUME UNCHANGED uartVars PROVE TypeOK'
  <2>1. UNCHANGED <<b, waiting, received>>
    BY <1>8 DEF uartVars, b
  <2> QED BY <1>1, <1>3, <2>1
<1> QED BY <1>4, <1>5, <1>6, <1>7, <1>8 DEF Next, Interrupts

(* uart_get_char never spins in its loop, and no thread waits while the    *)
(* indices differ, for every size of the buffer.                           *)
THEOREM BufferTypes == Spec => []TypeOK
<1>1. Init => TypeOK
  <2> SUFFICES ASSUME Init PROVE TypeOK
    OBVIOUS
  <2>1. /\ uart_input_buffer.head = uart_input_buffer.tail
        /\ waiting = FALSE /\ received = NUL
    BY DEF Init, EmptyBuffer
  <2>2. Sound(uart_input_buffer)
    BY InitRefines DEF Inv
  <2> QED BY <2>1, <2>2 DEF TypeOK, CharAvailable, Sound
<1> QED BY <1>1, StepTypes, PTL DEF Spec

-----------------------------------------------------------------------------
(* The console around the buffer.                                          *)

LEMMA ConsoleStep == [ConsoleNext]_consoleVars => [Next]_uartVars
<1> SUFFICES ASSUME [ConsoleNext]_consoleVars PROVE [Next]_uartVars
  OBVIOUS
<1>1. ASSUME NEW c \in Chars, NEW text, Receive(c, text) PROVE [Next]_uartVars
  BY <1>1 DEF Receive, Next, Interrupts
<1>2. ASSUME NEW c \in Chars, Type(c) PROVE [Next]_uartVars
  BY <1>1, <1>2 DEF Type, Accessed
<1>3. CASE UserStep
  BY <1>3 DEF UserStep, UserTraps, UserReads, UserAccess, Next
<1>4. CASE Boot \/ \E piece \in Pieces, n \in Numbers : PrintNumber(piece, n)
  BY <1>4 DEF Boot, PrintNumber
<1>5. CASE UNCHANGED consoleVars
  BY <1>5 DEF consoleVars
<1> QED BY <1>2, <1>3, <1>4, <1>5 DEF ConsoleNext, Typing

(* Whatever else happens on the console - characters before the MMU is on, *)
(* exceptions in the middle of uart_intr_h, a halt - the buffer stays the  *)
(* promised queue.                                                         *)
THEOREM ConsoleInOrder == ConsoleSpec => InOrder
<1>1. ConsoleInit => Init
  BY DEF ConsoleInit
<1> QED BY <1>1, ConsoleStep, BufferIsQueue, PTL DEF ConsoleSpec, Spec

(* Nor does the flag of a full buffer ever disagree with the indices.      *)
THEOREM ConsoleTypes == ConsoleSpec => []TypeOK
<1>1. ConsoleInit => Init
  BY DEF ConsoleInit
<1> QED BY <1>1, ConsoleStep, BufferTypes, PTL DEF ConsoleSpec, Spec

-----------------------------------------------------------------------------
(* The kernel's text.                                                      *)

(* The processor stays where it should be in the handler of an exception.  *)
LEMMA AbortKeeps ==
  ASSUME NEW mode, NEW pc, NEW access, NEW va, stage # "lost",
         Abort(mode, pc, access, va)
  PROVE  stage' # "lost"
<1>1. ASSUME NEW exception, NEW at, Raise(exception, mode, at, access, va)
      PROVE  stage' # "lost"
  BY <1>1 DEF Raise, HandleMode
<1> QED BY <1>1 DEF Abort

(* With the MMU on, a character that makes the handler jump or write into  *)
(* the kernel's text is stopped.                                           *)
LEMMA CharBlocked ==
  ASSUME stage # "early", NEW c \in DOMAIN CharAccess,
         ~ Blocked("IRQ", CharAccess[c].access, CharAccess[c].va)
  PROVE  CharAccess[c].access = "read"
<1>1. c \in {"N", "P", "C", "U", "X"}
  BY DEF CharAccess
<1>2. ASSUME NEW access, NEW va, ~ Blocked("IRQ", access, va)
      PROVE  \E table, stacks : Permitted("IRQ", access, Translate(table, stacks, va))
  BY <1>2 DEF Blocked, Translation
<1>3. CASE c = "P"
  <2>1. CharAccess[c].access = "fetch" /\ CharAccess[c].va = 0
    BY <1>3 DEF CharAccess
  <2>2. In(AlignDown(0), text_kernel_start, text_kernel_end)
    BY <1>2, <2>1, PrivilegedFetch
  <2> QED BY <2>2, TextSections DEF In
<1>4. CASE c = "X"
  <2>1. CharAccess[c].access = "fetch" /\ CharAccess[c].va = text_user_start
    BY <1>4 DEF CharAccess
  <2>2. In(AlignDown(text_user_start), text_kernel_start, text_kernel_end)
    BY <1>2, <2>1, PrivilegedFetch
  <2>3. text_user_start <= AlignDown(text_kernel_end)
    BY <2>2, TextSections DEF In
  <2>4. AlignDown(text_kernel_end) <= text_kernel_end /\ text_kernel_end \in Int
        /\ AlignDown(text_kernel_end) \in Int
    BY ProgramFirst, AlignBounds
  <2> QED BY <2>3, <2>4, TextSections
<1>5. CASE c = "C"
  <2>1. CharAccess[c].access = "write" /\ CharAccess[c].va = text_kernel_start
    BY <1>5 DEF CharAccess
  <2> QED BY <1>2, <2>1, TextNotWritten
<1>6. CASE c \in {"N", "U"}
  BY <1>6 DEF CharAccess
<1> QED BY <1>1, <1>3, <1>4, <1>5, <1>6

(* A store of the kernel does not reach the text, whatever pointer it      *)
(* uses.                                                                   *)
LEMMA StoreProtects ==
  ASSUME stage \notin {"early", "lost"}, NEW mode, NEW p, NEW va, NEW text,
         KernelStore(mode, p, va, text)
  PROVE  kernel_text' = text /\ stage' # "lost"
<1>1. CASE Abort(mode, HandlerPc, "write", va) /\ kernel_text' = text
  BY <1>1, AbortKeeps
<1>2. CASE ~ Blocked(mode, "write", va) /\ stage' \in {stage, "astray"}
           /\ kernel_text' = IF va = text_kernel_start THEN "overwritten" ELSE text
  BY <1>2, TextNotWritten DEF Blocked, Translation
<1> QED BY <1>1, <1>2 DEF KernelStore

LEMMA ReceiveProtects ==
  ASSUME stage \notin {"early", "lost"}, NEW c, NEW text, Receive(c, text)
  PROVE  kernel_text' = text /\ stage' # "lost"
BY StoreProtects DEF Receive

LEMMA TypeProtects ==
  ASSUME NEW c, stage \notin {"reset", "early"}, stage # "lost", Type(c)
  PROVE  kernel_text' = kernel_text /\ stage' # "lost"
<1>1. CASE c \notin DOMAIN CharAccess
  BY <1>1, ReceiveProtects DEF Type
<1>2. CASE c \in DOMAIN CharAccess /\ ~ Blocked("IRQ", CharAccess[c].access, CharAccess[c].va)
           /\ Accessed(c)
  <2>1. CharAccess[c].access = "read"
    BY <1>2, CharBlocked
  <2>2. Receive(c, kernel_text)
    BY <1>2, <2>1 DEF Accessed
  <2> QED BY <2>2, ReceiveProtects
<1>3. CASE Abort("IRQ", HandlerPc, CharAccess[c].access, CharAccess[c].va)
           /\ UNCHANGED kernel_text
  BY <1>3, AbortKeeps
<1> QED BY <1>1, <1>2, <1>3 DEF Type

LEMMA UserProtects ==
  ASSUME UserStep
  PROVE  kernel_text' = kernel_text /\ stage' # "lost"
<1>1. stage = "user"
  BY DEF UserStep
<1>2. CASE UserTraps
  BY <1>1, <1>2 DEF UserTraps, Raise, HandleMode
<1>3. CASE UserReads
  BY <1>1, <1>3, StoreProtects DEF UserReads
<1>4. ASSUME NEW access, NEW va, UserAccess(access, va)
      PROVE  kernel_text' = kernel_text /\ stage' # "lost"
  <2>1. CASE Abort("User", UserPc, access, va) /\ UNCHANGED kernel_text
    BY <1>1, <2>1, AbortKeeps
  <2>2. CASE ~ (Abort("User", UserPc, access, va) /\ UNCHANGED kernel_text)
    <3>1. /\ ~ Blocked("User", access, va) /\ stage' = stage
          /\ kernel_text' = IF access = "write" /\ va = text_kernel_start
                            THEN "overwritten" ELSE kernel_text
      BY <1>4, <2>2 DEF UserAccess
    <3>2. ~ (access = "write" /\ va = text_kernel_start)
      BY <1>1, <3>1, TextNotWritten DEF Blocked, Translation
    <3> QED BY <1>1, <3>1, <3>2
  <2> QED BY <2>1, <2>2
<1> QED BY <1>2, <1>3, <1>4 DEF UserStep

(* From mmu_init on neither a character with a deliberate access nor any   *)
(* access of user code nor any store through a thread's pointer changes    *)
(* the kernel's text or takes the processor out of it, for every layout of *)
(* the linked program.                                                     *)
THEOREM TextProtected == ConsoleSpec => KernelProtected
<1>1. ASSUME [ConsoleNext]_consoleVars
      PROVE  [stage \notin {"reset", "early"} =>
                 kernel_text' = kernel_text /\ stage' # "lost"]_consoleVars
  <2> SUFFICES ASSUME ConsoleNext, stage \notin {"reset", "early"}
               PROVE  kernel_text' = kernel_text /\ stage' # "lost"
    BY <1>1
  <2>1. CASE Boot
    BY <2>1 DEF Boot
  <2>2. ASSUME NEW piece, NEW n, PrintNumber(piece, n) PROVE FALSE
    BY <2>2 DEF PrintNumber
  <2>3. ASSUME NEW c, Type(c)
        PROVE  kernel_text' = kernel_text /\ stage' # "lost"
    <3>1. stage # "lost"
      BY <2>3 DEF Type, On
    <3> QED BY <2>3, <3>1, TypeProtects
  <2>4. CASE UserStep
    BY <2>4, UserProtects
  <2> QED BY <2>1, <2>2, <2>3, <2>4 DEF ConsoleNext, Typing
<1> QED BY <1>1, PTL DEF ConsoleSpec, KernelProtected

-----------------------------------------------------------------------------
(* What is printed for a number and for an address.                        *)

(* The format of a piece begins with its percent sign.                     *)
LEMMA FormatIs ==
  ASSUME NEW c \in NumberConversions, NEW w \in 0 .. 9, NEW pad \in {Space, "0"},
         pad # "0" => pad = Space,
         NEW piece, piece.conversion = c, piece.width = w, piece.pad = pad
  PROVE  EndsWith(Format(piece), 1, c, w, pad)
<1> DEFINE S == {"%", "0", Digit(w), c}
           z == IF pad = "0" THEN <<"0">> ELSE << >>
           d == IF w = 0 THEN << >> ELSE <<Digit(w)>>
           first == IF pad = "0" THEN 3 ELSE 2
<1>1. Format(piece) = ((<<"%">> \o z) \o d) \o <<c>>
  BY DEF Format
<1>2. /\ <<"%">> \in Seq(S) /\ Len(<<"%">>) = 1 /\ <<"%">>[1] = "%"
      /\ <<c>> \in Seq(S) /\ Len(<<c>>) = 1 /\ <<c>>[1] = c
      /\ z \in Seq(S) /\ Len(z) = first - 2 /\ (pad = "0" => z[1] = "0")
      /\ d \in Seq(S) /\ Len(d) = (IF w = 0 THEN 0 ELSE 1) /\ (w # 0 => d[1] = Digit(w))
  <2>1. "%" \in S /\ "0" \in S /\ Digit(w) \in S /\ c \in S
    OBVIOUS
  <2> HIDE DEF S
  <2>2. \A e \in S : <<e>> \in Seq(S) /\ Len(<<e>>) = 1 /\ <<e>>[1] = e
    OBVIOUS
  <2>3. << >> \in Seq(S) /\ Len(<< >>) = 0
    OBVIOUS
  <2>4. z \in Seq(S) /\ Len(z) = first - 2 /\ (pad = "0" => z[1] = "0")
    BY <2>1, <2>2, <2>3
  <2>5. d \in Seq(S) /\ Len(d) = (IF w = 0 THEN 0 ELSE 1) /\ (w # 0 => d[1] = Digit(w))
    BY <2>1, <2>2, <2>3
  <2> HIDE DEF z, d
  <2> QED BY <2>1, <2>2, <2>4, <2>5
<1>3. first \in {2, 3} /\ (pad = "0" <=> first = 3)
  OBVIOUS
<1> HIDE DEF z, d, S, first
<1> DEFINE pz == <<"%">> \o z
           pzd == pz \o d
           fmt == pzd \o <<c>>
<1>4. /\ pz \in Seq(S) /\ Len(pz) = first - 1
      /\ pz[1] = "%" /\ (pad = "0" => pz[2] = "0")
  <2>1. /\ pz \in Seq(S) /\ Len(pz) = Len(<<"%">>) + Len(z)
        /\ \A i \in 1 .. Len(<<"%">>) + Len(z) : pz[i] =
              IF i <= Len(<<"%">>) THEN <<"%">>[i] ELSE z[i - Len(<<"%">>)]
    BY <1>2, ConcatProperties
  <2> HIDE DEF pz
  <2> QED BY <1>2, <1>3, <2>1
<1> HIDE DEF pz
<1>5. /\ pzd \in Seq(S) /\ Len(pzd) = (first - 1) + Len(d)
      /\ pzd[1] = "%" /\ (pad = "0" => pzd[2] = "0")
      /\ w # 0 => pzd[first] = Digit(w)
  <2>1. /\ pzd \in Seq(S) /\ Len(pzd) = Len(pz) + Len(d)
        /\ \A i \in 1 .. Len(pz) + Len(d) : pzd[i] =
              IF i <= Len(pz) THEN pz[i] ELSE d[i - Len(pz)]
    BY <1>2, <1>4, ConcatProperties
  <2> HIDE DEF pzd
  <2> QED BY <1>2, <1>3, <1>4, <2>1
<1> HIDE DEF pzd
<1>6. /\ fmt \in Seq(S) /\ Len(fmt) = Len(pzd) + 1
      /\ \A i \in 1 .. Len(pzd) : fmt[i] = pzd[i]
      /\ fmt[Len(pzd) + 1] = c
  <2>1. /\ fmt \in Seq(S) /\ Len(fmt) = Len(pzd) + Len(<<c>>)
        /\ \A i \in 1 .. Len(pzd) + Len(<<c>>) : fmt[i] =
              IF i <= Len(pzd) THEN pzd[i] ELSE <<c>>[i - Len(pzd)]
    BY <1>2, <1>5, ConcatProperties
  <2> HIDE DEF fmt
  <2> QED BY <1>2, <1>3, <1>5, <2>1
<1>7. fmt = Format(piece)
  BY <1>1 DEF pz, pzd
<1> HIDE DEF fmt
<1>8. /\ Len(fmt) = (IF w = 0 THEN first ELSE first + 1)
      /\ fmt[1] = "%" /\ fmt[Len(fmt)] = c
      /\ pad = "0" => fmt[2] = "0"
      /\ w # 0 => fmt[first] = Digit(w)
  BY <1>2, <1>3, <1>5, <1>6
<1> QED BY <1>2, <1>3, <1>5, <1>6, <1>7, <1>8 DEF first, EndsWith

(* What kprintf prints for a piece and a number.                           *)
LEMMA PieceText ==
  ASSUME NEW c \in NumberConversions, NEW w \in 0 .. 9, NEW pad \in {Space, "0"},
         pad # "0" => pad = Space,
         NEW piece, piece.conversion = c, piece.width = w, piece.pad = pad, NEW n
  PROVE  kprintf(Format(piece), <<n>>) = Replacement(c, n, w, pad) \o << >>
<1> DEFINE fmt == Format(piece)
           q == 1
           args == <<n>>
<1>1. EndsWith(fmt, q, c, w, pad)
  BY FormatIs
<1>2. q = 1 /\ args[1] = n
  OBVIOUS
<1> HIDE DEF fmt, q, args
<1>3. ASSUME NEW i \in 1 .. Len(fmt), fmt[i] = "%" PROVE i = q
  <2> DEFINE first == IF pad = "0" THEN q + 2 ELSE q + 1
  <2>1. Digit(w) # "%" /\ c # "%"
    BY CtoiIs
  <2>2. /\ fmt[Len(fmt)] = c
        /\ pad = "0" => fmt[q + 1] = "0"
        /\ Len(fmt) = (IF w = 0 THEN first ELSE first + 1)
        /\ w # 0 => fmt[first] = Digit(w)
    BY <1>1 DEF EndsWith
  <2>3. first \in {2, 3} /\ (pad = "0" <=> first = 3)
    BY <1>2
  <2> HIDE DEF first
  <2> QED BY <1>2, <1>3, <2>1, <2>2, <2>3
<1>4. \A i \in 1 .. Len(fmt) : fmt[i] = "%" => i = q
  BY <1>3
<1>5. \E rest : /\ Unrolls(fmt, args, rest)
                /\ kprintf(fmt, args) = rest[1][1]
                /\ rest[q][1] = Replacement(c, args[1], w, pad) \o << >>
  BY <1>1, <1>4, OnlyConversion
<1>6. kprintf(fmt, args) = Replacement(c, args[1], w, pad) \o << >>
  BY <1>2, <1>5
<1> QED BY <1>2, <1>6 DEF fmt, args

LEMMA NumberPrinted ==
  ASSUME NEW c \in NumberConversions, NEW w \in 0 .. 9, NEW pad \in {Space, "0"},
         pad # "0" => pad = Space, w < buff_len,
         NEW piece, piece.conversion = c, piece.width = w, piece.pad = pad,
         NEW n \in Argument(c)
  PROVE  LET text == kprintf(Format(piece), <<n>>)
         IN  /\ IsNumeral(text, n, IF c = "x" THEN 16 ELSE 10, w, pad)
             /\ Len(text) < buff_len
<1>1. kprintf(Format(piece), <<n>>) = Replacement(c, n, w, pad) \o << >>
  BY PieceText
<1>2. WORD \in Nat /\ WORD >= 32 /\ WORD \div 2 \in Nat
  BY KprintfAssumption
<1>3. CASE c \in {"x", "u"}
  <2> DEFINE base == IF c = "x" THEN 16 ELSE 10
             text == numtostr(n, base, w, pad)
  <2>1. Replacement(c, n, w, pad) = text
    BY <1>3 DEF Replacement, hexakonv, uintodec
  <2>2. base \in Bases /\ base \in {10, 16}
    BY DEF Bases
  <2>3. n \in Nat /\ n \in 0 .. WORD - 1
    BY <1>2, <1>3 DEF Argument
  <2> HIDE DEF base
  <2>4. /\ w >= 0 => IsNumeral(text, n, base, w, pad) /\ text \in Seq(TextChars(base))
        /\ Len(text) = Longer(w, num_digits(n, base))
    <3>1. w \in Int /\ w >= -1
      OBVIOUS
    <3> QED BY <2>2, <2>3, <3>1, UnsignedText
  <2>5. num_digits(n, base) < buff_len /\ buff_len \in Nat /\ num_digits(n, base) \in Nat
    BY <2>2, <2>3, NumbersFit, NumDigits
  <2> HIDE DEF text
  <2>6. Len(text) < buff_len
    BY <2>4, <2>5 DEF Longer
  <2>7. text \o << >> = text
    BY <2>4, ConcatEmptySeq
  <2> QED BY <1>1, <2>1, <2>4, <2>6, <2>7 DEF base
<1>4. CASE c = "i"
  <2> DEFINE text == intodec(n, w, pad)
  <2>1. Replacement(c, n, w, pad) = text
    BY <1>4 DEF Replacement
  <2>2. n \in -(WORD \div 2) .. WORD \div 2 - 1
    BY <1>4 DEF Argument
  <2>3. /\ IsNumeral(text, n, 10, w, pad) /\ text \in Seq(TextChars(10))
        /\ Len(text) = Longer(w, Sign(n) + num_digits(Magnitude(n), 10))
    <3>1. w \in Nat
      OBVIOUS
    <3> QED BY <2>2, <3>1, SignedText
  <2>4. Sign(n) + num_digits(Magnitude(n), 10) < buff_len /\ buff_len \in Nat
        /\ Sign(n) + num_digits(Magnitude(n), 10) \in Nat
    <3>1. Magnitude(n) \in 0 .. WORD \div 2 /\ Magnitude(n) \in 0 .. WORD - 1
          /\ Sign(n) \in {0, 1} /\ Magnitude(n) \in Nat
      BY <1>2, <2>2 DEF Magnitude, Sign
    <3>2. num_digits(Magnitude(n), 10) \in Nat
      <4>1. 10 \in Bases
        BY DEF Bases
      <4> QED BY <3>1, <4>1, NumDigits
    <3>3. 1 + num_digits(Magnitude(n), 10) < buff_len /\ buff_len \in Nat
      BY <3>1, NumbersFit
    <3> QED BY <3>1, <3>2, <3>3
  <2> HIDE DEF text
  <2>5. Len(text) < buff_len
    BY <2>3, <2>4 DEF Longer
  <2>6. text \o << >> = text
    BY <2>3, ConcatEmptySeq
  <2> QED BY <1>1, <1>4, <2>1, <2>3, <2>5, <2>6
<1> QED BY <1>3, <1>4 DEF NumberConversions

(* An address is printed as its eight digits or more.                      *)
LEMMA AddressPrinted ==
  ASSUME NEW a \in Nat
  PROVE  PrintsAddress(a, a)
<1> DEFINE fmt == <<"0", "x", "%", "0", "8", "x">>
           S == {"0", "x", "%", "8"}
           q == 3
           c == "x"
           w == 8
           pad == "0"
           base == 16
           args == <<a>>
<1>1. /\ fmt \in Seq(S) /\ Len(fmt) = 6
      /\ fmt[1] = "0" /\ fmt[2] = "x" /\ fmt[3] = "%" /\ fmt[4] = "0"
      /\ fmt[5] = "8" /\ fmt[6] = "x"
  OBVIOUS
<1>2. Digit(8) = "8"
  BY DEF Digit, DigitChars
<1>3. q = 3 /\ c = "x" /\ w = 8 /\ pad = "0" /\ base = 16 /\ args[1] = a
  OBVIOUS
<1> HIDE DEF fmt, S, q, c, w, pad, base, args
<1>4. EndsWith(fmt, q, c, w, pad)
  BY <1>1, <1>2, <1>3 DEF EndsWith, NumberConversions
<1>5. \A i \in 1 .. Len(fmt) : fmt[i] = "%" => i = q
  <2>1. \A i \in 1 .. Len(fmt) : i \in {1, 2, 3, 4, 5, 6}
    BY <1>1
  <2> QED BY <1>1, <1>3, <2>1
<1>6. PICK rest : /\ Unrolls(fmt, args, rest)
                  /\ kprintf(fmt, args) = rest[1][1]
                  /\ rest[q][1] = Replacement(c, args[1], w, pad) \o << >>
  BY <1>4, <1>5, OnlyConversion
<1> DEFINE number == numtostr(a, base, w, pad)
<1>7. Replacement(c, args[1], w, pad) = number
  BY <1>3 DEF Replacement, hexakonv
<1>8. /\ IsNumeral(number, a, base, w, pad) /\ Len(number) \in Nat
      /\ number \in Seq(TextChars(base))
  <2>1. /\ base \in Bases /\ w \in Int /\ w >= -1 /\ w >= 0 /\ pad \in {Space, "0"}
        /\ (pad # "0" => pad = Space)
    BY <1>3 DEF Bases
  <2> HIDE DEF number
  <2>2. /\ IsNumeral(number, a, base, w, pad) /\ number \in Seq(TextChars(base))
    BY <2>1, UnsignedText DEF number
  <2> QED BY <2>2, LenProperties
<1> HIDE DEF number
<1>9. rest[q][1] = number
  BY <1>6, <1>7, <1>8, ConcatEmptySeq
<1>10. /\ rest[1][1] = <<"0">> \o rest[2][1]
       /\ rest[2][1] = <<"x">> \o rest[3][1]
  <2>1. rest[1] = RestOf(fmt, args, rest, 1) /\ rest[2] = RestOf(fmt, args, rest, 2)
    BY <1>6 DEF Unrolls
  <2>2. RestOf(fmt, args, rest, 1)[1] = <<"0">> \o rest[1 + 1][1]
    BY <1>1 DEF RestOf
  <2>3. RestOf(fmt, args, rest, 2)[1] = <<"x">> \o rest[2 + 1][1]
    BY <1>1 DEF RestOf
  <2>4. 1 + 1 = 2 /\ 2 + 1 = 3
    OBVIOUS
  <2>5. rest[1][1] = <<"0">> \o rest[2][1]
    BY <2>1, <2>2, <2>4, Zenon
  <2>6. rest[2][1] = <<"x">> \o rest[3][1]
    BY <2>1, <2>3, <2>4, Zenon
  <2> QED BY <2>5, <2>6
<1> DEFINE zero == <<"0">>
           x == <<"x">>
           p == zero \o x
           text == p \o number
           C == TextChars(base) \cup {"0", "x"}
<1>11. /\ number \in Seq(C) /\ zero \in Seq(C) /\ x \in Seq(C)
       /\ Len(zero) = 1 /\ zero[1] = "0" /\ Len(x) = 1 /\ x[1] = "x"
  <2>1. TextChars(base) \subseteq C /\ "0" \in C /\ "x" \in C
    OBVIOUS
  <2> HIDE DEF C
  <2>2. number \in Seq(C)
    BY <1>8, <2>1, SeqMonotonic
  <2> QED BY <2>1, <2>2
<1> HIDE DEF C, zero, x
<1>12. /\ p \in Seq(C) /\ Len(p) = 2 /\ p = <<"0", "x">>
  <2>1. /\ p \in Seq(C) /\ Len(p) = Len(zero) + Len(x)
        /\ \A i \in 1 .. Len(zero) + Len(x) : p[i] =
              IF i <= Len(zero) THEN zero[i] ELSE x[i - Len(zero)]
    BY <1>11, ConcatProperties
  <2> HIDE DEF p
  <2>2. p \in Seq(C) /\ Len(p) = 2 /\ p[1] = "0" /\ p[2] = "x"
    BY <1>11, <2>1
  <2> QED BY <2>2
<1>13. AddressText(a) = text
  <2>1. AddressText(a) = zero \o (x \o number)
    BY <1>3, <1>6, <1>9, <1>10 DEF AddressText, fmt, args, zero, x
  <2>2. (zero \o x) \o number = zero \o (x \o number)
    BY <1>11, ConcatAssociative
  <2> QED BY <2>1, <2>2
<1> HIDE DEF p
<1>14. Len(text) = 2 + Len(number)
  BY <1>11, <1>12, ConcatProperties
<1>15. SubSeq(text, 1, 2) = <<"0", "x">>
  <2>1. 1 \in 1 .. Len(p) /\ 2 \in 1 .. Len(p)
    BY <1>12
  <2>2. \A i, j \in 1 .. Len(p) : SubSeq(p \o number, i, j) = SubSeq(p, i, j)
    BY <1>11, <1>12, SubSeqOfConcat1
  <2>3. SubSeq(text, 1, 2) = SubSeq(p, 1, 2)
    BY <2>1, <2>2, Zenon
  <2>4. SubSeq(p, 1, Len(p)) = p
    BY <1>12, SubSeqFull
  <2> QED BY <1>12, <2>3, <2>4
<1>16. SubSeq(text, 3, Len(text)) = number
  <2> DEFINE R == Len(p) + 1 .. Len(p) + Len(number)
  <2>0. Len(number) > 0
    BY <1>8, <1>3 DEF IsNumeral
  <2>1. Len(p) + 1 \in R /\ Len(p) + Len(number) \in R
    BY <1>8, <1>12, <2>0
  <2>2. \A i, j \in R : SubSeq(p \o number, i, j) = SubSeq(number, i - Len(p), j - Len(p))
    BY <1>11, <1>12, SubSeqOfConcat2
  <2>3. SubSeq(text, Len(p) + 1, Len(p) + Len(number)) =
          SubSeq(number, (Len(p) + 1) - Len(p), (Len(p) + Len(number)) - Len(p))
    BY <2>1, <2>2, Zenon
  <2>4. /\ Len(p) + 1 = 3 /\ Len(p) + Len(number) = Len(text)
        /\ (Len(p) + 1) - Len(p) = 1 /\ (Len(p) + Len(number)) - Len(p) = Len(number)
    BY <1>8, <1>12, <1>14
  <2>5. SubSeq(number, 1, Len(number)) = number
    BY <1>11, SubSeqFull
  <2> QED BY <2>3, <2>4, <2>5
<1> HIDE DEF text
<1>17. \E t \in {AddressText(a)} :
          /\ SubSeq(t, 1, 2) = <<"0", "x">>
          /\ IsNumeral(SubSeq(t, 3, Len(t)), a, 16, 8, "0")
  BY <1>3, <1>8, <1>13, <1>15, <1>16
<1> QED BY <1>17 DEF PrintsAddress

(* Every number the kernel prints reads back as that number, in a field of *)
(* the wanted width, and fits into the buffer of kprintf: for every word   *)
(* size, number, width and padding.                                        *)
THEOREM NumbersReadBack == ConsoleSpec => []NumeralsRight
<1>1. ConsoleInit => NumeralsRight
  BY DEF ConsoleInit, NumeralsRight, Nothing
<1>2. ASSUME NEW piece \in Pieces, NEW n, PrintNumber(piece, n) PROVE NumeralsRight'
  <2> DEFINE c == piece.conversion
             w == piece.width
             pad == piece.pad
  <2>1. /\ c \in NumberConversions /\ w \in 0 .. 9 /\ pad \in {Space, "0"}
        /\ w < buff_len
    BY ConsoleAssumption DEF NumberConversions
  <2>2. n \in Argument(c)
    BY <1>2 DEF PrintNumber
  <2>3. output' = [kind |-> "number", piece |-> piece, n |-> n,
                   text |-> kprintf(Format(piece), <<n>>)]
    BY <1>2 DEF PrintNumber
  <2>4. LET text == kprintf(Format(piece), <<n>>)
        IN  /\ IsNumeral(text, n, IF c = "x" THEN 16 ELSE 10, w, pad)
            /\ Len(text) < buff_len
    BY <2>1, <2>2, NumberPrinted
  <2> QED BY <2>3, <2>4 DEF NumeralsRight
<1>3. ASSUME output'.kind # "number" PROVE NumeralsRight'
  BY <1>3 DEF NumeralsRight
<1>4. output' = Nothing => output'.kind # "number"
  BY DEF Nothing
<1>5. ASSUME NEW exception \in {"DataAbort", "PrefetchAbort", "Undefined", "Svc"},
             NEW mode, NEW pc, NEW access, NEW va, Raise(exception, mode, pc, access, va)
      PROVE  output'.kind # "number"
  BY <1>5 DEF Raise
<1>6. ASSUME NEW mode, NEW pc, NEW access, NEW va, Abort(mode, pc, access, va)
      PROVE  output'.kind # "number"
  BY <1>5, <1>6 DEF Abort
<1>7. ASSUME NEW mode, NEW p, NEW va, NEW text, KernelStore(mode, p, va, text)
      PROVE  output'.kind # "number"
  BY <1>4, <1>6, <1>7 DEF KernelStore
<1>8. ASSUME NEW c, Type(c) PROVE output'.kind # "number"
  <2>1. ASSUME NEW text, Receive(c, text) PROVE output'.kind # "number"
    BY <1>4, <1>7, <2>1 DEF Receive
  <2>2. Accessed(c) => output'.kind # "number"
    BY <1>4, <2>1 DEF Accessed
  <2> QED BY <1>6, <1>8, <2>1, <2>2 DEF Type
<1>9. ASSUME UserStep PROVE output'.kind # "number"
  <2>1. UserTraps => output'.kind # "number"
    BY <1>5 DEF UserTraps
  <2>2. UserReads => output'.kind # "number"
    BY <1>4, <1>7 DEF UserReads
  <2>3. ASSUME NEW access, NEW va, UserAccess(access, va) PROVE output'.kind # "number"
    BY <1>4, <1>6, <2>3 DEF UserAccess
  <2> QED BY <1>9, <2>1, <2>2, <2>3 DEF UserStep
<1>10. Boot => output'.kind # "number"
  BY <1>4 DEF Boot
<1>11. NumeralsRight /\ UNCHANGED consoleVars => NumeralsRight'
  BY DEF NumeralsRight, consoleVars
<1>12. NumeralsRight /\ [ConsoleNext]_consoleVars => NumeralsRight'
  BY <1>2, <1>3, <1>8, <1>9, <1>10, <1>11 DEF ConsoleNext, Typing
<1> QED BY <1>1, <1>12, PTL DEF ConsoleSpec

-----------------------------------------------------------------------------
(* The reports of exceptions.                                              *)

(* The addresses a report may name.                                        *)
Reported == {HandlerPc, UserPc} \cup Addresses
                \cup {virt2phys_adr(p, 0) : p \in Addresses}
                \cup {CharAccess[c].va : c \in DOMAIN CharAccess}

LEMMA ReportedAre == Reported \subseteq Nat
<1>0. /\ PAGE \in Nat /\ PAGE >= 8
      /\ L1_PAGE_SIZE \in Nat /\ L1_PAGE_SIZE >= 8
      /\ MainStack * PAGE \in Nat /\ MainStack * PAGE >= 8
  <2>1. PAGE \in Nat /\ PAGE >= 8
    BY AddressSpaceAssumption
  <2>2. \A m \in Nat \ {0}, n \in Nat : m * n \in Nat /\ m * n >= n
    <3>1. SUFFICES ASSUME NEW m \in Nat \ {0}, NEW n \in Nat
                   PROVE  m * n \in Nat /\ m * n >= n
      OBVIOUS
    <3>2. m * n = (m - 1) * n + n /\ (m - 1) * n \in Nat
      OBVIOUS
    <3> QED BY <3>2
  <2>3. MainStack \in Nat \ {0} /\ L2_SIZE \in Nat \ {0}
    BY AddressSpaceAssumption DEF MainStack
  <2>4. L1_PAGE_SIZE \in Nat /\ L1_PAGE_SIZE >= 8
    <3>1. L2_SIZE * PAGE \in Nat /\ L2_SIZE * PAGE >= PAGE
      BY <2>1, <2>2, <2>3
    <3>2. L1_PAGE_SIZE = L2_SIZE * PAGE
      BY <2>1, <2>3 DEF L1_PAGE_SIZE
    <3> QED BY <2>1, <3>1, <3>2
  <2>5. MainStack * PAGE \in Nat /\ MainStack * PAGE >= PAGE
    BY <2>1, <2>2, <2>3
  <2> QED BY <2>1, <2>4, <2>5
<1>1. /\ text_kernel_start \in Nat /\ text_kernel_start >= 8
      /\ text_user_start \in Nat
      /\ ram_user_start \in Nat /\ ram_user_start - 8 \in Nat
  <2>1. text_kernel_start = L1_PAGE_SIZE
    BY DEF text_kernel_start
  <2> QED BY <1>0, <2>1, ProgramFirst, TextSections
<1>2. phys_ram_user_start \in Nat
  <2>1. data_user_end \in Int /\ data_user_end >= 0
    BY <1>1, PageSizes DEF data_user_end, bss_user_start
  <2> QED BY <2>1, AlignBounds DEF phys_ram_user_start
<1>3. ram_kernel_start \in Nat /\ orig_globals_start \in Nat
  <2>1. text_kernel_end \in Int /\ text_kernel_end >= 0
    BY <1>1, ProgramFirst, TextSections
  <2>2. bss_kernel_start \in Int /\ bss_kernel_start >= 0
    BY <2>1, AlignBounds DEF bss_kernel_start
  <2>3. ram_kernel_start \in Int /\ ram_kernel_start >= 0
    <3>1. bss_kernel_start + KernelDataSize \in Nat
      BY <2>2, PageSizes
    <3> QED BY <3>1, AlignBounds DEF ram_kernel_start
  <2> QED BY <1>0, <2>3 DEF orig_globals_start
<1>5. HandlerPc \in Nat /\ UserPc \in Nat
  BY <1>0, <1>1 DEF HandlerPc, UserPc
<1>6. Addresses \subseteq Nat
  BY <1>0, <1>1, <1>2, <1>3 DEF Addresses
<1>7. \A p \in Addresses : virt2phys_adr(p, 0) \in Nat
  <2>1. phys_ram_user_start >= ram_user_start
    <3>1. data_user_end \in Int /\ data_user_end >= ram_user_start
      BY <1>1, PageSizes DEF data_user_end, bss_user_start
    <3> QED BY <1>1, <3>1, AlignBounds DEF phys_ram_user_start
  <2>2. ThreadRamStart(0) = phys_ram_user_start
    <3>1. 4 * (L1_PAGE_SIZE * 0) = 0
      BY <1>0
    <3> QED BY <1>2, <3>1 DEF ThreadRamStart
  <2>3. \A p \in Addresses : p \in Nat
    BY <1>6
  <2> HIDE DEF Addresses
  <2> QED BY <1>1, <1>2, <2>1, <2>2, <2>3 DEF virt2phys_adr
<1>8. \A c \in DOMAIN CharAccess : CharAccess[c].va \in Nat
  BY <1>1 DEF CharAccess
<1> HIDE DEF Addresses
<1> QED BY <1>5, <1>6, <1>7, <1>8 DEF Reported

(* The status registers say which access was refused and why.              *)
LEMMA StatusRead ==
  ASSUME NEW access \in {"read", "write", "fetch"}, NEW va
  PROVE  LET tr == Translation(va)
             status == FaultStatus(access, tr)
         IN  /\ Direction(status) = (IF access = "write" THEN "schreibend" ELSE "lesend")
             /\ Message(status) = Refusal(tr)
<1> DEFINE tr == Translation(va)
           status == FaultStatus(access, tr)
           reason == (IF tr.valid THEN 13 ELSE 5) + (IF tr.level = "Page" THEN 2 ELSE 0)
<1>1. tr.level \in {"Page", "Section"} /\ tr.valid \in BOOLEAN
  <2>1. ASSUME NEW table, NEW stacks
        PROVE  LET r == Translate(table, stacks, va)
               IN  /\ r.level \in {"Page", "Section"}
                   /\ \E bits : r.valid = (1 \in bits)
    BY DEF Translate
  <2>2. \A bits : (1 \in bits) \in BOOLEAN
    OBVIOUS
  <2>3. tr.level \in {"Page", "Section"} /\ \E bits : tr.valid = (1 \in bits)
    BY <2>1 DEF Translation
  <2> QED BY <2>2, <2>3
<1> HIDE DEF tr
<1>2. reason \in {5, 7, 13, 15}
  BY <1>1
<1>3. 2^RW_OFFSET = 2048
  BY DEF RW_OFFSET
<1>4. status = reason + (IF access = "write" THEN 2048 ELSE 0)
  BY <1>3 DEF FaultStatus
<1>5. Direction(status) = IF access = "write" THEN "schreibend" ELSE "lesend"
  <2>1. \A r \in {5, 7, 13, 15} :
          (r \div 2048) % 2 = 0 /\ ((r + 2048) \div 2048) % 2 = 1
    OBVIOUS
  <2>2. ((status \div 2048) % 2 = 1) <=> (access = "write")
    BY <1>2, <1>4, <2>1
  <2> HIDE DEF status
  <2> QED BY <1>3, <2>2 DEF Direction
<1>6. status % 16 = reason
  <2>1. \A r \in {5, 7, 13, 15} : r % 16 = r /\ (r + 2048) % 16 = r
    OBVIOUS
  <2> HIDE DEF reason
  <2> QED BY <1>2, <1>4, <2>1
<1>7. Message(status) = fsrc[reason]
  <2> HIDE DEF status, reason
  <2>1. status % 16 # 0
    BY <1>2, <1>6
  <2>2. Message(status) = fsrc[status % 16]
    BY <2>1 DEF Message
  <2> QED BY <1>6, <2>2
<1>8. fsrc[reason] = Refusal(tr)
  <2>1. /\ fsrc[5] = "Translation fault on Section"
        /\ fsrc[7] = "Translation fault on Page"
        /\ fsrc[13] = "Permission fault on Section"
        /\ fsrc[15] = "Permission fault on Page"
    BY DEF fsrc
  <2>2. Refusal(tr) =
          IF tr.level = "Page"
          THEN IF tr.valid THEN fsrc[15] ELSE fsrc[7]
          ELSE IF tr.valid THEN fsrc[13] ELSE fsrc[5]
    <3>1. Refusal(tr) = IF tr.valid THEN [Page |-> fsrc[15], Section |-> fsrc[13]][tr.level]
                        ELSE [Page |-> fsrc[7], Section |-> fsrc[5]][tr.level]
      BY <2>1 DEF Refusal
    <3>2. ASSUME NEW x, NEW y
          PROVE  [Page |-> x, Section |-> y][tr.level] = IF tr.level = "Page" THEN x ELSE y
      BY <1>1
    <3> QED BY <3>1, <3>2
  <2>3. reason = IF tr.level = "Page"
                 THEN IF tr.valid THEN 15 ELSE 7 ELSE IF tr.valid THEN 13 ELSE 5
    BY <1>1
  <2> HIDE DEF reason
  <2> QED BY <1>1, <2>2, <2>3
<1> HIDE DEF status
<1>9. Message(status) = Refusal(tr)
  BY <1>7, <1>8
<1> QED BY <1>5, <1>9 DEF tr, status

(* Every exception prints a right report.                                  *)
LEMMA RaiseReports ==
  ASSUME NEW exception \in {"DataAbort", "PrefetchAbort", "Undefined", "Svc"},
         NEW mode \in {"User", "IRQ", "Supervisor"}, NEW pc \in Int,
         NEW access \in {"read", "write", "fetch"}, NEW va,
         stage # "halted", PrintsAddress(pc, pc), PrintsAddress(va, va),
         Raise(exception, mode, pc, access, va)
  PROVE  ReportsRight'
<1> DEFINE tr == Translation(va)
           lr == pc + ReturnOffset[exception] - LR_CORRECTION[exception]
           status == FaultStatus(access, tr)
           cause == [pc |-> pc, mode |-> mode, access |-> access, va |-> va, tr |-> tr]
           report == [kind |-> exception, cause |-> cause,
                      at |-> CausePc(exception, lr),
                      mode |-> mode_names[get_mode(PSR[mode])],
                      direction |-> Direction(dfsr'),
                      address |-> dfar', error |-> Message(dfsr')]
<1>1. output' = report /\ stage' = IF PSR[mode] = PSR.User THEN stage ELSE "halted"
  BY DEF Raise, HandleMode
<1>2. exception = "DataAbort" => dfsr' = status /\ dfar' = va
  BY DEF Raise
<1>3. CausePc(exception, lr) = pc
  BY DEF CausePc, ReturnOffset, LR_OFFSET, LR_CORRECTION
<1>4. mode_names[get_mode(PSR[mode])] = IF mode = "User" THEN "User/System" ELSE mode
  <2>1. PSR["User"] = 16 /\ PSR["IRQ"] = 18 /\ PSR["Supervisor"] = 19 /\ PSR.User = 16 /\ PSR.FIQ = 17
        /\ PSR.IRQ = 18 /\ PSR.Supervisor = 19 /\ PSR.Abort = 23
        /\ PSR.Undefined = 27 /\ PSR.System = 31
    BY DEF PSR
  <2>2. get_mode(16) = 1 /\ get_mode(18) = 3 /\ get_mode(19) = 4
    BY <2>1 DEF get_mode
  <2>3. /\ mode_names[1] = "User/System" /\ mode_names[3] = "IRQ"
        /\ mode_names[4] = "Supervisor"
    BY DEF mode_names
  <2> QED BY <2>1, <2>2, <2>3
<1>5. (stage' = "halted") <=> (mode # "User")
  BY <1>1 DEF PSR
<1>6. exception = "DataAbort" =>
        /\ Direction(dfsr') = (IF access = "write" THEN "schreibend" ELSE "lesend")
        /\ Message(dfsr') = Refusal(tr)
  BY <1>2, StatusRead
<1> HIDE DEF tr, lr, status
<1>7. /\ output'.kind = exception /\ output'.cause = cause /\ output'.at = pc
      /\ output'.mode = (IF mode = "User" THEN "User/System" ELSE mode)
      /\ exception = "DataAbort" =>
           /\ output'.direction = (IF access = "write" THEN "schreibend" ELSE "lesend")
           /\ output'.address = va /\ output'.error = Refusal(tr)
  BY <1>1, <1>2, <1>3, <1>4, <1>6
<1>8. /\ cause.pc = pc /\ cause.mode = mode /\ cause.access = access
      /\ cause.va = va /\ cause.tr = tr
  OBVIOUS
<1> HIDE DEF cause
<1> QED BY <1>5, <1>7, <1>8 DEF ReportsRight

LEMMA AbortReports ==
  ASSUME NEW mode \in {"User", "IRQ", "Supervisor"}, NEW pc \in Reported,
         NEW access \in {"read", "write", "fetch"}, NEW va \in Reported,
         stage # "halted", Abort(mode, pc, access, va)
  PROVE  ReportsRight'
<1>1. /\ pc \in Nat /\ va \in Nat
      /\ PrintsAddress(pc, pc) /\ PrintsAddress(va, va)
  BY ReportedAre, AddressPrinted
<1>2. CASE access = "fetch"
  <2>1. Raise("PrefetchAbort", mode, va, access, va)
    BY <1>2 DEF Abort
  <2> QED BY <1>1, <2>1, RaiseReports
<1>3. CASE access # "fetch"
  <2>1. Raise("DataAbort", mode, pc, access, va)
    BY <1>3 DEF Abort
  <2> QED BY <1>1, <2>1, RaiseReports
<1> QED BY <1>2, <1>3

LEMMA Silent ==
  ASSUME output' = Nothing
  PROVE  ReportsRight'
<1>1. output'.kind = "nothing"
  BY DEF Nothing
<1> QED BY <1>1 DEF ReportsRight

LEMMA StoreReports ==
  ASSUME NEW mode \in {"IRQ", "Supervisor"}, NEW p, NEW va \in Reported, NEW text,
         stage # "halted", KernelStore(mode, p, va, text)
  PROVE  ReportsRight'
<1>1. HandlerPc \in Reported
  BY DEF Reported
<1>2. CASE Abort(mode, HandlerPc, "write", va)
  BY <1>1, <1>2, AbortReports
<1> QED BY <1>2, Silent DEF KernelStore

LEMMA ReceiveReports ==
  ASSUME NEW c, NEW text, stage # "halted", Receive(c, text)
  PROVE  ReportsRight'
<1>1. ASSUME NEW p \in Addresses, KernelStore("IRQ", p, virt2phys_adr(p, 0), text)
      PROVE  ReportsRight'
  <2>1. virt2phys_adr(p, 0) \in Reported
    BY DEF Reported
  <2> QED BY <1>1, <2>1, StoreReports
<1> QED BY <1>1, Silent DEF Receive

(* Every report of an exception names the address of its cause and the     *)
(* mode it happened in; that of a data abort also the direction of the     *)
(* access, its address and why it was refused.  Only a fault of the kernel *)
(* halts the system.  Of the address and the status a prefetch abort       *)
(* prints nothing is said.                                                 *)
THEOREM ReportsNameTheCause == ConsoleSpec => []ReportsRight
<1>1. ConsoleInit => ReportsRight
  BY DEF ConsoleInit, ReportsRight, Nothing
<1>2. ASSUME NEW c, Type(c) PROVE ReportsRight'
  <2>1. stage # "halted"
    BY <1>2 DEF Type, On
  <2>2. CASE c \notin DOMAIN CharAccess
    BY <1>2, <2>1, <2>2, ReceiveReports DEF Type
  <2>3. CASE c \in DOMAIN CharAccess /\ Accessed(c)
    BY <2>1, <2>3, Silent, ReceiveReports DEF Accessed
  <2>4. CASE /\ c \in DOMAIN CharAccess
             /\ Abort("IRQ", HandlerPc, CharAccess[c].access, CharAccess[c].va)
    <3>1. CharAccess[c].access \in {"read", "write", "fetch"}
      BY <2>4 DEF CharAccess
    <3>2. HandlerPc \in Reported /\ CharAccess[c].va \in Reported
      BY <2>4 DEF Reported
    <3> QED BY <2>1, <2>4, <3>1, <3>2, AbortReports
  <2> QED BY <1>2, <2>2, <2>3, <2>4 DEF Type
<1>3. ASSUME UserStep PROVE ReportsRight'
  <2>1. stage # "halted" /\ UserPc \in Reported
    BY <1>3 DEF UserStep, Reported
  <2>2. CASE UserTraps
    <3>1. PICK exception \in {"Undefined", "Svc"} :
             Raise(exception, "User", UserPc, "fetch", UserPc)
      BY <2>2 DEF UserTraps
    <3>2. UserPc \in Nat /\ PrintsAddress(UserPc, UserPc)
      BY <2>1, ReportedAre, AddressPrinted
    <3> QED BY <2>1, <3>1, <3>2, RaiseReports
  <2>3. CASE UserReads
    <3>1. ASSUME NEW p \in Addresses, KernelStore("Supervisor", p, p, kernel_text)
          PROVE  ReportsRight'
      <4>1. p \in Reported
        BY DEF Reported
      <4> QED BY <2>1, <3>1, <4>1, StoreReports
    <3> QED BY <2>3, <3>1, Silent DEF UserReads
  <2>4. ASSUME NEW access \in {"read", "write", "fetch"}, NEW va \in Addresses,
               UserAccess(access, va)
        PROVE  ReportsRight'
    <3>1. CASE Abort("User", UserPc, access, va)
      <4>1. va \in Reported
        BY DEF Reported
      <4> QED BY <2>1, <3>1, <4>1, AbortReports
    <3>2. CASE output' = Nothing
      BY <3>2, Silent
    <3> QED BY <2>4, <3>1, <3>2 DEF UserAccess
  <2> QED BY <1>3, <2>2, <2>3, <2>4 DEF UserStep
<1>4. ASSUME NEW piece, NEW n, PrintNumber(piece, n) PROVE ReportsRight'
  <2>1. output'.kind = "number"
    BY <1>4 DEF PrintNumber
  <2> QED BY <2>1 DEF ReportsRight
<1>5. ASSUME Boot PROVE ReportsRight'
  BY <1>5, Silent DEF Boot
<1>6. ReportsRight /\ UNCHANGED consoleVars => ReportsRight'
  BY DEF ReportsRight, consoleVars
<1>7. ReportsRight /\ [ConsoleNext]_consoleVars => ReportsRight'
  BY <1>2, <1>3, <1>4, <1>5, <1>6 DEF ConsoleNext, Typing
<1> QED BY <1>1, <1>7, PTL DEF ConsoleSpec
=============================================================================
