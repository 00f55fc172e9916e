------------------------------ MODULE Kprintf -------------------------------
(***************************************************************************)
(* Formatted output of the kernel (Kernel/kprintf.c) with the helpers it   *)
(* uses (useful_libraries/math.c, primfunc.c), as functions from a format  *)
(* and its arguments to the characters sent to the UART.  A string is a    *)
(* sequence of characters, a character a string of length one.             *)
(***************************************************************************)
EXTENDS Integers, Sequences

CONSTANT WORD         \* 2^32: the number of values of an unsigned int

ASSUME KprintfAssumption == WORD \in Nat /\ WORD >= 32

DigitChars == <<"0", "1", "2", "3", "4", "5", "6", "7", "8", "9",
                "A", "B", "C", "D", "E", "F">>

Digit(d) == DigitChars[d + 1]

Space == " "

absi(input) == IF input > 0 THEN input ELSE (-input) % WORD

powi(base, exp) ==
    IF base = 0 THEN 0 ELSE IF base = 1 \/ exp = 0 THEN 1 ELSE base^exp

ctoi(c) == IF \E d \in 0 .. 9 : Digit(d) = c
           THEN CHOOSE d \in 0 .. 9 : Digit(d) = c ELSE -1

num_digits(input, base) ==
    LET n[x \in Nat] == IF x < base THEN 1 ELSE 1 + n[x \div base]
    IN  n[input]

-----------------------------------------------------------------------------
(* Number conversion.  The digits the loop of numtostr writes, from the    *)
(* last one on, into the places the padding has left.                      *)
digits_of(input, base) ==
    LET digits[x \in Nat] ==
            IF x < base THEN <<Digit(x)>>
            ELSE Append(digits[x \div base], Digit(x % base))
    IN  digits[input]

numtostr(input, base, min_width, paddingc) ==
    LET n_chars == num_digits(input, base)
        i_num_start == IF n_chars > min_width THEN 0 ELSE min_width - n_chars
    IN  [i \in 1 .. i_num_start |-> paddingc] \o digits_of(input, base)

(* Mutant: the place of the minus is not counted.                          *)
intodecUncounted(input, min_width, paddingc) ==
    LET n_chars == num_digits(absi(input), 10)
        limit_buffer == input < 0 /\ n_chars > min_width
        number == numtostr(absi(input), 10,
                           IF limit_buffer THEN min_width - 1 ELSE min_width,
                           paddingc)
        place == IF paddingc = "0" THEN 1 ELSE min_width - n_chars
    IN  IF input >= 0 THEN number
        ELSE IF limit_buffer THEN <<"-">> \o number
        ELSE [i \in 1 .. Len(number) |-> IF i = place THEN "-" ELSE number[i]]

(* The minus gets a place of its own when the number fills the field       *)
(* (limit_buffer), otherwise it replaces a character of the padding.       *)
intodec(input, min_width, paddingc) ==
    LET n_chars == num_digits(absi(input), 10)
        limit_buffer == input < 0 /\ n_chars + 1 > min_width
        number == numtostr(absi(input), 10,
                           IF limit_buffer THEN min_width - 1 ELSE min_width,
                           paddingc)
        place == IF paddingc = "0" THEN 1 ELSE min_width - n_chars
    IN  IF input >= 0 THEN number
        ELSE IF limit_buffer THEN <<"-">> \o number
        ELSE [number EXCEPT ![place] = "-"]

uintodec(input, min_width, paddingc) == numtostr(input, 10, min_width, paddingc)

hexakonv(input, min_width, paddingc) == numtostr(input, 16, min_width, paddingc)

(* int_buf in kprintf, the terminating zero included.                      *)
buff_len == num_digits(WORD - 1, 2) + 1

-----------------------------------------------------------------------------
(* The value of the digits str begins with, -1 if there are none.          *)
fieldwidth(str) ==
    LET digit(i) == i <= Len(str) /\ ctoi(str[i]) # -1
        p == CHOOSE n \in 0 .. Len(str) :
                 ~digit(n + 1) /\ \A i \in 1 .. n : digit(i)
        width[i \in 0 .. p] ==
            IF i = 0 THEN 0
            ELSE width[i - 1] + ctoi(str[p + 1 - i]) * powi(10, i - 1)
    IN  IF p = 0 THEN -1 ELSE width[p]

Replacement(conversion, arg, pwidth, paddingc) ==
    CASE conversion = "c" -> <<arg>>
      [] conversion = "s" -> arg
      [] conversion = "x" -> hexakonv(arg, pwidth, paddingc)
      [] conversion = "i" -> intodec(arg, pwidth, paddingc)
      [] conversion = "u" -> uintodec(arg, pwidth, paddingc)
      [] conversion = "p" -> <<"0", "x">> \o hexakonv(arg, pwidth, Space)

Conversions == {"c", "s", "x", "i", "u", "p"}

(* Printed instead of what the format should have produced.                *)
InvalidReplacement == <<"error">>

(* kprintf: the rest of the format from position i on, with the arguments  *)
(* from a on.  After a replacement it skips as many characters as the      *)
(* VALUE of the field width has digits.                                    *)
kprintf(fmt, args) ==
    LET char(i) == IF i <= Len(fmt) THEN fmt[i] ELSE "end"
        rest[i \in Nat \ {0}] == [a \in Nat |->
            IF i > Len(fmt) THEN << >>
            ELSE IF fmt[i] # "%" THEN <<fmt[i]>> \o rest[i + 1][a]
            ELSE LET zero == char(i + 1) = "0"
                     first == IF zero THEN i + 2 ELSE i + 1
                     width == fieldwidth(SubSeq(fmt, first, Len(fmt)))
                     at == IF width > 0 THEN first + num_digits(width, 10)
                           ELSE first
                 IN  IF char(at) = "%" THEN <<"%">> \o rest[at + 1][a]
                     ELSE IF char(at) \notin Conversions
                          THEN InvalidReplacement
                     ELSE Replacement(char(at), args[a],
                                      IF width > 0 THEN width ELSE 0,
                                      IF zero THEN "0" ELSE Space)
                          \o rest[at + 1][a + 1]]
    IN  rest[1][1]

-----------------------------------------------------------------------------
(* What the text of a number is, for the properties.                       *)

(* The number that the digits say, read from the left.                     *)
Reading(digits, base) ==
    LET value(c) == CHOOSE d \in 0 .. base - 1 : Digit(d) = c
        read[i \in 0 .. Len(digits)] ==
            IF i = 0 THEN 0 ELSE read[i - 1] * base + value(digits[i])
    IN  read[Len(digits)]

(* text is the number n: after the padding of spaces and the minus its     *)
(* digits are read as n, and padding fills the field exactly when the      *)
(* number is shorter.                                                      *)
IsNumeral(text, n, base, width, pad) ==
    \E spaces \in 0 .. Len(text), minus \in {IF n < 0 THEN 1 ELSE 0} :
        LET digits == SubSeq(text, spaces + minus + 1, Len(text))
        IN  /\ digits # << >> /\ digits \in Seq({Digit(d) : d \in 0 .. base - 1})
            /\ Reading(digits, base) = (IF n < 0 THEN -n ELSE n)
            /\ \A i \in 1 .. spaces : text[i] = Space
            /\ n < 0 => text[spaces + 1] = "-"
            /\ Len(digits) > 1 /\ digits[1] = "0" => pad = "0" /\ Len(text) = width
            /\ spaces > 0 => pad = Space /\ Len(text) = width
            /\ Len(text) >= width
=============================================================================
