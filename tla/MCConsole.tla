----------------------------- MODULE MCConsole -----------------------------
(***************************************************************************)
(* The instance of Console for TLC: the real sizes of sections, pages and  *)
(* memory; unsigned numbers are limited to 28 bits, the largest power of   *)
(* two that keeps all arithmetic of the model inside TLC's integers.       *)
(***************************************************************************)
EXTENDS Console

KernelChars == {"a", "N", "P", "C", "U", "X"}

SomePieces ==
    {[conversion |-> c, width |-> w, pad |-> p] :
        c \in {"x", "i", "u"}, w \in {0, 2, 3, 8}, p \in {Space, "0"}}

SomeNumbers ==
    {-(WORD \div 2), -123, -12, -10, -9, 0, 7, 10, 255, 4096, WORD \div 2 - 1, WORD - 1}
=============================================================================
