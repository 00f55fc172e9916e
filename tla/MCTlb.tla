------------------------------- MODULE MCTlb --------------------------------
(***************************************************************************)
(* The instance of Tlb for TLC: three threads that do everything but       *)
(* sleep; a table of 8 pages has a page of globals and three stack pages.  *)
(***************************************************************************)
EXTENDS Tlb

Reading == {"exit", "process", "thread", "read"}
=============================================================================
