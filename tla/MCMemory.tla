------------------------------ MODULE MCMemory ------------------------------
(***************************************************************************)
(* The instance of Memory for TLC.  Pages of 16 bytes and sections of 6    *)
(* pages keep the kernel's layout: every part of the linked program has a  *)
(* section of its own, a process a page of globals and two stack pages.    *)
(***************************************************************************)
EXTENDS Memory

AnyCall == CallKinds
=============================================================================
