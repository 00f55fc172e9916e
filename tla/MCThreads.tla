----------------------------- MODULE MCThreads ------------------------------
(***************************************************************************)
(* Instances of the scheduler core for TLC: the workloads the threads of a *)
(* run are restricted to.  Everything else is a number in the .cfg file.   *)
(***************************************************************************)
EXTENDS ThreadsProps

Sleeping == {"exit", "thread", "sleep"}
Reading  == {"exit", "process", "thread", "read"}
=============================================================================
