----------------------------- MODULE MCContexts -----------------------------
(***************************************************************************)
(* Instances of the register contexts for TLC: the workloads.              *)
(***************************************************************************)
EXTENDS Contexts, ThreadsProps

WithoutProcesses == CallKinds \ {"process"}
Reading == {"thread", "read"}
=============================================================================
