-------------------------- MODULE MCModuleControl --------------------------
(* Small instances of ModuleControl for TLC. *)
EXTENDS ModuleControl

AllFaults == Fault
=============================================================================
