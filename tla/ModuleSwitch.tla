---------------------------- MODULE ModuleSwitch ----------------------------
(***************************************************************************)
(* What the CPU promises an operator: every module has a switch, and while *)
(* it is on the module's one process is kept running.  Module Supervisor   *)
(* implements it as long as requests do not meet.                          *)
(***************************************************************************)
EXTENDS Naturals

CONSTANT Module

VARIABLES
    on,      \* modules that are switched on
    procs,   \* number of running processes of every module
    over     \* the CPU has seen to the end of all of them

vars == <<on, procs, over>>

Init ==
    /\ on = {}
    /\ procs = [m \in Module |-> 0]
    /\ over = FALSE

\* A module is switched on only after its earlier process is gone.
SwitchOn(m) ==
    /\ m \notin on
    /\ procs[m] = 0
    /\ on' = on \cup {m}
    /\ UNCHANGED <<procs, over>>

\* A process is started, or started again, while the switch is on, and never a second one.
StartProcess(m) ==
    /\ m \in on
    /\ procs[m] = 0
    /\ procs' = [procs EXCEPT ![m] = 1]
    /\ UNCHANGED <<on, over>>

\* A process ends by itself, or because its module has been switched off.
ProcessEnds(m) ==
    /\ procs[m] = 1
    /\ procs' = [procs EXCEPT ![m] = 0]
    /\ UNCHANGED <<on, over>>

\* The process may need some time to end.
SwitchOff(m) ==
    /\ m \in on
    /\ on' = on \ {m}
    /\ UNCHANGED <<procs, over>>

\* After the signal the CPU waits until everything is off and has ended.
Finish ==
    /\ on = {}
    /\ \A m \in Module : procs[m] = 0
    /\ over' = TRUE
    /\ UNCHANGED <<on, procs>>

Next ==
    \/ \E m \in Module : SwitchOn(m) \/ StartProcess(m) \/ ProcessEnds(m) \/ SwitchOff(m)
    \/ Finish

Spec == Init /\ [][Next]_vars
=============================================================================
