---------------------------- MODULE MCSupervisor ----------------------------
(* Small instances of Supervisor for TLC. *)
EXTENDS Supervisor, TLC

CONSTANTS m1, m2

\* A single operator switching the module on and off.
OnOff == { [enable |-> <<m1>>, disable |-> <<>>],
           [enable |-> <<>>, disable |-> <<m1>>] }

\* One operation per request, one name that does not exist, and a message that
\* enables and disables in one go (internal.go handles the enables first).
OneModule == { [enable |-> <<m1>>, disable |-> <<>>],
               [enable |-> <<>>, disable |-> <<m1>>],
               [enable |-> <<NoModule>>, disable |-> <<>>],
               [enable |-> <<m1>>, disable |-> <<m1>>] }

TwoModules == { [enable |-> <<m1>>, disable |-> <<>>],
                [enable |-> <<m2, m1>>, disable |-> <<>>],
                [enable |-> <<>>, disable |-> <<m1>>],
                [enable |-> <<>>, disable |-> <<m2>>],
                [enable |-> <<m2>>, disable |-> <<m1>>] }

AllFaults == Fault

MissingOrDies == {"missing", "dies"}

\* Supervisors and channels are interchangeable.
Symmetry == Permutations(Sup) \cup Permutations(Chan)
=============================================================================
