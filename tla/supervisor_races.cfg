SPECIFICATION Spec
CONSTANTS
    m1 = m1
    m2 = m2
    Module = {m1}
    NoModule = NoModule
    Sup = {s1, s2}
    Chan = {c1, c2, c3}
    Nil = Nil
    Bus = Bus
    Handler = {Bus, a1}
    Control <- OneModule
    Faults <- AllFaults
    Settled = FALSE
SYMMETRY Symmetry
INVARIANT TypeOK
INVARIANT Watched
INVARIANT WaiterCounts
PROPERTY WaitMeansStopped
CHECK_DEADLOCK FALSE
