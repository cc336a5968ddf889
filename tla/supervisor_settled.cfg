SPECIFICATION Spec
CONSTANTS
    m1 = m1
    m2 = m2
    Module = {m1, m2}
    NoModule = NoModule
    Sup = {s1, s2}
    Chan = {c1, c2, c3, c4}
    Nil = Nil
    Bus = Bus
    Handler = {Bus, a1}
    Control <- TwoModules
    Faults <- MissingOrDies
    Settled = TRUE
CHECK_DEADLOCK FALSE
INVARIANT Orderly
PROPERTY ImplementsSwitch
