SPECIFICATION FairSpec
CONSTANTS
    m1 = m1
    m2 = m2
    Module = {m1}
    NoModule = NoModule
    Sup = {s1, s2}
    Chan = {c1, c2}
    Nil = Nil
    Bus = Bus
    Handler = {a1}
    Control <- OnOff
    Faults = {"dies"}
    Settled = FALSE
PROPERTY ShutdownCompletes
PROPERTY RestartedIfItDies
PROPERTY DisableStops
CHECK_DEADLOCK FALSE
