SPECIFICATION HealthFairSpec
CONSTANTS
    Module = {"a", "b"}
    Metric = {"a_count", "a_level", "b_count"}
    Owner <- Owners
    Counter = {"a_count", "b_count"}
    Namings <- MCNamings
    Legal = {"a_count", "a_level", "b_count"}
    Topic = {"HEALTH", "INTERNAL"}
    Watched = {"HEALTH"}
    NoMessage = NoMessage
    Cap = 3
    MaxCount = 1
    MaxFaults = 2
    MaxRestarts = 1
PROPERTY MonitorsRevive
PROPERTY CounterArrives
PROPERTY GaugeSettles
CHECK_DEADLOCK FALSE
INVARIANT HealthInv
