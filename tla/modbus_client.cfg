SPECIFICATION FairSpec
CONSTANTS
    Radix = 4
    ByteBits = 8
    Unit = 10
    Elements <- Registers
    Present = {"breaker", "setpoint"}
    Point <- Points
    Command <- Commands
    Level = {10}
    None = None
    MaxCommands = 2
    MaxFaults = 1
    MaxChanges = 1
INVARIANT StatusFresh
INVARIANT LastCommandWins
PROPERTY MirrorConverges
INVARIANT ClientInv
