SPECIFICATION MCSpec
CONSTANTS
    Radix = 2
    ByteBits = 8
    Unit = 20
    Tag <- Tags
    Registers <- Map
    Requests <- Gapped
    Levels = {1, 20}
    None = None
    Factors = {1, 10, 100}
    MaxValue = 840
    MaxBits = 10
    Faults = {"push"}
INVARIANT AckedIsPushed
INVARIANT ReadBack
INVARIANT ServerInv
INVARIANT RoundTrip
