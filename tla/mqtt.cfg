SPECIFICATION FairSpec
CONSTANTS
    Endpoints = 2
    Tag = {"voltage"}
    Value = {0, 1}
    Zero = 0
    MaxGen = 3
    MaxStatus = 1
    MaxFlips = 2
    MaxPending = 1
PROPERTY Reconnects
PROPERTY BrokerCatchesUp
PROPERTY TermEnds
CHECK_DEADLOCK FALSE
INVARIANT MQTTInv
