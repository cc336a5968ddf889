SPECIFICATION FairSpec
CONSTANTS
    Var <- Vars
    Tagged <- TaggedVars
    Program <- Turbine
    Num <- Nums
    NaN = NaN
    Failed = Failed
    Start <- AllZero
    ProcessUpdates = TRUE
    MaxInbox = 1
INVARIANT NoLostChange
PROPERTY KeepsEvaluating
INVARIANT LogicInv
