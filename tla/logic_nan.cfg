SPECIFICATION FairSpec
CONSTANTS
    Var <- Vars
    Tagged <- TaggedVars
    Program <- Average
    Num <- Nums
    NaN = NaN
    Failed = Failed
    Start <- AllOne
    ProcessUpdates = TRUE
    MaxInbox = 1
PROPERTY KeepsEvaluating
CHECK_DEADLOCK FALSE
