SPECIFICATION Spec
CONSTANTS
    MaxFrames = 2
    RuleNG = {}
    ScoreNG = {}
    MaxCandidates = 2
    Trigger = 2
    TargetSize = 3
    Prefilter = 1
    SaturationWindow = 2
    MaxIncrements = 2
    SelfValidation = FALSE
    DriftRebuild = TRUE
    SaveOnStop = TRUE
    MayFail = {}
    Displacements = {0}
    Calls = {"Stop"}
    MaxStarts = 1
    MaxRebuilds = 0
CHECK_DEADLOCK FALSE
INVARIANT SearchedBankAlive
