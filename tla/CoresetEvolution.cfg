SPECIFICATION Spec
CONSTANTS
    MaxFrames = 2
    RuleNG = {}
    ScoreNG = {}
    MaxCandidates = 2
    Trigger = 2
    TargetSize = 2
    Prefilter = 1
    SaturationWindow = 2
    MaxIncrements = 1
    SelfValidation = TRUE
    DriftRebuild = TRUE
    SaveOnStop = TRUE
    MayFail = {"build", "save"}
    Displacements = {1, 3}
    Calls = {"Stop", "FullRebuild"}
    MaxStarts = 1
    MaxRebuilds = 3
CHECK_DEADLOCK FALSE
INVARIANTS EvolutionInv RejectRestores  ProfileNotAheadOfBank
PROPERTIES StopReturns 
