SPECIFICATION Spec
CHECK_DEADLOCK FALSE
CONSTANTS
  w1 = w1
  w2 = w2
  w3 = w3
  w4 = w4
  StageTypes <- ThreeStages
  Workers <- ThreeWorkers
  StageOf <- ThreeStageOf
  Capacity <- CapacityOne
  CanFail = {2}
  Unscored = TRUE
  OnStartMayFail = TRUE
  DrainMayTimeOut = TRUE
  Calls = {"Start", "Drain", "Stop"}
  MaxFrames = 2
  MaxStarts = 2
INVARIANT PipelineInv
 
 
INVARIANT StopLeavesOnlyTheLastSubmit
PROPERTY StopTerminates
PROPERTY EveryFrameSettles
