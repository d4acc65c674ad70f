SPECIFICATION RunSpec
CHECK_DEADLOCK FALSE
CONSTANTS
  w1 = w1
  w2 = w2
  w3 = w3
  StageTypes <- ThreeStages
  Workers <- ThreeWorkers
  StageOf <- ThreeStageOf
  Capacity <- CapacityTwo
  CanFail = {}
  Unscored = FALSE
  OnStartMayFail = FALSE
  DrainMayTimeOut = FALSE
  Calls = {"Start", "Drain", "Stop"}
  MaxFrames = 2
  MaxStarts = 1
INVARIANT VerdictOfOwnFrame
