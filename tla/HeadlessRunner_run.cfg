SPECIFICATION RunSpec
CHECK_DEADLOCK FALSE
CONSTANTS
  w1 = w1
  w2 = w2
  w3 = w3
  StageTypes <- ThreeStages
  Workers <- ThreeWorkers
  StageOf <- ThreeStageOf
  Capacity <- CapacityTwo
  CanFail = {}
  Unscored = FALSE
  OnStartMayFail = FALSE
  DrainMayTimeOut = TRUE
  Calls = {"Start", "Drain", "Stop"}
  MaxFrames = 3
  MaxStarts = 1
 
PROPERTY RunFinishes
