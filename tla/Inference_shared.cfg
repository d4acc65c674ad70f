SPECIFICATION InferSpec
CHECK_DEADLOCK FALSE
CONSTANTS
  Workers = {w1, w2}
  Slabs = {s1, s2}
  MaxFrames = 3
  MaxReloads = 0
  Gaps = TRUE
INVARIANT FeaturesOfFrame
