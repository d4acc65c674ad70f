SPECIFICATION PlatformSpec
CHECK_DEADLOCK FALSE
CONSTANTS
  s1 = s1
  s2 = s2
  Slabs <- TwoSlabs
  InitialList <- TwoSlabList
  Handles = {h1, h2, h3}
  Users = {t1, t2}
  Nil = Nil
  Word = 8
  MaxTag = 5
INVARIANTS PoolInv SlabsAccounted RuntimeInv PlatformInv
PROPERTIES  CopyResumed RunEnds ConfigCurrent
