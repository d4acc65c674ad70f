SPECIFICATION ApplicationSpec
CHECK_DEADLOCK FALSE
CONSTANTS
  w1 = w1
  slab1 = slab1
  slab2 = slab2
INVARIANTS    VerdictOfFrame BanksSound RoutedThroughout FeaturesOfFrame
