CONSTANTS
  tracknum = 3
  Carts = {0, 1, 2}
  Arrivals <- AnyWay
  MaxArrivals = 3
SPECIFICATION CartmanFairSpec
INVARIANTS JunctionExclusive OwnTrackReserved
PROPERTY EveryCartCrosses
CHECK_DEADLOCK FALSE
