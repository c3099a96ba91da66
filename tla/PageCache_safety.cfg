\* Three pages, two of them cached, two loads of each.
SPECIFICATION LiveSpec
CONSTANTS
  Total = 3
  Capacity = 2
  Aheads = {0, 1}
  Behind = 0
  MaxLoads = 2
  MaxBegun = 4
  Hovered = {0}
INVARIANTS PaintedIsLive OnlyEvictedLoadsLeak
PROPERTIES WindowSettles
CHECK_DEADLOCK FALSE
