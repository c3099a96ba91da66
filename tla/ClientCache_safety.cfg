\* Two issues, three events of which two may be mutations, two members.
SPECIFICATION QueriesSpec
CONSTANTS
  i1 = i1
  i2 = i2
  c1 = c1
  c2 = c2
  w1 = w1
  w2 = w2
  Members = {w1, w2}
  Screens <- TwoScreens
  Issues = {i1, i2}
  Blank = Blank
  Room = 1
  Ids = {c1, c2}
  MaxBeats = 2
  MaxEvents = 3
SYMMETRY Symmetry
INVARIANTS TrackerConverges  PresenceConverges
CHECK_DEADLOCK FALSE
