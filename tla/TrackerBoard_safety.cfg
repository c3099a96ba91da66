SPECIFICATION FairTrackerSpec
CONSTANTS
  t1 = t1
  t2 = t2
  c1 = c1
  c2 = c2
  None = None
  Files = {1, 2, 3}
  Forms <- MCForms
  Filed <- MCFiled
  Jotted <- MCJotted
  Followed = {t1}
  MaxMarks = 2
  Additions = {11, 12}
  Numbers = {4}
  Tracks = {t1, t2}
  Filters <- MCFilters
  Grouped = TRUE
  Slots = {c1}
  MaxEvents = 1
INVARIANTS EveryIssueHasACell
PROPERTIES RunMarksTheStretch PopoverCloses
CHECK_DEADLOCK FALSE
