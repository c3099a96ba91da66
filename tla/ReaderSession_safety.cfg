\* Two books of two pages, opened twice.
SPECIFICATION Spec
CONSTANTS
  plain = plain
  mixed = mixed
  Books = {plain, mixed}
  LastPage = 1
  Wide <- MCWide
  Layouts = {"single", "double"}
  Starts = {1}
  MaxOpens = 2
INVARIANTS NothingLeftBehind ChoiceKept
CHECK_DEADLOCK FALSE
