SPECIFICATION Spec
CONSTANTS
  a = a
  a2 = a2
  b = b
  g = g
  e1 = e1
  e2 = e2
  e3 = e3
  e4 = e4
  c1 = c1
  c2 = c2
  None = None
  Books = {a, a2, b}
  IssueOf <- IssueOfBook
  Groups = {g}
  Members <- MembersOf
  Entries = {e1, e2, e3}
  Listed <- AAndB
  Gap = 2
  MaxPos = 12
  MaxEvents = 3
  MaxPicked = 1
  Calls = {c1, c2}
SYMMETRY Symmetry
 
PROPERTIES ImplementsOrder DropLandsWhereShown
CHECK_DEADLOCK FALSE
