\* Two requests at a time over three books; writes fail anywhere, reads of b3 too.
CONSTANTS
  b1 = b1
  b2 = b2
  b3 = b3
  Books = {b1, b2, b3}
  PageCount <- MCPageCount
  Requests <- MCRequests
  Calls = {c1, c2}
  c1 = c1
  c2 = c2
  MaxTime = 2
  Loose = {b3}
SPECIFICATION Spec
INVARIANTS HeardIsStored
PROPERTIES OlderOnlyOverUnseen ImplementsLWW
