\* Two accounts, of one server or of two, and two requests at a time.
SPECIFICATION Spec
CONSTANTS
  ann = ann
  bob = bob
  here = here
  there = there
  r1 = r1
  r2 = r2
  Users = {ann, bob}
  Servers = {here, there}
  Requests = {r1, r2}
  MaxPairs = 3
  MaxClients = 2
  MaxPw = 1
SYMMETRY Symmetry
INVARIANTS  RevocationHolds SignOutHolds ActsAsShown
CHECK_DEADLOCK FALSE
