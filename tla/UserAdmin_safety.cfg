\* The owner, a restricted account and one that may be created; two requests at a time.
SPECIFICATION Spec
CONSTANTS
  c1 = c1
  c2 = c2
  Calls = {c1, c2}
  ann = ann
  bob = bob
  Names = {ann, bob}
  Roles = {"member", "restricted"}
  Ceilings = {"Teen"}
  NoCeiling = NoCeiling
  Same = Same
  Nothing = Nothing
  MaxIds = 3
  Worked = {2, 3}
  MaxActs = 3
SYMMETRY Symmetry
INVARIANTS RoleChangeSignsOut ListSettles
PROPERTIES NoRestrictionLostUnseen
CHECK_DEADLOCK FALSE
