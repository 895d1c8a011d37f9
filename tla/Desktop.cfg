CONSTANTS
  Proc = {r1, r2}
  Key = {k1, k2}
  MaxCrashes = 1
  Setting = {"room"}
  AsRoot = FALSE
SPECIFICATION DesktopSpec
INVARIANTS
  DesktopTypeOK
  LateHasIdentity
  DamageIsExplained
  OneIdentity
  PermissionIsExplained
  RunsWithStored
PROPERTIES
  IdentityStays
  LostKeysStayLost
  OnlyStaleSavesUndo
SYMMETRY Symmetry
