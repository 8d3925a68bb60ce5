SPECIFICATION Spec
CONSTANTS
  r1 = r1
  r2 = r2
  g1 = g1
  g2 = g2
  admin = admin
  ana = ana
  p = p
  q = q
  Requests = {r1, r2}
  Pages = {g1, g2}
  Names = {admin, ana}
  Passwords = {p, q}
  Admin = admin
  Default = p
  Forms <- MCForms
  Tables <- MCTables
  Nobody = Nobody
  MaxCrashes = 1
SYMMETRY Symmetry
INVARIANTS
  TypeOK
  LoginIsOwn
  NoBlindOverwrite
  AdminsMakeUsers
  SetupOnce
  MessageShownOnce
  MessageNeverReturns
CHECK_DEADLOCK FALSE
