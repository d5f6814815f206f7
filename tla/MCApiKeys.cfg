SPECIFICATION KeysSpec
CONSTANTS
  KeyId = {k1, k2, k3}
  Request = {r1, r2}
  Tenant = {t1, t2}
  Scope = {admin, viewer}
  Admins = {admin}
  Graces = {1}
  Lifetimes = {1, Forever}
  NameRoom = 1
  Forever = Forever
  NoKey = NoKey
  MaxNow = 1
SYMMETRY MCSymmetry
INVARIANTS KeysTypeOK ChainKeepsScope
PROPERTIES RevocationSticks OnlyOwnAdmins
CHECK_DEADLOCK FALSE
