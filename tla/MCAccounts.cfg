CONSTANTS
  User = {ann, bob, cid}
  Org = {o1, o2}
  Invite = {t1}
  Handler = {h1, h2}
  Payer = {ann, cid}
  Second = cid
  Unmanaged = bob
  Versions = 1
  Task = {k1}
  MayFail = TRUE
  None = None
SPECIFICATION Spec
SYMMETRY MCSymmetry
INVARIANTS
    OwnerIsAdmin
    MembershipIsEarned
    PaidOrgIsLinked
CONSTRAINT MCApart
