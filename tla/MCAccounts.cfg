SPECIFICATION Spec
CONSTANTS
  Students = {x1}
  Names = {n1, n2}
  Requests = {r1, r2, r3}
  Ops = {"register", "forgot", "send", "verify", "reset", "check", "signUp", "run", "profile"}
  RunStudent = x1
  None = None
SYMMETRY Interchangeable
INVARIANTS
  SpentCodeIsGone
  OrderlyCodes
  DuplicatesFollowVerification
PROPERTIES
  PasswordNeedsCode
CHECK_DEADLOCK FALSE
