SPECIFICATION Spec
CONSTANTS
  u1 = u1
  u2 = u2
  s1 = s1
  s2 = s2
  s3 = s3
  Users = {u1, u2}
  Sockets = {s1, s2, s3}
  Owner <- MCOwner
  Processes = {p1, p2}
  Handlers = {h1, h2}
  None = None
SYMMETRY Interchangeable
INVARIANTS
  NoGhosts
  HiddenByOtherSocket
  OrderlyBadge
CONSTRAINT FewCommands
CHECK_DEADLOCK FALSE
