SPECIFICATION SyncSpec
CONSTANTS
  u1 = u1
  u2 = u2
  t1 = t1
  Users = {u1, u2}
  Conversations <- MCConversations
  Rooms = {i1}
  Requests = {r1, r2, r3}
  Ops = {"open", "send", "read"}
  Devices = {u1}
  Pushes = {p1, p2}
  BatchSize = 2
  None = None
SYMMETRY Interchangeable
INVARIANTS
  OrderlyPulls
  PushedInOrder
  PushedIsStored
CHECK_DEADLOCK FALSE
