SPECIFICATION Spec
CONSTANTS
  u1 = u1
  u2 = u2
  t1 = t1
  Users = {u1, u2}
  Conversations <- MCConversations
  Rooms = {i1, i2}
  Requests = {r1, r2, r3, r4}
  Ops = {"open", "send", "read"}
  None = None
SYMMETRY Interchangeable
INVARIANTS
  TypeOK
  OneRoomPerConversation
  SendsReconcile
  OrderlyCounters
  OrderlyDates
CHECK_DEADLOCK FALSE
