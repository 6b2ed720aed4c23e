SPECIFICATION SerialSpec
CONSTANTS
  Users = {u1, u2}
  Tasks = {t1, t2}
  Jobs = {j1, j2}
  Terms = {x1, x2}
  Ops = {"accept", "cancel", "decline", "start", "complete", "acknowledge", "edit"}
  None = None
SYMMETRY Interchangeable
PROPERTIES
  RefinesBoard
