SPECIFICATION Spec
CONSTANTS
  Users = {u1, u2, u3}
  Tasks = {t1}
  Jobs = {j1, j2}
  Terms = {x1}
  Ops = {"accept"}
  None = None
PROPERTIES
  AcceptTakesOpenTask
CHECK_DEADLOCK FALSE
