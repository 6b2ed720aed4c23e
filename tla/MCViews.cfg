SPECIFICATION TasksAndViewsSpec
CONSTANTS
  Users = {u1, u2, u3}
  Tasks = {t1, t2}
  Jobs = {j1}
  Looks = {k1, k2, k3}
  Terms = {x1}
  Ops = {}
  None = None
SYMMETRY Interchangeable
INVARIANTS
  ViewsNeverExceedViewers
  OrderlyViews
CHECK_DEADLOCK FALSE
