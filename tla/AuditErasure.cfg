CONSTANTS
  Users = {u1, u2}
  Tenants = {t1}
  NumWrites = 2
  Erasures = {e1, e2}
  PageLimit = 1
  MaxMonth = 0
SPECIFICATION Spec
INVARIANT ErasureDestroysLink
CHECK_DEADLOCK FALSE
