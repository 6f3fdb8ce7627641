CONSTANTS
  Users = {u1, u2}
  Tenants = {t1}
  NumWrites = 2
  Erasures = {e1, e2}
  PageLimit = 1
  MaxMonth = 1
SPECIFICATION Spec
INVARIANTS RowsPseudonymised WriteLostOnlyByFault ExportExact
PROPERTY TransactionsEnd
CHECK_DEADLOCK FALSE
